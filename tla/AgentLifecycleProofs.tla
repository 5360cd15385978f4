------------------------ MODULE AgentLifecycleProofs ------------------------
(***************************************************************************)
(* Proofs about one agent's lifecycle, for any number of callers, calls    *)
(* and frames and any capacity of the queues.                              *)
(***************************************************************************)
EXTENDS AgentLifecycle, TLAPS

-----------------------------------------------------------------------------
(* Sequences.                                                              *)

\* What is left of a queue when its first element is taken.
LEMMA TailFacts ==
  ASSUME NEW S, NEW s \in Seq(S), s # <<>>
  PROVE  /\ Head(s) \in S /\ Tail(s) \in Seq(S) /\ Len(Tail(s)) <= Len(s)
         /\ \E i \in DOMAIN s : Head(s) = s[i]
         /\ \A i \in DOMAIN Tail(s) : \E j \in DOMAIN s : Tail(s)[i] = s[j]
  <1>1. Len(s) \in Nat /\ Len(s) # 0 /\ DOMAIN s = 1..Len(s)
    OBVIOUS
  <1>2. Head(s) = s[1] /\ Head(s) \in S
    BY <1>1
  <1>3. /\ Tail(s) \in Seq(S) /\ Len(Tail(s)) = Len(s) - 1
        /\ \A i \in 1..(Len(s) - 1) : Tail(s)[i] = s[i + 1]
    BY <1>1
  <1> QED BY <1>1, <1>2, <1>3

\* Elements that were all in T are still in T.
LEMMA TailKeeps ==
  ASSUME NEW S, NEW s \in Seq(S), s # <<>>, NEW T, \A i \in DOMAIN s : s[i] \in T
  PROVE  Head(s) \in T /\ \A i \in DOMAIN Tail(s) : Tail(s)[i] \in T
  BY TailFacts

-----------------------------------------------------------------------------
(* Type correctness.                                                       *)

\* The initial state has the right types.
LEMMA TypeInit == Init => TypeOK
  <1> SUFFICES ASSUME Init PROVE TypeOK
    OBVIOUS
  <1>1. TypeController
    <2>1. sm = "stopped" /\ starting = FALSE /\ queue = <<>> /\ stateCh = <<>>
      BY DEF Init
    <2>2. queue \in Seq(RunIDs) /\ Len(queue) <= QueueCap
      BY <2>1, BoundsAssumption
    <2>3. stateCh \in Seq(RunIDs) /\ Len(stateCh) <= ChanCap
      BY <2>1, BoundsAssumption
    <2> QED BY <2>1, <2>2, <2>3 DEF TypeController, States
  <1>2. TypeCallers
    <2>1. /\ pc = [c \in Callers |-> "idle"] /\ act = [c \in Callers |-> "start"]
          /\ result = [c \in Callers |-> "ok"] /\ calls = 0
          /\ run = [c \in Callers |-> NoRun] /\ stopRun = [c \in Callers |-> NoRun]
          /\ stopRid = [c \in Callers |-> NoRun]
      BY DEF Init
    <2> QED
      BY <2>1, BoundsAssumption DEF TypeCallers, Actions, Labels, RunIDs, NoRun
  <1>3. TypeSlot
    BY DEF Init, TypeSlot, RunIDs, NoRun
  <1>4. TypeChildren
    <2>1. /\ child = [r \in Runs |-> "none"] /\ termed = [r \in Runs |-> FALSE]
          /\ pipe = [r \in Runs |-> <<>>] /\ reader = [r \in Runs |-> "none"]
          /\ bad = [r \in Runs |-> 0] /\ watcher = [r \in Runs |-> "none"]
      BY DEF Init
    <2> QED BY <2>1 DEF TypeChildren, Phases
  <1>5. TypeHistory
    BY DEF Init, TypeHistory
  <1> QED BY <1>1, <1>2, <1>3, <1>4, <1>5 DEF TypeOK

\* A new call of Apply.
LEMMA TypeNewCall ==
  ASSUME TypeOK, NEW c \in Callers, NewCall(c)
  PROVE  TypeOK'
  <1> USE BoundsAssumption DEF NewCall, CallInitialize, CallStart, CallStop,
        CallReload, CallRestart, Call, NestedApply, Return, Goto, childVars,
        histVars
  <1>1. TypeController'
    BY DEF TypeOK, TypeController, TransitionTo, States
  <1>2. TypeCallers'
    BY DEF TypeOK, TypeCallers, Actions, Labels, Runs, RunIDs
  <1>3. TypeSlot'
    BY DEF TypeOK, TypeSlot
  <1>4. TypeChildren' /\ TypeHistory'
    BY DEF TypeOK, TypeChildren, TypeHistory
  <1> QED BY <1>1, <1>2, <1>3, <1>4 DEF TypeOK

\* What Publish does to the queue.
LEMMA TypePublish ==
  ASSUME queue \in Seq(RunIDs), Len(queue) <= QueueCap,
         NEW state, NEW r \in RunIDs, Publish(state, r)
  PROVE  queue' \in Seq(RunIDs) /\ Len(queue)' <= QueueCap
  BY BoundsAssumption DEF Publish

\* A step inside ActionStart.
LEMMA TypeStartStep ==
  ASSUME TypeOK, NEW c \in Callers, StartStep(c)
  PROVE  TypeOK'
  <1> USE DEF StartStep, BeginStart, StartDependencies, SetRunID, Drain,
        RunnerStart, SpawnFailed, MarkStarting, AwaitEvent, AwaitSilence,
        AwaitDeadline, StartTimedOut, PublishFailed, MarkRunning, EndStart,
        LeaveStart, Return, Goto
  <1>1. TypeController'
    <2>1. queue' \in Seq(RunIDs) /\ Len(queue)' <= QueueCap
      BY TypePublish DEF TypeOK, TypeController, TypeSlot, TypeCallers
    <2>2. \/ stateCh' \in {stateCh, <<>>}
          \/ stateCh # <<>> /\ stateCh' = Tail(stateCh)
      OBVIOUS
    <2>3. stateCh' \in Seq(RunIDs) /\ Len(stateCh)' <= ChanCap
      <3>1. stateCh \in Seq(RunIDs) /\ Len(stateCh) <= ChanCap /\ ChanCap \in Nat
        BY BoundsAssumption DEF TypeOK, TypeController
      <3>2. CASE stateCh' = stateCh
        BY ONLY <3>1, <3>2
      <3>3. CASE stateCh' = <<>>
        BY ONLY <3>1, <3>3
      <3>4. CASE stateCh # <<>> /\ stateCh' = Tail(stateCh)
        BY ONLY <3>1, <3>4, TailFacts
      <3> QED BY ONLY <2>2, <3>2, <3>3, <3>4
    <2>4. sm' \in States /\ starting' \in BOOLEAN
      BY DEF TypeOK, TypeController, TransitionTo, States
    <2> QED BY <2>1, <2>3, <2>4 DEF TypeController
  <1>2. TypeCallers'
    BY DEF TypeOK, TypeCallers, Labels, StartSection, AwaitLabels, locals, Awaiting
  <1>3. TypeSlot'
    <2>1. /\ nextRunID' \in {nextRunID, run[c]} /\ cmd' \in {cmd, nextRunID}
          /\ stopping' \in {stopping, FALSE} /\ spoke' \in {spoke, FALSE}
          /\ announced' \in {announced, <<"", NoRun>>} /\ armed' \in {armed, FALSE}
      BY DEF slotVars, StoppingAtSpawn
    <2>2. announced' \in (Frames \cup {""}) \X RunIDs
      <3>1. <<"", NoRun>> \in (Frames \cup {""}) \X RunIDs
        BY DEF RunIDs
      <3>2. announced \in (Frames \cup {""}) \X RunIDs
        BY DEF TypeOK, TypeSlot
      <3> QED BY ONLY <2>1, <3>1, <3>2
    <2>3. stopping' \in BOOLEAN /\ spoke' \in BOOLEAN /\ armed' \in BOOLEAN
      BY ONLY <2>1, TypeOK, Zenon DEF TypeOK, TypeSlot
    <2>4. cmd' \in RunIDs /\ nextRunID' \in RunIDs
      BY ONLY <2>1, TypeOK, c \in Callers DEF TypeOK, TypeSlot, TypeCallers
    <2> QED BY <2>2, <2>3, <2>4 DEF TypeSlot
  <1>4. TypeChildren'
    BY DEF TypeOK, TypeChildren, childVars, Phases
  <1>5. TypeHistory'
    BY DEF TypeOK, TypeHistory, histVars
  <1> QED BY <1>1, <1>2, <1>3, <1>4, <1>5 DEF TypeOK

\* A step inside ActionStop, which also changes the children it signals.
LEMMA TypeStopStep ==
  ASSUME TypeOK, NEW c \in Callers, StopStep(c)
  PROVE  TypeOK'
  <1> USE DEF StopStep, StopCheck, MarkStopping, RunnerStopSignal,
        KillAfterGrace, RunnerStopDone, RunnerReset, MarkStopped, Return, Goto
  <1>1. TypeController'
    <2>1. queue' \in Seq(RunIDs) /\ Len(queue)' <= QueueCap
      BY TypePublish DEF TypeOK, TypeController, TypeCallers, RunIDs
    <2>2. sm' \in States /\ UNCHANGED <<starting, stateCh>>
      BY DEF TypeOK, TypeController, TransitionTo, States
    <2> QED BY <2>1, <2>2 DEF TypeOK, TypeController
  <1>2. TypeCallers'
    BY DEF TypeOK, TypeCallers, TypeSlot, Labels, locals
  <1>3. TypeSlot'
    BY DEF TypeOK, TypeSlot, slotVars, RunIDs
  <1>4. TypeChildren'
    BY DEF TypeOK, TypeChildren, childVars, Phases, AfterKill
  <1>5. TypeHistory'
    BY DEF TypeOK, TypeHistory, histVars
  <1> QED BY <1>1, <1>2, <1>3, <1>4, <1>5 DEF TypeOK

\* A step inside ActionReload, and the reply that ends a call.
LEMMA TypeReloadStep ==
  ASSUME TypeOK, NEW c \in Callers, ReloadStep(c) \/ Reply(c)
  PROVE  TypeOK'
  <1> USE DEF ReloadStep, MarkReloading, GoReload, PythonReload,
        AwaitReloadEvent, AwaitReloadDeadline, ReloadFailed, MarkReloaded,
        Reply, Return, Goto
  <1>1. TypeController'
    <2>1. queue' \in Seq(RunIDs) /\ Len(queue)' <= QueueCap
      BY TypePublish DEF TypeOK, TypeController, TypeSlot, RunIDs
    <2>2. \/ stateCh' = stateCh
          \/ stateCh # <<>> /\ stateCh' = Tail(stateCh)
      OBVIOUS
    <2>3. stateCh' \in Seq(RunIDs) /\ Len(stateCh)' <= ChanCap
      <3>1. stateCh \in Seq(RunIDs) /\ Len(stateCh) <= ChanCap /\ ChanCap \in Nat
        BY BoundsAssumption DEF TypeOK, TypeController
      <3>2. CASE stateCh' = stateCh
        BY ONLY <3>1, <3>2
      <3>3. CASE stateCh # <<>> /\ stateCh' = Tail(stateCh)
        BY ONLY <3>1, <3>3, TailFacts
      <3> QED BY ONLY <2>2, <3>2, <3>3
    <2>4. sm' \in States /\ UNCHANGED starting
      BY DEF TypeOK, TypeController, TransitionTo, States
    <2> QED BY <2>1, <2>3, <2>4 DEF TypeOK, TypeController
  <1>2. TypeCallers'
    BY DEF TypeOK, TypeCallers, Labels, Actions, RunIDs, locals
  <1>3. TypeSlot'
    BY DEF TypeOK, TypeSlot, slotVars
  <1>4. TypeChildren' /\ TypeHistory'
    BY DEF TypeOK, TypeChildren, TypeHistory, childVars, histVars
  <1> QED BY <1>1, <1>2, <1>3, <1>4 DEF TypeOK

\* A step of a child or of a goroutine of its run.
LEMMA TypeRunStep ==
  ASSUME TypeOK, NEW r \in Runs, ChildStep(r) \/ RunStep(r)
  PROVE  TypeOK'
  <1> USE DEF ChildStep, RunStep, ChildPending, ChildReady, ChildStopping,
        ChildFinish, ChildExit, ChildGarble, ReadFrame, ReadEOF, WatchExit,
        WriteFrame
  <1>1. TypeController'
    <2>1. queue' \in Seq(RunIDs) /\ Len(queue)' <= QueueCap
      BY TypePublish DEF TypeOK, TypeController, RunIDs
    <2> QED BY <2>1 DEF TypeOK, TypeController
  <1>2. TypeCallers'
    BY DEF TypeOK, TypeCallers, callVars, locals
  <1>3. TypeSlot'
    <2>1. CASE ReadFrame(r) /\ Head(pipe[r]) # "bad"
      <3>1. Head(pipe[r]) \in Frames
        <4>1. pipe[r] \in Seq(Written) /\ pipe[r] # <<>>
          BY <2>1 DEF TypeOK, TypeChildren
        <4>2. Head(pipe[r]) \in Written
          BY ONLY <4>1, TailFacts
        <4> QED BY <2>1, <4>2 DEF Written
      <3>2. <<Head(pipe[r]), r>> \in (Frames \cup {""}) \X RunIDs
        BY ONLY <3>1, r \in Runs DEF RunIDs
      <3> QED BY <2>1, <3>2 DEF TypeOK, TypeSlot
    <2>2. CASE ~(ReadFrame(r) /\ Head(pipe[r]) # "bad")
      BY <2>2 DEF TypeOK, TypeSlot, slotVars, RunIDs
    <2> QED BY <2>1, <2>2
  <1>4. TypeChildren'
    <2>1. pipe' \in [Runs -> Seq(Written)]
      <3>1. PICK s \in Seq(Written) :
               pipe' \in {pipe, [pipe EXCEPT ![r] = s]}
        <4>1. pipe[r] \in Seq(Written)
          BY DEF TypeOK, TypeChildren
        <4>2. \A f \in Written :
                 Append(pipe[r], f) \in Seq(Written)
          BY ONLY <4>1
        <4>3. CASE ChildStep(r)
          <5>1. \/ pipe' = pipe
                \/ \E f \in Written :
                      pipe' = [pipe EXCEPT ![r] = Append(@, f)]
            BY <4>3 DEF Frames, Written
          <5> QED BY <5>1, <4>1, <4>2
        <4>4. CASE RunStep(r)
          <5>1. \/ pipe' = pipe
                \/ pipe[r] # <<>> /\ pipe' = [pipe EXCEPT ![r] = Tail(@)]
            BY <4>4
          <5> QED BY <5>1, <4>1, TailFacts
        <4> QED BY <4>3, <4>4
      <3> QED BY ONLY <3>1, TypeOK DEF TypeOK, TypeChildren
    <2>2. child' \in [Runs -> Phases] /\ UNCHANGED termed
      BY DEF TypeOK, TypeChildren, childVars, Phases
    <2>3. reader' \in [Runs -> {"none", "open", "closed"}]
      <3>1. reader' \in {reader, [reader EXCEPT ![r] = "closed"],
                         [reader EXCEPT ![r] = @]}
        BY DEF childVars
      <3> QED BY ONLY <3>1, TypeOK DEF TypeOK, TypeChildren
    <2>4. bad' \in [Runs -> Nat]
      <3>1. bad' \in {bad, [bad EXCEPT ![r] = @ + 1]}
        BY DEF childVars
      <3>2. bad \in [Runs -> Nat]
        BY DEF TypeOK, TypeChildren
      <3> QED BY ONLY <3>1, <3>2
    <2>5. watcher' \in [Runs -> {"none", "waiting", "done"}]
      BY DEF TypeOK, TypeChildren, childVars
    <2> QED BY <2>1, <2>2, <2>3, <2>4, <2>5 DEF TypeOK, TypeChildren
  <1>5. TypeHistory'
    <2>1. ready' \in {ready, ready \cup {r}} /\ ended' \in {ended, ended \cup {r}}
      BY DEF histVars
    <2>2. exitBy' \in {exitBy, [exitBy EXCEPT ![r] = @ \cup {"agent"}],
                       [exitBy EXCEPT ![r] = @ \cup {"watcher"}]}
      BY DEF histVars
    <2> QED BY ONLY <2>1, <2>2, TypeOK, r \in Runs DEF TypeOK, TypeHistory
  <1> QED BY <1>1, <1>2, <1>3, <1>4, <1>5 DEF TypeOK

\* The subscription's delivery goroutine.
LEMMA TypeDeliver == TypeOK /\ DeliverStatus => TypeOK'
  <1> SUFFICES ASSUME TypeOK, DeliverStatus PROVE TypeOK'
    OBVIOUS
  <1>1. TypeController'
    BY BoundsAssumption DEF TypeOK, TypeController, DeliverStatus
  <1> QED
    BY <1>1 DEF TypeOK, DeliverStatus, TypeCallers, TypeSlot, TypeChildren,
       TypeHistory, callVars, locals, slotVars, childVars, histVars

\* The variables keep their types and the queues their capacities.
THEOREM TypeCorrect == Spec => []TypeOK
  <1>1. TypeOK /\ [Next]_vars => TypeOK'
    <2> SUFFICES ASSUME TypeOK, [Next]_vars PROVE TypeOK'
      OBVIOUS
    <2>1. CASE UNCHANGED vars
      BY <2>1 DEF TypeOK, TypeController, TypeCallers, TypeSlot, TypeChildren,
         TypeHistory, vars, callVars, locals, slotVars, childVars, histVars
    <2>2. ASSUME NEW c \in Callers, NewCall(c) \/ CallerStep(c)
          PROVE  TypeOK'
      BY <2>2, TypeNewCall, TypeStartStep, TypeStopStep, TypeReloadStep
         DEF CallerStep
    <2>3. ASSUME NEW r \in Runs, ChildStep(r) \/ RunStep(r)
          PROVE  TypeOK'
      BY <2>3, TypeRunStep
    <2> QED BY <2>1, <2>2, <2>3, TypeDeliver DEF Next
  <1> QED BY <1>1, TypeInit, PTL DEF Spec

-----------------------------------------------------------------------------
(* One start at a time.  The inductive invariant ties the marker to the    *)
(* section of ActionStart it protects.                                     *)

MarkerInv ==
    /\ \A c \in Callers : pc[c] \in StartSection => starting
    /\ OneStartInFlight

\* A step of caller c that leaves the marker alone and does not enter the
\* section keeps the invariant.
LEMMA MarkerFrame ==
  ASSUME MarkerInv, UNCHANGED starting, NEW c,
         \A d \in Callers : d # c => pc'[d] = pc[d],
         c \in Callers /\ pc'[c] \in StartSection => pc[c] \in StartSection
  PROVE  MarkerInv'
  BY DEF MarkerInv, OneStartInFlight

\* Every step keeps the marker and the section it protects in agreement.
LEMMA MarkerStep ==
  ASSUME TypeOK, MarkerInv, [Next]_vars
  PROVE  MarkerInv'
  <1> USE DEF TypeOK, TypeCallers, StartSection, AwaitLabels, Return, Goto
  <1>1. CASE UNCHANGED vars
    BY <1>1 DEF vars, callVars, MarkerInv, OneStartInFlight
  <1>2. ASSUME NEW c \in Callers, NewCall(c) PROVE MarkerInv'
    <2>1. /\ UNCHANGED starting /\ pc'[c] \notin StartSection
          /\ \A d \in Callers : d # c => pc'[d] = pc[d]
      BY <1>2 DEF NewCall, CallInitialize, CallStart, CallStop, CallReload,
         CallRestart, Call, NestedApply
    <2> QED BY <2>1, MarkerFrame
  <1>3. ASSUME NEW c \in Callers, StartStep(c) PROVE MarkerInv'
    <2>1. CASE BeginStart(c) /\ ~starting
      BY <1>3, <2>1 DEF BeginStart, MarkerTaken, MarkerInv, OneStartInFlight
    <2>2. CASE EndStart(c)
      BY <1>3, <2>2 DEF EndStart, MarkerInv, OneStartInFlight
    <2>3. CASE ~(BeginStart(c) /\ ~starting) /\ ~EndStart(c)
      <3>1. /\ UNCHANGED starting
            /\ pc'[c] \in StartSection => pc[c] \in StartSection
            /\ \A d \in Callers : d # c => pc'[d] = pc[d]
        BY <1>3, <2>3 DEF StartStep, BeginStart, MarkerTaken,
           StartDependencies, SetRunID, Drain, RunnerStart, SpawnFailed,
           MarkStarting, AwaitEvent, Awaiting, AwaitSilence, AwaitDeadline,
           StartTimedOut, PublishFailed, MarkRunning, LeaveStart
      <3> QED BY <3>1, MarkerFrame
    <2> QED BY <2>1, <2>2, <2>3
  <1>4. ASSUME NEW c \in Callers, StopStep(c) \/ ReloadStep(c) \/ Reply(c)
        PROVE  MarkerInv'
    <2>1. /\ UNCHANGED starting /\ pc'[c] \notin StartSection
          /\ \A d \in Callers : d # c => pc'[d] = pc[d]
      BY <1>4 DEF StopStep, StopCheck, MarkStopping, RunnerStopSignal,
         KillAfterGrace, RunnerStopDone, RunnerReset, MarkStopped, ReloadStep,
         MarkReloading, GoReload, PythonReload, AwaitReloadEvent,
         AwaitReloadDeadline, ReloadFailed, MarkReloaded, Reply
    <2> QED BY <2>1, MarkerFrame
  <1>5. CASE DeliverStatus \/ \E r \in Runs : ChildStep(r) \/ RunStep(r)
    <2>1. UNCHANGED <<starting, pc>>
      BY <1>5 DEF DeliverStatus, ChildStep, RunStep, ChildPending, ChildReady,
         ChildStopping, ChildFinish, ChildExit, ChildGarble, ReadFrame,
         ReadEOF, WatchExit, WriteFrame, callVars
    <2> QED BY <2>1 DEF MarkerInv, OneStartInFlight
  <1> QED BY <1>1, <1>2, <1>3, <1>4, <1>5 DEF Next, CallerStep

\* However many goroutines start an agent at the same time, at most one is
\* between beginStart and endStart.
THEOREM StartIsExclusive == Spec => []OneStartInFlight
  <1>1. Init => MarkerInv
    <2>1. Init => pc = [c \in Callers |-> "idle"]
      BY DEF Init
    <2> QED BY <2>1 DEF MarkerInv, OneStartInFlight, StartSection, AwaitLabels
  <1>2. MarkerInv => OneStartInFlight
    BY DEF MarkerInv
  <1> QED BY <1>1, <1>2, MarkerStep, TypeCorrect, PTL DEF Spec

-----------------------------------------------------------------------------
(* RUNNING is the child's word.  The inductive invariant follows the       *)
(* announcement from the child's pipe through both queues to the wait.     *)

ReadinessInv ==
    /\ \A r \in Runs : \A i \in DOMAIN pipe[r] :
          pipe[r][i] = "running" => r \in ready
    /\ \A i \in DOMAIN queue : queue[i] \in ready \cup {NoRun}
    /\ \A i \in DOMAIN stateCh : stateCh[i] \in ready \cup {NoRun}
    /\ \A c \in Callers : pc[c] # "idle" => run[c] \in Runs
    /\ RunningWasAnnounced

\* The queue after a Publish of an event that may be there.
LEMMA PublishAnnounced ==
  ASSUME TypeOK, NEW S \in SUBSET RunIDs, \A i \in DOMAIN queue : queue[i] \in S,
         NEW state, NEW r, state = "running" => r \in S, Publish(state, r)
  PROVE  \A i \in DOMAIN queue' : queue'[i] \in S
  BY DEF Publish, TypeOK, TypeController

\* Every step of a Go agent keeps the announcements honest.
LEMMA ReadinessStep ==
  ASSUME TypeOK, TypeOK', ReadinessInv, ~ReloadAnnounces, [Next]_vars
  PROVE  ReadinessInv'
  <1> USE DEF ReadinessInv, RunningWasAnnounced, Return, Goto
  <1> DEFINE Told == ready \cup {NoRun}
  <1>0. Told \in SUBSET RunIDs /\ NoRun \notin Runs
    BY DEF TypeOK, TypeHistory, RunIDs, NoRun, Runs
  <1>1. CASE UNCHANGED vars
    BY <1>1 DEF vars, callVars, locals, childVars, histVars
  <1>2. ASSUME NEW c \in Callers, NewCall(c) PROVE ReadinessInv'
    BY <1>2, BoundsAssumption DEF NewCall, CallInitialize, CallStart,
       CallStop, CallReload, CallRestart, Call, NestedApply, childVars,
       histVars, Runs, TypeOK, TypeCallers
  <1>3. ASSUME NEW c \in Callers, StartStep(c) PROVE ReadinessInv'
    <2> USE DEF StartStep, BeginStart, MarkerTaken, StartDependencies,
          SetRunID, Drain, RunnerStart, SpawnFailed, MarkStarting, AwaitEvent,
          IsMyRunning, Awaiting, AwaitSilence, AwaitDeadline, StartTimedOut,
          PublishFailed, MarkRunning, EndStart, LeaveStart
    <2>1. UNCHANGED <<queue, pipe, ready, run>>
      BY <1>3 DEF Publish, childVars, histVars, locals
    <2>2. \A i \in DOMAIN stateCh' : stateCh'[i] \in Told
      <3>1. \/ stateCh' \in {stateCh, <<>>}
            \/ stateCh # <<>> /\ stateCh' = Tail(stateCh)
        BY <1>3
      <3>2. stateCh \in Seq(RunIDs) /\ \A i \in DOMAIN stateCh : stateCh[i] \in Told
        BY DEF TypeOK, TypeController
      <3> QED BY ONLY <3>1, <3>2, TailKeeps
    <2>3. \A d \in Callers : pc'[d] = "ready" => run[d] \in ready
      <3>1. CASE AwaitEvent(c) /\ pc'[c] = "ready"
        <4>1. Head(stateCh) = run[c] /\ run[c] \in Runs
          BY <3>1 DEF TypeOK, TypeCallers
        <4>2. Head(stateCh) \in Told
          <5>1. stateCh \in Seq(RunIDs) /\ \A i \in DOMAIN stateCh : stateCh[i] \in Told
            BY DEF TypeOK, TypeController
          <5> QED BY ONLY <3>1, <5>1, TailKeeps DEF AwaitEvent
        <4>3. run[c] \in ready
          BY ONLY <4>1, <4>2, <1>0
        <4>4. \A d \in Callers : d # c => pc'[d] = pc[d]
          BY <3>1 DEF TypeOK, TypeCallers
        <4> QED BY <4>3, <4>4
      <3>2. CASE ~(AwaitEvent(c) /\ pc'[c] = "ready")
        BY <1>3, <3>2 DEF TypeOK, TypeCallers
      <3> QED BY <3>1, <3>2
    <2>4. \A d \in Callers : pc'[d] # "idle" => run[d] \in Runs
      BY <1>3 DEF TypeOK, TypeCallers
    <2> QED BY <2>1, <2>2, <2>3, <2>4
  <1>4. ASSUME NEW c \in Callers, StopStep(c) PROVE ReadinessInv'
    BY <1>4 DEF StopStep, StopCheck, MarkStopping, RunnerStopSignal,
       KillAfterGrace, RunnerStopDone, RunnerReset, MarkStopped, Publish,
       locals, childVars, histVars, TypeOK, TypeCallers
  <1>5. ASSUME NEW c \in Callers, ReloadStep(c) \/ Reply(c) PROVE ReadinessInv'
    <2> USE DEF ReloadStep, MarkReloading, GoReload, PythonReload,
          AwaitReloadEvent, AwaitReloadDeadline, ReloadFailed, MarkReloaded,
          Reply
    <2>1. UNCHANGED <<pipe, ready>>
      BY <1>5 DEF childVars, histVars
    <2>2. \A i \in DOMAIN queue' : queue'[i] \in Told
      BY <1>5, <1>0, PublishAnnounced
    <2>3. \A i \in DOMAIN stateCh' : stateCh'[i] \in Told
      <3>1. \/ stateCh' = stateCh
            \/ stateCh # <<>> /\ stateCh' = Tail(stateCh)
        BY <1>5
      <3>2. stateCh \in Seq(RunIDs) /\ \A i \in DOMAIN stateCh : stateCh[i] \in Told
        BY DEF TypeOK, TypeController
      <3> QED BY ONLY <3>1, <3>2, TailKeeps
    <2>4. \A d \in Callers : /\ pc'[d] # "idle" => run'[d] \in Runs
                             /\ pc'[d] = "ready" => run'[d] \in ready
      BY <1>5 DEF TypeOK, TypeCallers, locals
    <2> QED BY <2>1, <2>2, <2>3, <2>4
  <1>6. ASSUME NEW r \in Runs, ChildStep(r) \/ RunStep(r) PROVE ReadinessInv'
    <2> USE DEF ChildStep, RunStep, ChildPending, ChildReady, ChildStopping,
          ChildFinish, ChildExit, ChildGarble, ReadFrame, ReadEOF, WatchExit,
          WriteFrame
    <2>1. UNCHANGED <<pc, run, stateCh>> /\ ready \subseteq ready'
      BY <1>6 DEF callVars, locals, histVars
    <2>2. \A q \in Runs : \A i \in DOMAIN pipe'[q] :
             pipe'[q][i] = "running" => q \in ready'
      <3>1. pipe \in [Runs -> Seq(Written)]
        BY DEF TypeOK, TypeChildren
      <3>2. CASE ChildStep(r)
        <4>1. \/ pipe' = pipe
              \/ \E f \in Written :
                    /\ pipe' = [pipe EXCEPT ![r] = Append(@, f)]
                    /\ f = "running" => r \in ready'
          BY <3>2 DEF Frames, Written
        <4>2. CASE pipe' = pipe
          BY <4>2, <2>1
        <4>3. ASSUME NEW f \in Written, f = "running" => r \in ready',
                     pipe' = [pipe EXCEPT ![r] = Append(@, f)]
              PROVE  \A i \in DOMAIN pipe'[r] :
                        pipe'[r][i] = "running" => r \in ready'
          <5>1. pipe'[r] = Append(pipe[r], f) /\ pipe[r] \in Seq(Written)
            BY <4>3, <3>1
          <5>2. \A i \in DOMAIN Append(pipe[r], f) :
                   Append(pipe[r], f)[i] = f \/ \E j \in DOMAIN pipe[r] :
                                                Append(pipe[r], f)[i] = pipe[r][j]
            BY ONLY <5>1, f \in Written
          <5> QED BY <5>1, <5>2, <4>3, <2>1
        <4>4. \A q \in Runs : q # r => pipe'[q] = pipe[q]
          BY <4>1, <3>1
        <4> QED BY <4>1, <4>2, <4>3, <4>4, <2>1
      <3>3. CASE RunStep(r)
        <4>1. \/ pipe' = pipe
              \/ pipe[r] # <<>> /\ pipe' = [pipe EXCEPT ![r] = Tail(@)]
          BY <3>3
        <4>2. CASE pipe' = pipe
          BY <4>2, <2>1
        <4>3. CASE pipe[r] # <<>> /\ pipe' = [pipe EXCEPT ![r] = Tail(@)]
          BY <4>3, <3>1, <2>1, TailFacts
        <4> QED BY <4>1, <4>2, <4>3
      <3> QED BY <1>6, <3>2, <3>3
    <2>3. \A i \in DOMAIN queue' : queue'[i] \in Told
      <3>1. \/ UNCHANGED queue
            \/ ReadFrame(r) /\ Publish(Head(pipe[r]), r)
        BY <1>6 DEF Publish
      <3>2. ReadFrame(r) /\ Head(pipe[r]) = "running" => r \in Told
        BY TailFacts DEF TypeOK, TypeChildren
      <3> QED BY <3>1, <3>2, <1>0, PublishAnnounced
    <2> QED BY <2>1, <2>2, <2>3
  <1>7. CASE DeliverStatus
    BY <1>7 DEF DeliverStatus, TypeOK, TypeController, callVars, locals,
       childVars, histVars
  <1> QED
    BY <1>1, <1>2, <1>3, <1>4, <1>5, <1>6, <1>7 DEF Next, CallerStep

\* A start of a Go agent reports RUNNING only when the child it spawned said
\* so, whatever stale events the queues hold.
THEOREM RunningIsAnnounced ==
  ASSUME ~ReloadAnnounces PROVE Spec => []RunningWasAnnounced
  <1>1. Init => ReadinessInv
    <2>1. Init => /\ queue = <<>> /\ stateCh = <<>>
                  /\ pc = [c \in Callers |-> "idle"]
                  /\ pipe = [r \in Runs |-> <<>>]
      BY DEF Init
    <2> QED BY <2>1 DEF ReadinessInv, RunningWasAnnounced
  <1>2. ReadinessInv => RunningWasAnnounced
    BY DEF ReadinessInv
  <1>3. TypeOK /\ TypeOK' /\ ReadinessInv /\ [Next]_vars => ReadinessInv'
    BY ReadinessStep
  <1> QED BY <1>1, <1>2, <1>3, TypeCorrect, PTL DEF Spec

-----------------------------------------------------------------------------
(* One report per exit.  The invariant says who may still report a run:    *)
(* the Stop that signalled it, while the watcher must defer to it, or the  *)
(* watcher, while the run is in the slot and nobody stops it.  A run that  *)
(* left the slot never comes back, because a spawn takes the number of its *)
(* own call, which no child has had before.                                *)

\* Labels at which a Stop still waits for the child it signalled.
StopWaits == {"stopWait", "killWait"}
\* Labels of a start that has not spawned yet.
BeforeSpawn == {"begin", "deps", "setRunID", "drain", "spawn"}

FreshInv ==
    /\ \A r \in Runs : calls < r => child[r] = "none"
    /\ \A c \in Callers : IF pc[c] = "idle" THEN run[c] = NoRun
                                           ELSE run[c] \in 1..calls
    /\ \A c, d \in Callers : pc[c] # "idle" /\ run[c] = run[d] => c = d
    /\ \A c \in Callers : pc[c] \in BeforeSpawn => child[run[c]] = "none"
    /\ \A c \in Callers : pc[c] \in {"drain", "spawn"} => nextRunID = run[c]

ReportInv ==
    /\ \A r \in Runs : cmd = r => child[r] # "none" /\ exitBy[r] = {}
    /\ \A r \in Runs : child[r] = "none" => exitBy[r] = {}
    /\ \A c \in Callers : pc[c] \in StopWaits =>
          /\ stopRun[c] \in Runs
          /\ child[stopRun[c]] # "none"
          /\ exitBy[stopRun[c]] \subseteq {"stop"}
          /\ cmd = stopRun[c] => stopping
    /\ ExitReportedOnce

\* A step that spawns nothing, starts no call and gives out no identity.
LEMMA FreshFrame ==
  ASSUME FreshInv, UNCHANGED <<calls, run, nextRunID>>,
         \A r \in Runs : child'[r] = "none" <=> child[r] = "none",
         \A d \in Callers : /\ pc'[d] = "idle" <=> pc[d] = "idle"
                            /\ pc'[d] \in BeforeSpawn => pc[d] \in BeforeSpawn
                            /\ pc'[d] \in {"drain", "spawn"} =>
                                  pc[d] \in {"drain", "spawn"},
         TypeOK
  PROVE  FreshInv'
  <1>1. \A c \in Callers : pc[c] # "idle" => run[c] \in Runs
    BY BoundsAssumption DEF FreshInv, Runs, TypeOK, TypeCallers
  <1> QED BY <1>1 DEF FreshInv, BeforeSpawn

\* Only a spawn makes a child.
LEMMA ChildrenStay ==
  ASSUME child \in [Runs -> Phases],
         DeliverStatus \/ \E r \in Runs : ChildStep(r) \/ RunStep(r)
  PROVE  \A r \in Runs : child'[r] = "none" <=> child[r] = "none"
  <1>1. CASE \E r \in Runs : ChildStep(r)
    BY <1>1 DEF ChildStep, ChildPending, ChildReady, ChildStopping,
       ChildFinish, ChildExit, ChildGarble, WriteFrame
  <1>2. CASE DeliverStatus \/ \E r \in Runs : RunStep(r)
    BY <1>2 DEF DeliverStatus, RunStep, ReadFrame, ReadEOF, WatchExit, childVars
  <1> QED BY <1>1, <1>2

\* Every step keeps run identities fresh.
LEMMA FreshStep ==
  ASSUME TypeOK, MarkerInv, FreshInv, ReportInv, [Next]_vars
  PROVE  FreshInv'
  <1> USE DEF Return, Goto
  <1>0. /\ pc \in [Callers -> Labels] /\ child \in [Runs -> Phases]
        /\ run \in [Callers -> RunIDs] /\ calls \in 0..MaxCalls
        /\ NoRun \notin Runs /\ Runs = 1..MaxCalls /\ MaxCalls \in Nat
    BY BoundsAssumption DEF TypeOK, TypeCallers, TypeChildren, Runs, NoRun
  <1>1. CASE UNCHANGED vars
    BY <1>1, FreshFrame DEF vars, callVars, locals, slotVars, childVars
  <1>2. ASSUME NEW c \in Callers, NewCall(c) PROVE FreshInv'
    <2>1. /\ calls < MaxCalls /\ calls' = calls + 1 /\ pc[c] = "idle"
          /\ run' = [run EXCEPT ![c] = calls + 1]
          /\ UNCHANGED <<child, nextRunID>>
          /\ \A d \in Callers : d # c => pc'[d] = pc[d]
          /\ pc'[c] \notin {"idle", "drain", "spawn"}
      BY <1>2, <1>0 DEF NewCall, CallInitialize, CallStart, CallStop,
         CallReload, CallRestart, Call, NestedApply, childVars
    <2>2. child[calls + 1] = "none" /\ calls + 1 \in Runs
      BY <2>1, <1>0 DEF FreshInv
    <2>3. \A d \in Callers : d # c =>
             /\ run'[d] = run[d]
             /\ pc[d] # "idle" => run[d] \in 1..calls
      BY <2>1, <1>0 DEF FreshInv
    <2>4. run'[c] = calls + 1
      BY <2>1, <1>0
    <2>5. \A d, e \in Callers : pc'[d] # "idle" /\ run'[d] = run'[e] => d = e
      <3> SUFFICES ASSUME NEW d \in Callers, NEW e \in Callers, pc'[d] # "idle",
                          run'[d] = run'[e], d # e
                   PROVE  FALSE
        OBVIOUS
      <3>1. CASE d # c /\ e # c
        BY <3>1, <2>1, <2>3 DEF FreshInv
      <3>2. CASE e = c
        BY <3>2, <2>1, <2>3, <2>4, <1>0
      <3>3. CASE d = c
        <4>1. run[e] = calls + 1 /\ e # c
          BY <3>3, <2>3, <2>4
        <4> QED BY <4>1, <2>3, <1>0 DEF FreshInv, NoRun
      <3> QED BY <3>1, <3>2, <3>3
    <2> QED BY <2>1, <2>2, <2>3, <2>4, <2>5, <1>0 DEF FreshInv, BeforeSpawn
  <1>3. ASSUME NEW c \in Callers, StartStep(c) PROVE FreshInv'
    <2> USE DEF StartStep, BeginStart, StartDependencies, SetRunID, Drain,
          RunnerStart, SpawnFailed, MarkStarting, AwaitEvent, Awaiting,
          AwaitSilence, AwaitDeadline, StartTimedOut, PublishFailed,
          MarkRunning, EndStart, LeaveStart
    <2>1. /\ UNCHANGED <<calls, run>> /\ pc[c] # "idle" /\ pc'[c] # "idle"
          /\ \A d \in Callers : d # c => pc'[d] = pc[d]
      BY <1>3, <1>0 DEF locals
    <2>2. CASE SetRunID(c)
      <3>1. \A d \in Callers : pc[d] \in {"drain", "spawn"} => d = c
        BY <2>2 DEF MarkerInv, OneStartInFlight, StartSection, AwaitLabels
      <3>2. nextRunID' = run[c] /\ UNCHANGED child /\ pc[c] \in BeforeSpawn
        BY <2>2 DEF childVars, BeforeSpawn
      <3> QED BY <2>1, <3>1, <3>2 DEF FreshInv, BeforeSpawn
    <2>3. CASE RunnerStart(c) /\ child' # child
      <3>1. /\ child' = [child EXCEPT ![nextRunID] = "boot"]
            /\ pc[c] = "spawn" /\ pc'[c] = "markStarting" /\ UNCHANGED nextRunID
        BY <2>3, <1>0
      <3>2. nextRunID = run[c] /\ run[c] \in 1..calls /\ run[c] \in Runs
        BY <3>1, <1>0 DEF FreshInv
      <3>3. \A d \in Callers : d # c /\ pc[d] # "idle" =>
               run[d] \in Runs /\ child'[run[d]] = child[run[d]]
        BY <3>1, <3>2, <1>0 DEF FreshInv
      <3>4. \A r \in Runs : calls < r => child'[r] = child[r]
        BY <3>1, <3>2, <1>0
      <3> QED BY <2>1, <3>1, <3>3, <3>4 DEF FreshInv, BeforeSpawn
    <2>4. CASE ~SetRunID(c) /\ ~(RunnerStart(c) /\ child' # child)
      <3>1. UNCHANGED <<child, nextRunID>>
        BY <1>3, <2>4 DEF childVars, slotVars
      <3>2. /\ pc'[c] \in BeforeSpawn => pc[c] \in BeforeSpawn
            /\ pc'[c] \in {"drain", "spawn"} => pc[c] \in {"drain", "spawn"}
        BY <1>3, <1>0, <2>4 DEF BeforeSpawn
      <3> QED BY <2>1, <3>1, <3>2, FreshFrame
    <2> QED BY <2>2, <2>3, <2>4
  <1>4. ASSUME NEW c \in Callers, StopStep(c) \/ ReloadStep(c)
        PROVE  FreshInv'
    <2> USE DEF StopStep, StopCheck, MarkStopping, RunnerStopSignal,
          KillAfterGrace, RunnerStopDone, RunnerReset, MarkStopped,
          ReloadStep, MarkReloading, GoReload, PythonReload, AwaitReloadEvent,
          AwaitReloadDeadline, ReloadFailed, MarkReloaded
    <2>1. /\ UNCHANGED <<calls, run, nextRunID>>
          /\ \A d \in Callers : d # c => pc'[d] = pc[d]
          /\ pc[c] # "idle" /\ pc'[c] # "idle" /\ pc'[c] \notin BeforeSpawn
      BY <1>4, <1>0 DEF locals, slotVars, BeforeSpawn
    <2>2. \/ UNCHANGED child
          \/ cmd # NoRun /\ child' = [child EXCEPT ![cmd] = AfterKill(@)]
      BY <1>4 DEF childVars
    <2>3. \A r \in Runs : child'[r] = "none" <=> child[r] = "none"
      BY <2>2, <1>0 DEF AfterKill, ReportInv
    <2> QED BY <2>1, <2>3, FreshFrame DEF BeforeSpawn
  <1>5. ASSUME NEW c \in Callers, Reply(c) PROVE FreshInv'
    <2>1. /\ UNCHANGED <<calls, child, nextRunID>> /\ pc[c] # "idle"
          /\ pc' = [pc EXCEPT ![c] = "idle"] /\ run' = [run EXCEPT ![c] = NoRun]
      BY <1>5 DEF Reply, childVars, slotVars
    <2>2. /\ pc'[c] = "idle" /\ run'[c] = NoRun
          /\ \A d \in Callers : d # c => pc'[d] = pc[d] /\ run'[d] = run[d]
      BY <2>1, <1>0
    <2>3. \A d \in Callers : pc[d] # "idle" => run[d] # NoRun
      BY <1>0 DEF FreshInv, NoRun
    <2> QED BY <2>1, <2>2, <2>3 DEF FreshInv, BeforeSpawn
  <1>6. CASE DeliverStatus \/ \E r \in Runs : ChildStep(r) \/ RunStep(r)
    <2>1. UNCHANGED <<pc, calls, run, nextRunID>>
      BY <1>6 DEF DeliverStatus, ChildStep, RunStep, ChildPending, ChildReady,
         ChildStopping, ChildFinish, ChildExit, ChildGarble, ReadFrame,
         ReadEOF, WatchExit, WriteFrame, callVars, locals, slotVars
    <2>2. \A r \in Runs : child'[r] = "none" <=> child[r] = "none"
      BY <1>6, <1>0, ChildrenStay
    <2> QED BY <2>1, <2>2, FreshFrame
  <1> QED BY <1>1, <1>2, <1>3, <1>4, <1>5, <1>6 DEF Next, CallerStep

\* A step keeps track of who may still report the end of a run.
LEMMA ReportStep ==
  ASSUME TypeOK, FreshInv, ReportInv, [Next]_vars
  PROVE  ReportInv'
  <1> USE DEF Return, Goto
  <1>0. /\ pc \in [Callers -> Labels] /\ child \in [Runs -> Phases]
        /\ stopRun \in [Callers -> RunIDs] /\ cmd \in RunIDs
        /\ exitBy \in [Runs -> SUBSET {"stop", "agent", "watcher"}]
        /\ NoRun \notin Runs /\ RunIDs = Runs \cup {NoRun}
    <2>1. NoRun \notin Runs
      BY BoundsAssumption DEF NoRun, Runs
    <2> QED BY <2>1 DEF TypeOK, TypeCallers, TypeChildren, TypeHistory,
               TypeSlot, RunIDs
  <1>1. CASE UNCHANGED vars
    BY <1>1 DEF vars, callVars, locals, slotVars, childVars, histVars,
       ReportInv, ExitReportedOnce
  <1>2. ASSUME NEW c \in Callers, NewCall(c) \/ ReloadStep(c) \/ Reply(c)
        PROVE  ReportInv'
    <2>1. /\ UNCHANGED <<child, cmd, stopping, exitBy>>
          /\ \A d \in Callers : d # c => pc'[d] = pc[d] /\ stopRun'[d] = stopRun[d]
          /\ pc'[c] \notin StopWaits
      BY <1>2, <1>0 DEF NewCall, CallInitialize, CallStart, CallStop,
         CallReload, CallRestart, Call, NestedApply, ReloadStep, MarkReloading,
         GoReload, PythonReload, AwaitReloadEvent, AwaitReloadDeadline,
         ReloadFailed, MarkReloaded, Reply, locals, slotVars, childVars,
         histVars, StopWaits
    <2> QED BY <2>1 DEF ReportInv, ExitReportedOnce
  <1>3. ASSUME NEW c \in Callers, StartStep(c) PROVE ReportInv'
    <2> USE DEF StartStep, BeginStart, StartDependencies, SetRunID, Drain,
          RunnerStart, SpawnFailed, MarkStarting, AwaitEvent, Awaiting,
          AwaitSilence, AwaitDeadline, StartTimedOut, PublishFailed,
          MarkRunning, EndStart, LeaveStart
    <2>1. /\ UNCHANGED <<stopRun, exitBy>> /\ pc'[c] \notin StopWaits
          /\ \A d \in Callers : d # c => pc'[d] = pc[d]
      BY <1>3, <1>0 DEF locals, histVars, StopWaits
    <2>2. CASE RunnerStart(c) /\ cmd = NoRun
      <3>1. pc[c] = "spawn" /\ nextRunID = run[c] /\ child[run[c]] = "none"
        BY <2>2 DEF FreshInv, BeforeSpawn
      <3>2. run[c] \in Runs
        BY <3>1, BoundsAssumption DEF FreshInv, Runs, TypeOK, TypeCallers
      <3>3. \/ UNCHANGED <<cmd, child>>
            \/ cmd' = run[c] /\ child' = [child EXCEPT ![run[c]] = "boot"]
        BY <2>2, <3>1
      <3>4. CASE UNCHANGED <<cmd, child>>
        <4>1. cmd \notin Runs
          BY <2>2, <1>0
        <4> QED BY ONLY <2>1, <3>4, <4>1, ReportInv, c \in Callers
                DEF ReportInv, ExitReportedOnce
      <3>5. CASE cmd' = run[c] /\ child' = [child EXCEPT ![run[c]] = "boot"]
        <4>1. /\ child'[run[c]] = "boot" /\ exitBy[run[c]] = {}
              /\ \A r \in Runs : r # run[c] => child'[r] = child[r]
          BY <3>1, <3>2, <3>5, <1>0 DEF ReportInv
        <4>2. \A d \in Callers : pc[d] \in StopWaits => stopRun[d] # run[c]
          BY <3>1 DEF ReportInv
        <4> QED BY <2>1, <3>2, <3>5, <4>1, <4>2 DEF ReportInv, ExitReportedOnce
      <3> QED BY <3>3, <3>4, <3>5
    <2>3. CASE ~(RunnerStart(c) /\ cmd = NoRun)
      <3>1. UNCHANGED <<child, cmd, stopping>>
        BY <1>3, <2>3 DEF slotVars, childVars
      <3> QED BY <2>1, <3>1 DEF ReportInv, ExitReportedOnce
    <2> QED BY <2>2, <2>3
  <1>4. ASSUME NEW c \in Callers, StopStep(c) PROVE ReportInv'
    <2>1. CASE StopCheck(c) \/ MarkStopping(c) \/ MarkStopped(c)
      <3>1. /\ UNCHANGED <<child, cmd, stopping, exitBy, stopRun>>
            /\ \A d \in Callers : d # c => pc'[d] = pc[d]
            /\ pc'[c] \notin StopWaits
        BY <2>1, <1>0 DEF StopCheck, MarkStopping, MarkStopped, locals,
           slotVars, childVars, histVars, StopWaits
      <3> QED BY <3>1 DEF ReportInv, ExitReportedOnce
    <2>2. CASE RunnerStopSignal(c)
      <3>1. /\ UNCHANGED <<child, cmd, exitBy>>
            /\ \A d \in Callers : d # c =>
                  pc'[d] = pc[d] /\ stopRun'[d] = stopRun[d]
        BY <2>2, <1>0 DEF RunnerStopSignal, histVars
      <3>2. \/ cmd = NoRun /\ UNCHANGED stopping /\ pc'[c] \notin StopWaits
            \/ cmd \in Runs /\ stopRun'[c] = cmd /\ stopping'
        BY <2>2, <1>0 DEF RunnerStopSignal, StopWaits
      <3> QED BY <3>1, <3>2, <1>0 DEF ReportInv, ExitReportedOnce
    <2>3. CASE KillAfterGrace(c)
      <3>1. /\ UNCHANGED <<cmd, stopping, exitBy, stopRun>>
            /\ \A d \in Callers : d # c => pc'[d] = pc[d]
            /\ pc[c] \in StopWaits
        BY <2>3, <1>0 DEF KillAfterGrace, locals, slotVars, histVars, StopWaits
      <3>2. \A r \in Runs : child'[r] = "none" <=> child[r] = "none"
        BY <2>3, <1>0 DEF KillAfterGrace, AfterKill, ReportInv
      <3> QED BY <3>1, <3>2 DEF ReportInv, ExitReportedOnce
    <2>4. CASE RunnerStopDone(c)
      <3>1. /\ UNCHANGED <<child, stopping, stopRun>> /\ cmd' = NoRun
            /\ exitBy' = [exitBy EXCEPT ![stopRun[c]] = @ \cup {"stop"}]
            /\ \A d \in Callers : d # c => pc'[d] = pc[d]
            /\ pc[c] \in StopWaits /\ pc'[c] \notin StopWaits
        BY <2>4, <1>0 DEF RunnerStopDone, locals, childVars, StopWaits
      <3>2. /\ stopRun[c] \in Runs /\ exitBy[stopRun[c]] \subseteq {"stop"}
            /\ child[stopRun[c]] # "none"
        BY <3>1 DEF ReportInv
      <3>3. /\ exitBy'[stopRun[c]] = {"stop"}
            /\ \A r \in Runs : r # stopRun[c] => exitBy'[r] = exitBy[r]
        BY <3>1, <3>2, <1>0
      <3> QED BY <3>1, <3>2, <3>3, <1>0 DEF ReportInv, ExitReportedOnce
    <2>5. CASE RunnerReset(c)
      <3>1. /\ UNCHANGED <<child, stopping, stopRun, exitBy>> /\ cmd' = NoRun
            /\ \A d \in Callers : d # c => pc'[d] = pc[d]
            /\ pc'[c] \notin StopWaits
        BY <2>5, <1>0 DEF RunnerReset, locals, childVars, histVars, StopWaits
      <3> QED BY <3>1, <1>0 DEF ReportInv, ExitReportedOnce
    <2> QED BY <1>4, <2>1, <2>2, <2>3, <2>4, <2>5 DEF StopStep
  <1>5. ASSUME NEW r \in Runs, WatchExit(r) PROVE ReportInv'
    <2>1. UNCHANGED <<pc, stopRun, child, stopping>>
      BY <1>5 DEF WatchExit, callVars, locals
    <2>2. CASE WatcherDefers(r)
      <3>1. UNCHANGED <<cmd, exitBy>>
        BY <1>5, <2>2 DEF WatchExit
      <3> QED BY <2>1, <3>1 DEF ReportInv, ExitReportedOnce
    <2>3. CASE ~WatcherDefers(r)
      <3>1. /\ ~stopping /\ cmd = r /\ cmd' = NoRun
            /\ \E by \in {"agent", "watcher"} :
                  exitBy' = [exitBy EXCEPT ![r] = @ \cup {by}]
        BY <1>5, <2>3 DEF WatchExit, WatcherDefers
      <3>2. exitBy[r] = {} /\ child[r] # "none"
        BY <3>1 DEF ReportInv
      <3>3. \A c \in Callers : pc[c] \in StopWaits => stopRun[c] # r
        BY <3>1 DEF ReportInv
      <3>4. \E by \in {"agent", "watcher"} :
               /\ exitBy'[r] = {by}
               /\ \A q \in Runs : q # r => exitBy'[q] = exitBy[q]
        BY <3>1, <3>2, <1>0
      <3> QED
        BY <2>1, <3>1, <3>2, <3>3, <3>4, <1>0 DEF ReportInv, ExitReportedOnce
    <2> QED BY <2>2, <2>3
  <1>6. CASE \/ DeliverStatus
             \/ \E r \in Runs : ChildStep(r) \/ ReadFrame(r) \/ ReadEOF(r)
    <2>1. UNCHANGED <<pc, stopRun, cmd, stopping, exitBy>>
      BY <1>6 DEF DeliverStatus, ChildStep, ChildPending, ChildReady,
         ChildStopping, ChildFinish, ChildExit, ChildGarble, ReadFrame,
         ReadEOF, WriteFrame, callVars, locals, slotVars, histVars
    <2>2. \A r \in Runs : child'[r] = "none" <=> child[r] = "none"
      BY <1>6, <1>0, ChildrenStay DEF RunStep
    <2> QED BY <2>1, <2>2 DEF ReportInv, ExitReportedOnce
  <1> QED
    BY <1>1, <1>2, <1>3, <1>4, <1>5, <1>6 DEF Next, CallerStep, RunStep

\* At first nobody calls and there is no child.
LEMMA ReportInit == Init => MarkerInv /\ FreshInv /\ ReportInv
  <1>1. Init => /\ pc = [c \in Callers |-> "idle"] /\ calls = 0
                /\ run = [c \in Callers |-> NoRun] /\ cmd = NoRun
                /\ child = [r \in Runs |-> "none"]
                /\ exitBy = [r \in Runs |-> {}]
    BY DEF Init
  <1> QED BY <1>1 DEF MarkerInv, OneStartInFlight, StartSection, AwaitLabels,
             FreshInv, BeforeSpawn, ReportInv, StopWaits,
             ExitReportedOnce, NoRun, Runs

\* However many goroutines start and stop an agent, the end of a run is
\* reported by one party only.
THEOREM ExitHasOneReporter == Spec => []ExitReportedOnce
  <1>1. TypeOK /\ MarkerInv /\ FreshInv /\ ReportInv /\ [Next]_vars
        => MarkerInv' /\ FreshInv' /\ ReportInv'
    BY MarkerStep, FreshStep, ReportStep
  <1>2. ReportInv => ExitReportedOnce
    BY DEF ReportInv
  <1> QED BY <1>1, <1>2, ReportInit, TypeCorrect, PTL DEF Spec

-----------------------------------------------------------------------------
(* The slot is emptied.  The invariant says that a Stop which waits still  *)
(* has its child in the slot, and that a watcher which deferred did so to  *)
(* a Stop that is still there to empty the slot.                           *)

\* Labels of a Stop, the crash it can end in included.
StopLabels == StopWaits \cup {"stopCheck", "markStopping", "signal", "reset",
                              "markStopped", "panicked"}

\* The goroutines that can ask for a stop.
MayStop(c) == (c \in Handlers /\ "stop" \in HandlerActs) \/ c \in Stoppers

OneStopper == \A c, d \in Callers : MayStop(c) /\ MayStop(d) => c = d

SlotInv ==
    /\ \A c \in Callers : pc[c] \in StopLabels => MayStop(c)
    /\ \A c \in Callers : pc[c] \in StopWaits =>
          cmd = stopRun[c] /\ cmd # NoRun /\ stopping
    /\ stopping /\ cmd # NoRun => \E c \in Callers : pc[c] \in StopWaits
    /\ \A r \in Runs : watcher[r] = "done" /\ cmd = r => stopping
    /\ ~Panicked

\* A step of caller c, outside the waits of Stop, that leaves the slot alone.
LEMMA SlotFrame ==
  ASSUME SlotInv, UNCHANGED <<cmd, stopping, watcher>>, NEW c \in Callers,
         \A d \in Callers : d # c => pc'[d] = pc[d] /\ stopRun'[d] = stopRun[d],
         pc[c] \notin StopWaits, pc'[c] \notin StopWaits, pc'[c] # "panicked",
         pc'[c] \in StopLabels => MayStop(c)
  PROVE  SlotInv'
  BY DEF SlotInv, Panicked

\* Every step keeps the slot in the hands of the Stop that waits for it.
LEMMA SlotStep ==
  ASSUME TypeOK, FreshInv, SlotInv, OneStopper, [Next]_vars
  PROVE  SlotInv'
  <1> USE DEF Return, Goto
  <1>0. /\ pc \in [Callers -> Labels] /\ stopRun \in [Callers -> RunIDs]
        /\ cmd \in RunIDs /\ watcher \in [Runs -> {"none", "waiting", "done"}]
        /\ NoRun \notin Runs /\ RunIDs = Runs \cup {NoRun}
    <2>1. NoRun \notin Runs
      BY BoundsAssumption DEF NoRun, Runs
    <2> QED BY <2>1 DEF TypeOK, TypeCallers, TypeChildren, TypeSlot, RunIDs
  <1>a. \A c, d \in Callers : pc[c] \in StopLabels /\ pc[d] \in StopLabels => c = d
    BY DEF SlotInv, OneStopper
  <1>1. CASE UNCHANGED vars
    BY <1>1 DEF vars, callVars, locals, slotVars, childVars, SlotInv, Panicked
  <1>2. ASSUME NEW c \in Callers, NewCall(c) \/ ReloadStep(c) \/ Reply(c)
        PROVE  SlotInv'
    <2>1. /\ UNCHANGED <<cmd, stopping, watcher>>
          /\ \A d \in Callers : d # c => pc'[d] = pc[d] /\ stopRun'[d] = stopRun[d]
          /\ pc[c] \notin StopWaits /\ pc'[c] \notin StopWaits /\ pc'[c] # "panicked"
      BY <1>2, <1>0 DEF NewCall, CallInitialize, CallStart, CallStop,
         CallReload, CallRestart, Call, NestedApply, ReloadStep, MarkReloading,
         GoReload, PythonReload, AwaitReloadEvent, AwaitReloadDeadline,
         ReloadFailed, MarkReloaded, Reply, locals, slotVars, childVars, StopWaits
    <2>2. pc'[c] \in StopLabels => MayStop(c)
      <3>1. CASE CallStop(c)
        <4>1. MayStop(c)
          BY <3>1 DEF CallStop, Call, MayCall, MayStop
        <4> QED BY <4>1
      <3>2. CASE ~CallStop(c)
        <4>1. pc'[c] \notin StopLabels
          BY <1>2, <1>0, <3>2 DEF NewCall, CallInitialize, CallStart,
             CallReload, CallRestart, Call, NestedApply, ReloadStep,
             MarkReloading, GoReload, PythonReload, AwaitReloadEvent,
             AwaitReloadDeadline, ReloadFailed, MarkReloaded, Reply,
             StopLabels, StopWaits
        <4> QED BY <4>1
      <3> QED BY <3>1, <3>2
    <2> QED BY <2>1, <2>2, SlotFrame
  <1>3. ASSUME NEW c \in Callers, StartStep(c) PROVE SlotInv'
    <2> USE DEF StartStep, BeginStart, StartDependencies, SetRunID, Drain,
          RunnerStart, SpawnFailed, MarkStarting, AwaitEvent, Awaiting,
          AwaitSilence, AwaitDeadline, StartTimedOut, PublishFailed,
          MarkRunning, EndStart, LeaveStart
    <2>1. /\ UNCHANGED stopRun /\ pc[c] \notin StopLabels /\ pc'[c] \notin StopLabels
          /\ \A d \in Callers : d # c => pc'[d] = pc[d]
      BY <1>3, <1>0 DEF locals, StopLabels, StopWaits
    <2>2. CASE RunnerStart(c) /\ cmd = NoRun
      <3>1. pc[c] = "spawn" /\ nextRunID = run[c]
        BY <2>2 DEF FreshInv
      <3>2. run[c] \in Runs
        BY <3>1, BoundsAssumption DEF FreshInv, Runs, TypeOK, TypeCallers
      <3>3. \A d \in Callers : pc'[d] \notin StopWaits
        BY <2>1, <2>2 DEF SlotInv, StopLabels
      <3>4. ~Panicked' /\ \A d \in Callers : pc'[d] \in StopLabels => MayStop(d)
        BY <2>1 DEF SlotInv, Panicked, StopLabels
      <3>5. \/ cmd' = NoRun
            \/ /\ cmd' = run[c] /\ stopping' = FALSE
               /\ watcher' = [watcher EXCEPT ![run[c]] = "waiting"]
        BY <2>2, <3>1 DEF StoppingAtSpawn
      <3>6. \A r \in Runs : watcher'[r] = "done" => cmd' # r
        BY <1>0, <3>2, <3>5, <2>2
      <3> QED BY <3>3, <3>4, <3>5, <3>6 DEF SlotInv
    <2>3. CASE ~(RunnerStart(c) /\ cmd = NoRun)
      <3>1. UNCHANGED <<cmd, stopping, watcher>>
        BY <1>3, <2>3 DEF slotVars, childVars
      <3> QED BY <2>1, <3>1, SlotFrame DEF StopLabels
    <2> QED BY <2>2, <2>3
  <1>4. ASSUME NEW c \in Callers, StopStep(c) PROVE SlotInv'
    <2>1. pc[c] \in StopLabels /\ MayStop(c)
      BY <1>4 DEF StopStep, StopCheck, MarkStopping, RunnerStopSignal,
         KillAfterGrace, RunnerStopDone, RunnerReset, MarkStopped, StopLabels,
         StopWaits, SlotInv
    <2>2. \A d \in Callers : d # c => pc[d] \notin StopLabels
      BY <1>a, <2>1
    <2>3. CASE StopCheck(c) \/ MarkStopping(c) \/ MarkStopped(c)
      <3>1. /\ UNCHANGED <<cmd, stopping, watcher, stopRun>>
            /\ \A d \in Callers : d # c => pc'[d] = pc[d]
            /\ pc[c] \notin StopWaits /\ pc'[c] \notin StopWaits /\ pc'[c] # "panicked"
        BY <2>3, <1>0 DEF StopCheck, MarkStopping, MarkStopped, locals,
           slotVars, childVars, StopWaits
      <3> QED BY <2>1, <3>1, SlotFrame
    <2>4. CASE RunnerStopSignal(c)
      <3>1. /\ UNCHANGED <<cmd, watcher>> /\ pc[c] = "signal"
            /\ \A d \in Callers : d # c =>
                  pc'[d] = pc[d] /\ stopRun'[d] = stopRun[d]
        BY <2>4, <1>0 DEF RunnerStopSignal
      <3>2. \/ cmd = NoRun /\ UNCHANGED stopping /\ pc'[c] = "reset"
            \/ cmd # NoRun /\ stopRun'[c] = cmd /\ stopping' /\ pc'[c] = "stopWait"
        BY <2>4, <1>0 DEF RunnerStopSignal
      <3>3. CASE cmd = NoRun
        BY <2>1, <3>1, <3>2, <3>3, SlotFrame DEF StopWaits
      <3>4. CASE cmd # NoRun
        <4>1. stopRun'[c] = cmd /\ stopping' /\ pc'[c] = "stopWait"
          BY <3>2, <3>4
        <4>2. \A d \in Callers : d # c => pc'[d] \notin StopLabels
          BY <2>2, <3>1
        <4> QED BY <2>1, <3>1, <3>4, <4>1, <4>2 DEF SlotInv, Panicked, StopLabels, StopWaits
      <3> QED BY <3>3, <3>4
    <2>5. CASE KillAfterGrace(c)
      <3>1. cmd = stopRun[c] /\ cmd # NoRun /\ stopping
        BY <2>5 DEF KillAfterGrace, SlotInv, StopWaits
      <3>2. /\ UNCHANGED <<cmd, stopping, watcher, stopRun>> /\ pc'[c] = "killWait"
            /\ \A d \in Callers : d # c => pc'[d] = pc[d]
        BY <2>5, <1>0, <3>1 DEF KillAfterGrace, locals, slotVars
      <3>3. \A d \in Callers : d # c => pc'[d] \notin StopLabels
        BY <2>2, <3>2
      <3> QED BY <2>1, <3>1, <3>2, <3>3 DEF SlotInv, Panicked, StopLabels, StopWaits
    <2>6. CASE RunnerStopDone(c) \/ RunnerReset(c)
      <3>1. /\ cmd' = NoRun /\ UNCHANGED <<watcher>> /\ pc'[c] \in {"reset", "markStopped"}
            /\ \A d \in Callers : d # c => pc'[d] = pc[d]
        BY <2>6, <1>0 DEF RunnerStopDone, RunnerReset, childVars
      <3>2. \A d \in Callers : d # c => pc'[d] \notin StopLabels
        BY <2>2, <3>1
      <3>3. \A r \in Runs : cmd' # r
        BY <1>0, <3>1
      <3> QED BY <2>1, <3>1, <3>2, <3>3 DEF SlotInv, Panicked, StopLabels, StopWaits
    <2> QED BY <1>4, <2>3, <2>4, <2>5, <2>6 DEF StopStep
  <1>5. ASSUME NEW r \in Runs, WatchExit(r) PROVE SlotInv'
    <2>1. UNCHANGED <<pc, stopRun, stopping>> /\ watcher' = [watcher EXCEPT ![r] = "done"]
      BY <1>5 DEF WatchExit, callVars, locals
    <2>2. ~Panicked' /\ \A c \in Callers : pc'[c] \in StopLabels => MayStop(c)
      BY <2>1 DEF SlotInv, Panicked
    <2>3. CASE WatcherDefers(r)
      <3>1. UNCHANGED cmd /\ (cmd = r => stopping)
        BY <1>5, <2>3 DEF WatchExit, WatcherDefers
      <3>2. \A q \in Runs : watcher'[q] = "done" /\ cmd' = q => stopping'
        BY <1>0, <2>1, <3>1 DEF SlotInv
      <3> QED BY <2>1, <2>2, <3>1, <3>2 DEF SlotInv
    <2>4. CASE ~WatcherDefers(r)
      <3>1. ~stopping /\ cmd' = NoRun
        BY <1>5, <2>4 DEF WatchExit, WatcherDefers
      <3>2. (\A c \in Callers : pc'[c] \notin StopWaits) /\ \A q \in Runs : cmd' # q
        BY <1>0, <2>1, <3>1 DEF SlotInv
      <3> QED BY <2>1, <2>2, <3>1, <3>2 DEF SlotInv
    <2> QED BY <2>3, <2>4
  <1>6. CASE \/ DeliverStatus
             \/ \E r \in Runs : ChildStep(r) \/ ReadFrame(r) \/ ReadEOF(r)
    <2>1. UNCHANGED <<pc, stopRun, cmd, stopping, watcher>>
      BY <1>6 DEF DeliverStatus, ChildStep, ChildPending, ChildReady,
         ChildStopping, ChildFinish, ChildExit, ChildGarble, ReadFrame,
         ReadEOF, WriteFrame, callVars, locals, slotVars, childVars
    <2> QED BY <2>1 DEF SlotInv, Panicked
  <1> QED
    BY <1>1, <1>2, <1>3, <1>4, <1>5, <1>6 DEF Next, CallerStep, RunStep

\* While one goroutine stops the agent, however many start it, Stop never
\* finds its slot emptied under it, and no run whose exit was classified is
\* left in the slot once the calls are over (GoAgent.Stop, waitForExit).
THEOREM SlotIsReaped ==
  ASSUME OneStopper PROVE Spec => []SlotReaped
  <1>1. Init => MarkerInv /\ FreshInv /\ ReportInv /\ SlotInv
    <2>1. Init => /\ pc = [c \in Callers |-> "idle"] /\ cmd = NoRun
                  /\ child = [r \in Runs |-> "none"]
                  /\ watcher = [r \in Runs |-> "none"]
      BY DEF Init
    <2>2. Init => SlotInv
      BY <2>1 DEF SlotInv, StopLabels, StopWaits, Panicked
    <2> QED BY <2>2, ReportInit
  <1>2. TypeOK /\ MarkerInv /\ FreshInv /\ ReportInv /\ SlotInv /\ [Next]_vars
        => MarkerInv' /\ FreshInv' /\ ReportInv' /\ SlotInv'
    BY MarkerStep, FreshStep, ReportStep, SlotStep
  <1>3. SlotInv => SlotReaped
    <2>1. SUFFICES ASSUME SlotInv, Quiet, NEW r \in Runs, watcher[r] = "done", cmd = r
                   PROVE  FALSE
      BY DEF SlotInv, SlotReaped
    <2>2. stopping /\ cmd # NoRun
      BY <2>1, BoundsAssumption DEF SlotInv, NoRun, Runs
    <2> QED BY <2>1, <2>2 DEF SlotInv, Quiet, StopWaits
  <1> QED BY <1>1, <1>2, <1>3, TypeCorrect, PTL DEF Spec

-----------------------------------------------------------------------------
(* No child is left behind, as long as no process is spawned while a Stop  *)
(* waits for another or cleans up after it: then whoever empties the slot  *)
(* knows that its child is gone, and STOPPED is entered with the slot      *)
(* empty, however many goroutines start and stop the agent.                *)

\* From the signal a Stop sends to the state it leaves behind.
StopEnd == StopWaits \cup {"reset", "markStopped"}

SpawnsApart ==
    cmd' \notin {cmd, NoRun} => \A c \in Callers : pc[c] \notin StopEnd

OrphanInv ==
    /\ \A r \in Runs : Gone(r) \/ cmd = r
    /\ \A c \in Callers : pc[c] \in StopWaits => cmd \in {stopRun[c], NoRun}
    /\ \A c \in Callers : pc[c] = "killWait" => child[stopRun[c]] \in {"killed", "dead"}
    /\ \A c \in Callers : pc[c] \in {"reset", "markStopped"} => cmd = NoRun
    /\ sm = "stopped" => cmd = NoRun \/ \E c \in Callers : pc[c] = "markStarting"

\* A step of a caller that leaves the slot and the children alone.
LEMMA OrphanFrame ==
  ASSUME OrphanInv, UNCHANGED <<cmd, child>>, NEW c \in Callers,
         \A d \in Callers : d # c => pc'[d] = pc[d] /\ stopRun'[d] = stopRun[d],
         pc'[c] \notin StopWaits,
         pc'[c] \in {"reset", "markStopped"} => cmd = NoRun,
         sm' = "stopped" => \/ cmd = NoRun
                            \/ sm = "stopped" /\ (pc[c] = "markStarting" => pc'[c] = "markStarting")
  PROVE  OrphanInv'
  <1>1. \A r \in Runs : Gone(r)' \/ cmd' = r
    BY DEF OrphanInv, Gone
  <1>2. sm' = "stopped" => cmd' = NoRun \/ \E d \in Callers : pc'[d] = "markStarting"
    <2>1. CASE sm' = "stopped" /\ sm = "stopped" /\ cmd # NoRun
      <3>1. PICK d \in Callers : pc[d] = "markStarting"
        BY <2>1 DEF OrphanInv
      <3>2. pc'[d] = "markStarting"
        BY <2>1, <3>1
      <3> QED BY <3>2
    <2> QED BY <2>1
  <1>3. \A d \in Callers : pc'[d] \in StopWaits =>
           d # c /\ pc[d] \in StopWaits /\ pc'[d] = pc[d] /\ stopRun'[d] = stopRun[d]
    OBVIOUS
  <1> QED BY <1>1, <1>2, <1>3 DEF OrphanInv, StopWaits

\* Every step keeps the living child in the slot.
LEMMA OrphanStep ==
  ASSUME TypeOK, FreshInv, ReportInv, OrphanInv, [Next]_vars, [SpawnsApart]_vars
  PROVE  OrphanInv'
  <1> USE DEF Return, Goto
  <1>0. /\ pc \in [Callers -> Labels] /\ stopRun \in [Callers -> RunIDs]
        /\ cmd \in RunIDs /\ child \in [Runs -> Phases]
        /\ NoRun \notin Runs /\ RunIDs = Runs \cup {NoRun}
    <2>1. NoRun \notin Runs
      BY BoundsAssumption DEF NoRun, Runs
    <2> QED BY <2>1 DEF TypeOK, TypeCallers, TypeChildren, TypeSlot, RunIDs
  <1>1. CASE UNCHANGED vars
    BY <1>1 DEF vars, callVars, locals, slotVars, childVars, OrphanInv, Gone
  <1>2. ASSUME NEW c \in Callers, NewCall(c) \/ ReloadStep(c)
        PROVE  OrphanInv'
    <2>1. /\ UNCHANGED <<cmd, child, stopRun>> /\ pc[c] # "markStarting"
          /\ pc'[c] \notin {"stopWait", "killWait", "reset", "markStopped"}
          /\ \A d \in Callers : d # c => pc'[d] = pc[d]
      BY <1>2, <1>0 DEF NewCall, CallInitialize, CallStart, CallStop,
         CallReload, CallRestart, Call, NestedApply, ReloadStep, MarkReloading,
         GoReload, PythonReload, AwaitReloadEvent, AwaitReloadDeadline,
         ReloadFailed, MarkReloaded, locals, slotVars, childVars
    <2>2. sm' = "stopped" => sm = "stopped"
      BY <1>2 DEF NewCall, CallInitialize, CallStart, CallStop,
         CallReload, CallRestart, ReloadStep, MarkReloading,
         GoReload, PythonReload, AwaitReloadEvent, AwaitReloadDeadline,
         ReloadFailed, MarkReloaded, TransitionTo
    <2> QED BY <2>1, <2>2, OrphanFrame DEF StopWaits
  <1>3. ASSUME NEW c \in Callers, Reply(c) PROVE OrphanInv'
    <2>1. /\ UNCHANGED <<cmd, child, sm>> /\ pc[c] = "return" /\ pc'[c] = "idle"
          /\ \A d \in Callers : d # c => pc'[d] = pc[d] /\ stopRun'[d] = stopRun[d]
      BY <1>3, <1>0 DEF Reply, slotVars, childVars
    <2> QED BY <2>1, OrphanFrame DEF StopWaits
  <1>4. ASSUME NEW c \in Callers, StartStep(c) PROVE OrphanInv'
    <2> USE DEF StartStep, BeginStart, StartDependencies, SetRunID, Drain,
          RunnerStart, SpawnFailed, MarkStarting, AwaitEvent, Awaiting,
          AwaitSilence, AwaitDeadline, StartTimedOut, PublishFailed,
          MarkRunning, EndStart, LeaveStart
    <2>1. /\ UNCHANGED stopRun
          /\ pc'[c] \notin {"stopWait", "killWait", "reset", "markStopped"}
          /\ \A d \in Callers : d # c => pc'[d] = pc[d]
      BY <1>4, <1>0 DEF locals
    <2>2. CASE RunnerStart(c) /\ cmd' # cmd
      <3>1. /\ pc[c] = "spawn" /\ pc'[c] = "markStarting" /\ cmd = NoRun
            /\ cmd' = nextRunID /\ child' = [child EXCEPT ![nextRunID] = "boot"]
        BY <2>2, <1>0
      <3>2. nextRunID \in Runs
        BY <3>1, BoundsAssumption DEF FreshInv, Runs, TypeOK, TypeCallers
      <3>3. \A r \in Runs : Gone(r)' \/ cmd' = r
        <4>1. ASSUME NEW r \in Runs, r # nextRunID
              PROVE  child'[r] = child[r] /\ Gone(r)
          BY <1>0, <3>1, <4>1 DEF OrphanInv
        <4> QED BY <3>1, <4>1 DEF Gone
      <3>4. \A d \in Callers : pc[d] \notin StopEnd
        <4>1. cmd' \notin {cmd, NoRun} /\ ~UNCHANGED vars
          BY <1>0, <2>2, <3>1, <3>2 DEF vars, slotVars
        <4> QED BY <4>1 DEF SpawnsApart
      <3>5. \A d \in Callers : pc'[d] \notin StopEnd
        BY <2>1, <3>1, <3>4 DEF StopEnd, StopWaits
      <3> QED BY <3>1, <3>3, <3>5 DEF OrphanInv, StopEnd, StopWaits
    <2>3. CASE ~(RunnerStart(c) /\ cmd' # cmd)
      <3>1. UNCHANGED <<cmd, child>>
        <4>1. CASE RunnerStart(c)
          <5>1. \/ UNCHANGED <<cmd, child>>
                \/ pc[c] = "spawn" /\ cmd = NoRun /\ cmd' = nextRunID
            BY <4>1
          <5>2. pc[c] = "spawn" => nextRunID \in Runs
            BY BoundsAssumption DEF FreshInv, Runs, TypeOK, TypeCallers
          <5> QED BY <1>0, <2>3, <4>1, <5>1, <5>2
        <4>2. CASE ~RunnerStart(c)
          BY <1>4, <4>2 DEF slotVars, childVars
        <4> QED BY <4>1, <4>2
      <3>2. sm' = "stopped" => sm = "stopped" /\ pc[c] # "markStarting"
        <4>1. CASE MarkStarting(c)
          BY <4>1 DEF TransitionTo, Allowed
        <4>2. CASE ~MarkStarting(c)
          BY <1>4, <4>2 DEF TransitionTo
        <4> QED BY <4>1, <4>2
      <3> QED BY <2>1, <3>1, <3>2, OrphanFrame DEF StopWaits
    <2> QED BY <2>2, <2>3
  <1>5. ASSUME NEW c \in Callers, StopStep(c) PROVE OrphanInv'
    <2>0. \A d \in Callers : d # c => pc'[d] = pc[d] /\ stopRun'[d] = stopRun[d]
      BY <1>5, <1>0 DEF StopStep, StopCheck, MarkStopping, RunnerStopSignal,
         KillAfterGrace, RunnerStopDone, RunnerReset, MarkStopped, locals
    <2>1. CASE StopCheck(c) \/ MarkStopping(c) \/ MarkStopped(c)
      <3>1. /\ UNCHANGED <<cmd, child>> /\ pc[c] # "markStarting"
            /\ pc'[c] \notin {"stopWait", "killWait", "reset", "markStopped"}
        BY <2>1, <1>0 DEF StopCheck, MarkStopping, MarkStopped, slotVars, childVars
      <3>2. sm' = "stopped" => cmd = NoRun \/ sm = "stopped"
        BY <2>1 DEF StopCheck, MarkStopping, MarkStopped, TransitionTo, OrphanInv
      <3> QED BY <2>0, <3>1, <3>2, OrphanFrame DEF StopWaits
    <2>2. CASE RunnerStopSignal(c) /\ cmd = NoRun
      <3>1. UNCHANGED <<cmd, child, sm>> /\ pc'[c] = "reset"
        BY <2>2, <1>0 DEF RunnerStopSignal
      <3> QED BY <2>0, <2>2, <3>1, OrphanFrame DEF StopWaits
    <2>3. CASE RunnerStopSignal(c) /\ cmd # NoRun
      <3>1. /\ UNCHANGED <<cmd, child, sm>> /\ pc[c] = "signal" /\ pc'[c] = "stopWait"
            /\ stopRun'[c] = cmd
        BY <2>3, <1>0 DEF RunnerStopSignal
      <3>2. \A r \in Runs : Gone(r)' \/ cmd' = r
        BY <3>1 DEF OrphanInv, Gone
      <3>3. sm' = "stopped" => cmd' = NoRun \/ \E d \in Callers : pc'[d] = "markStarting"
        BY <2>0, <3>1 DEF OrphanInv
      <3>4. \A d \in Callers : pc'[d] \in StopWaits => cmd' \in {stopRun'[d], NoRun}
        BY <2>0, <3>1 DEF OrphanInv
      <3>5. \A d \in Callers : pc'[d] = "killWait" => child'[stopRun'[d]] \in {"killed", "dead"}
        BY <2>0, <3>1 DEF OrphanInv
      <3>6. \A d \in Callers : pc'[d] \in {"reset", "markStopped"} => cmd' = NoRun
        BY <2>0, <3>1 DEF OrphanInv
      <3> QED BY <3>2, <3>3, <3>4, <3>5, <3>6 DEF OrphanInv
    <2>4. CASE KillAfterGrace(c) /\ cmd = NoRun
      <3>1. UNCHANGED <<cmd, child, sm>> /\ pc'[c] = "panicked"
        BY <2>4, <1>0 DEF KillAfterGrace, slotVars
      <3> QED BY <2>0, <2>4, <3>1, OrphanFrame DEF StopWaits
    <2>5. CASE KillAfterGrace(c) /\ cmd # NoRun
      <3>1. /\ UNCHANGED <<cmd, sm, stopRun>> /\ pc[c] = "stopWait" /\ pc'[c] = "killWait"
            /\ child' = [child EXCEPT ![cmd] = AfterKill(@)] /\ cmd \in Runs
        BY <2>5, <1>0 DEF KillAfterGrace, locals, slotVars
      <3>2. cmd = stopRun[c]
        BY <2>5, <3>1 DEF OrphanInv, StopWaits
      <3>3. /\ child'[cmd] \in {"killed", "dead"}
            /\ \A r \in Runs : r # cmd => child'[r] = child[r]
        BY <1>0, <3>1 DEF AfterKill
      <3>4. \A r \in Runs : Gone(r)' \/ cmd' = r
        BY <3>1, <3>3 DEF OrphanInv, Gone
      <3>5. \A d \in Callers : pc'[d] = "killWait" => child'[stopRun'[d]] \in {"killed", "dead"}
        <4>1. \A d \in Callers : pc[d] \in StopWaits => stopRun[d] \in Runs
          BY DEF ReportInv
        <4> QED BY <2>0, <3>1, <3>2, <3>3, <4>1 DEF OrphanInv, StopWaits
      <3>6. \A d \in Callers : pc'[d] \in StopWaits => cmd' \in {stopRun'[d], NoRun}
        BY <2>0, <3>1, <3>2 DEF OrphanInv
      <3>7. \A d \in Callers : pc'[d] \in {"reset", "markStopped"} => cmd' = NoRun
        BY <2>0, <3>1 DEF OrphanInv
      <3>8. sm' = "stopped" => cmd' = NoRun \/ \E d \in Callers : pc'[d] = "markStarting"
        BY <2>0, <3>1 DEF OrphanInv
      <3> QED BY <3>4, <3>5, <3>6, <3>7, <3>8 DEF OrphanInv
    <2>6. CASE RunnerStopDone(c)
      <3>1. /\ cmd' = NoRun /\ UNCHANGED <<child, sm, stopRun>> /\ pc'[c] = "reset"
            /\ pc[c] \in StopWaits /\ (pc[c] = "stopWait" => child[stopRun[c]] = "dead")
        BY <2>6, <1>0 DEF RunnerStopDone, locals, childVars, StopWaits
      <3>2. /\ cmd \in {stopRun[c], NoRun} /\ child[stopRun[c]] \in {"killed", "dead"}
        BY <3>1 DEF OrphanInv, StopWaits
      <3>3. \A r \in Runs : Gone(r)' \/ cmd' = r
        BY <1>0, <3>1, <3>2 DEF OrphanInv, Gone
      <3>4. \A d \in Callers : pc'[d] = "killWait" => pc[d] = "killWait"
        BY <2>0, <3>1
      <3> QED BY <3>1, <3>3, <3>4 DEF OrphanInv
    <2>7. CASE RunnerReset(c)
      <3>1. /\ cmd' = NoRun /\ cmd = NoRun /\ UNCHANGED <<child, sm>>
            /\ pc'[c] = "markStopped"
        BY <2>7, <1>0 DEF RunnerReset, childVars, OrphanInv
      <3> QED BY <2>0, <3>1, OrphanFrame DEF StopWaits
    <2> QED BY <1>5, <2>1, <2>2, <2>3, <2>4, <2>5, <2>6, <2>7 DEF StopStep
  <1>6. CASE DeliverStatus \/ \E r \in Runs : ChildStep(r) \/ RunStep(r)
    <2>1. UNCHANGED <<pc, stopRun, sm>>
      BY <1>6 DEF DeliverStatus, ChildStep, RunStep, ChildPending, ChildReady,
         ChildStopping, ChildFinish, ChildExit, ChildGarble, ReadFrame,
         ReadEOF, WatchExit, WriteFrame, callVars, locals
    <2>2. \A r \in Runs : child'[r] = child[r] \/ (child[r] \notin {"none", "dead"} /\ child'[r] = "dead")
             \/ ~Gone(r)
      <3>1. CASE DeliverStatus \/ \E r \in Runs : RunStep(r)
        BY <3>1 DEF DeliverStatus, RunStep, ReadFrame, ReadEOF, WatchExit, childVars
      <3>2. ASSUME NEW q \in Runs, ChildStep(q)
            PROVE  \A r \in Runs : \/ child'[r] = child[r] \/ ~Gone(r)
                                   \/ child[r] \notin {"none", "dead"} /\ child'[r] = "dead"
        <4>1. CASE ChildExit(q)
          BY <1>0, <4>1 DEF ChildExit
        <4>2. CASE ChildGarble(q)
          BY <4>2 DEF ChildGarble
        <4>3. CASE ~ChildExit(q) /\ ~ChildGarble(q)
          BY <1>0, <3>2, <4>3 DEF ChildStep, ChildPending, ChildReady, ChildStopping,
             ChildFinish, WriteFrame, Gone
        <4> QED BY <4>1, <4>2, <4>3
      <3> QED BY <1>6, <3>1, <3>2
    <2>3. \/ UNCHANGED cmd
          \/ cmd' = NoRun /\ (\E r \in Runs : cmd = r /\ child[r] = "dead") /\ UNCHANGED child
      BY <1>6 DEF DeliverStatus, ChildStep, RunStep, ChildPending, ChildReady,
         ChildStopping, ChildFinish, ChildExit, ChildGarble, ReadFrame,
         ReadEOF, WatchExit, WatcherDefers, WriteFrame, slotVars
    <2>4. \A r \in Runs : Gone(r) => Gone(r)' /\ (child[r] \in {"killed", "dead"} =>
                                                     child'[r] \in {"killed", "dead"})
      BY <2>2 DEF Gone
    <2>5. \A r \in Runs : Gone(r)' \/ cmd' = r
      BY <2>3, <2>4 DEF OrphanInv, Gone
    <2>6. \A c \in Callers : pc[c] = "killWait" => child'[stopRun[c]] \in {"killed", "dead"}
      <3>1. \A c \in Callers : pc[c] = "killWait" => stopRun[c] \in Runs
        BY DEF ReportInv, StopWaits
      <3> QED BY <2>4, <3>1 DEF OrphanInv, Gone
    <2> QED BY <2>1, <2>3, <2>5, <2>6 DEF OrphanInv
  <1> QED
    BY <1>1, <1>2, <1>3, <1>4, <1>5, <1>6 DEF Next, CallerStep

\* However many goroutines call Apply, as long as no process is spawned between
\* a Stop's signal and the state it leaves behind, every child that lives is in
\* the runner's slot, and STOPPED between the calls means that no child lives
\* (Controller.Apply's stop branch and the runner's Stop).
THEOREM NoChildIsOrphaned == Spec /\ [][SpawnsApart]_vars => []NoOrphan
  <1>1. Init => MarkerInv /\ FreshInv /\ ReportInv /\ OrphanInv
    <2>1. Init => /\ pc = [c \in Callers |-> "idle"] /\ cmd = NoRun
                  /\ child = [r \in Runs |-> "none"]
      BY DEF Init
    <2>2. Init => OrphanInv
      BY <2>1 DEF StopWaits, OrphanInv, Gone
    <2> QED BY <2>2, ReportInit
  <1>2. (TypeOK /\ MarkerInv /\ FreshInv /\ ReportInv /\ OrphanInv
         /\ [Next]_vars /\ [SpawnsApart]_vars)
        => MarkerInv' /\ FreshInv' /\ ReportInv' /\ OrphanInv'
    BY MarkerStep, FreshStep, ReportStep, OrphanStep
  <1>3. OrphanInv => NoOrphan
    <2>1. SUFFICES ASSUME OrphanInv, Quiet, sm = "stopped", NEW r \in Runs
                   PROVE  Gone(r)
      BY DEF OrphanInv, NoOrphan
    <2>2. cmd = NoRun /\ NoRun \notin Runs
      BY <2>1, BoundsAssumption DEF OrphanInv, Quiet, NoRun, Runs
    <2> QED BY <2>1, <2>2 DEF OrphanInv
  <1> QED BY <1>1, <1>2, <1>3, TypeCorrect, PTL DEF Spec

-----------------------------------------------------------------------------
(* The agent's word is kept.  The invariant follows the terminal frame of  *)
(* the run in the slot from the pipe, where it is the last one, to the     *)
(* announced state.  It needs a child that stays within the budget of      *)
(* unreadable frames: past it the reader hangs up on what is still there.  *)

WithinBudget == MaxBadFrames <= BadFrameBudget

\* Unreadable frames, read and unread, stay within the bound.
BadLeft(s, b) ==
    /\ b <= MaxBadFrames
    /\ \A i \in DOMAIN s : s[i] = "bad" => b < MaxBadFrames
    /\ \A i, j \in DOMAIN s : s[i] = "bad" /\ s[j] = "bad" => i = j

PipeOf(r) ==
    /\ child[r] = "none" => pipe[r] = <<>> /\ r \notin ended
    /\ child[r] # "none" => reader[r] # "none"
    /\ reader[r] = "closed" => pipe[r] = <<>> /\ child[r] = "dead"
    /\ BadLeft(pipe[r], bad[r])
    /\ r \in ended => child[r] \in {"ended", "killed", "dead"}

PipeInv == \A r \in Runs : PipeOf(r)

AnnounceInv ==
    \A r \in ended : cmd = r =>
        IF pipe[r] # <<>> THEN pipe[r][Len(pipe[r])] \in Terminal
        ELSE announced[2] \in Runs /\ (announced[2] = r => announced[1] \in Terminal)

\* A frame is written at the end of a pipe.
LEMMA AppendFacts ==
  ASSUME NEW S, NEW s \in Seq(S), NEW x \in S
  PROVE  /\ Append(s, x) # <<>> /\ Append(s, x)[Len(Append(s, x))] = x
         /\ \A i \in DOMAIN Append(s, x) :
               \/ i \in DOMAIN s /\ Append(s, x)[i] = s[i]
               \/ i = Len(s) + 1 /\ Append(s, x)[i] = x
  <1>0. Append(s, x) \in Seq(S)
    OBVIOUS
  <1>a. \A t \in Seq(S) : Len(t) \in Nat /\ DOMAIN t = 1..Len(t)
    OBVIOUS
  <1>b. Len(Append(s, x)) = Len(s) + 1
    OBVIOUS
  <1>1. /\ Len(s) \in Nat /\ DOMAIN s = 1..Len(s) /\ Len(Append(s, x)) = Len(s) + 1
        /\ DOMAIN Append(s, x) = 1..(Len(s) + 1)
    BY ONLY s \in Seq(S), <1>0, <1>a, <1>b, Zenon
  <1>2. Append(s, x)[Len(s) + 1] = x
    OBVIOUS
  <1>c. \A i \in 1..Len(s) : Append(s, x)[i] = s[i]
    OBVIOUS
  <1>3. Append(s, x) # <<>>
    <2>1. Len(<<>>) = 0
      OBVIOUS
    <2>2. Len(s) + 1 # 0
      BY <1>1
    <2> QED BY ONLY <1>1, <2>1, <2>2, Zenon
  <1>4. \A i \in 1..(Len(s) + 1) : i \in 1..Len(s) \/ i = Len(s) + 1
    BY <1>1
  <1> QED BY <1>1, <1>2, <1>c, <1>3, <1>4

\* A readable frame does not count; an unreadable one is written when none is
\* unread and the bound is not reached.
LEMMA BadWritten ==
  ASSUME NEW s \in Seq(Written), NEW b \in Nat, BadLeft(s, b), NEW x \in Written,
         x = "bad" => b < MaxBadFrames /\ \A i \in DOMAIN s : s[i] # "bad"
  PROVE  BadLeft(Append(s, x), b)
  <1>1. \A i \in DOMAIN Append(s, x) :
           \/ i \in DOMAIN s /\ Append(s, x)[i] = s[i]
           \/ i = Len(s) + 1 /\ Append(s, x)[i] = x
    BY AppendFacts
  <1> QED BY <1>1 DEF BadLeft

\* The first frame of a pipe is read.
LEMMA BadRead ==
  ASSUME NEW s \in Seq(Written), NEW b \in Nat, BadLeft(s, b), s # <<>>
  PROVE  /\ Head(s) # "bad" => BadLeft(Tail(s), b)
         /\ Head(s) = "bad" => b + 1 <= MaxBadFrames /\ BadLeft(Tail(s), b + 1)
  <1>1. /\ Len(s) \in Nat /\ Len(s) # 0 /\ DOMAIN s = 1..Len(s) /\ Head(s) = s[1]
        /\ DOMAIN Tail(s) = 1..(Len(s) - 1)
        /\ \A i \in 1..(Len(s) - 1) : Tail(s)[i] = s[i + 1]
    OBVIOUS
  <1>2. \A i \in DOMAIN Tail(s) : i + 1 \in DOMAIN s /\ i + 1 # 1 /\ Tail(s)[i] = s[i + 1]
    BY <1>1
  <1>3. 1 \in DOMAIN s /\ MaxBadFrames \in Nat
    BY <1>1, BoundsAssumption
  <1>4. \A i, j \in DOMAIN Tail(s) : Tail(s)[i] = "bad" /\ Tail(s)[j] = "bad" => i = j
    <2> SUFFICES ASSUME NEW i \in DOMAIN Tail(s), NEW j \in DOMAIN Tail(s),
                        Tail(s)[i] = "bad", Tail(s)[j] = "bad"
                 PROVE  i = j
      OBVIOUS
    <2>1. i + 1 = j + 1
      BY <1>2 DEF BadLeft
    <2>2. i \in Nat /\ j \in Nat
      BY <1>1
    <2> QED BY <2>1, <2>2
  <1>5. CASE Head(s) # "bad"
    <2>1. \A i \in DOMAIN Tail(s) : Tail(s)[i] = "bad" => b < MaxBadFrames
      BY <1>2 DEF BadLeft
    <2> QED BY <1>4, <1>5, <2>1 DEF BadLeft
  <1>6. CASE Head(s) = "bad"
    <2>1. b < MaxBadFrames
      BY <1>1, <1>3, <1>6 DEF BadLeft
    <2>2. \A i \in DOMAIN Tail(s) : Tail(s)[i] # "bad"
      BY <1>1, <1>2, <1>3, <1>6 DEF BadLeft
    <2> QED BY <1>3, <1>4, <1>6, <2>1, <2>2 DEF BadLeft
  <1> QED BY <1>5, <1>6

\* The last frame of a pipe stays the last one until it is read.
LEMMA LastStays ==
  ASSUME NEW S, NEW s \in Seq(S), s # <<>>
  PROVE  IF Tail(s) # <<>> THEN Tail(s)[Len(Tail(s))] = s[Len(s)] ELSE Head(s) = s[Len(s)]
  <1>1. /\ Len(s) \in Nat /\ Len(s) # 0 /\ Head(s) = s[1]
        /\ Tail(s) \in Seq(S) /\ Len(Tail(s)) = Len(s) - 1
        /\ \A i \in 1..(Len(s) - 1) : Tail(s)[i] = s[i + 1]
    OBVIOUS
  <1>2. CASE Tail(s) # <<>>
    <2>1. Len(Tail(s)) # 0
      BY <1>1, <1>2
    <2>2. Len(s) - 1 \in 1..(Len(s) - 1) /\ (Len(s) - 1) + 1 = Len(s)
      BY <1>1, <2>1
    <2> QED BY <1>1, <1>2, <2>2
  <1>3. CASE Tail(s) = <<>>
    <2>1. Len(s) = 1
      <3>1. Len(<<>>) = 0
        OBVIOUS
      <3>2. Len(Tail(s)) = 0
        BY ONLY <1>3, <3>1, Zenon
      <3>3. \A m, n \in Nat : m = n - 1 /\ m = 0 => n = 1
        OBVIOUS
      <3>4. Len(Tail(s)) \in Nat
        BY <1>1
      <3> QED BY ONLY <1>1, <3>2, <3>3, <3>4, Zenon
    <2> QED BY ONLY <1>1, <1>3, <2>1, Zenon
  <1> QED BY <1>2, <1>3

\* A step that leaves a run's frames alone.
LEMMA PipeFrame ==
  ASSUME NEW r \in Runs, PipeOf(r), pipe'[r] = pipe[r], reader'[r] = reader[r],
         bad'[r] = bad[r], r \in ended' <=> r \in ended,
         \/ child'[r] = child[r]
         \/ child[r] # "none" /\ child'[r] = "dead"
         \/ child[r] \notin {"none", "dead"} /\ child'[r] = "killed"
  PROVE  PipeOf(r)'
  BY DEF PipeOf

\* Every step keeps the order of a child's frames, and its reader reading.
LEMMA PipeStep ==
  ASSUME TypeOK, FreshInv, ReportInv, PipeInv, WithinBudget, [Next]_vars
  PROVE  PipeInv'
  <1> USE DEF Return, Goto
  <1>0. /\ child \in [Runs -> Phases] /\ cmd \in RunIDs
        /\ pipe \in [Runs -> Seq(Written)] /\ bad \in [Runs -> Nat]
        /\ reader \in [Runs -> {"none", "open", "closed"}]
        /\ NoRun \notin Runs /\ RunIDs = Runs \cup {NoRun}
    <2>1. NoRun \notin Runs
      BY BoundsAssumption DEF NoRun, Runs
    <2> QED BY <2>1 DEF TypeOK, TypeChildren, TypeSlot, RunIDs
  <1>1. CASE UNCHANGED <<child, pipe, bad, reader, ended>>
    BY <1>1, PipeFrame DEF PipeInv
  <1>2. ASSUME NEW c \in Callers, RunnerStart(c), child' # child
        PROVE  PipeInv'
    <2>1. /\ pc[c] = "spawn" /\ child' = [child EXCEPT ![nextRunID] = "boot"]
          /\ reader' = [reader EXCEPT ![nextRunID] = "open"]
          /\ UNCHANGED <<pipe, bad, ended, nextRunID>>
      BY <1>2 DEF RunnerStart, histVars
    <2>2. nextRunID \in Runs /\ child[nextRunID] = "none"
      BY <2>1, BoundsAssumption DEF FreshInv, Runs, TypeOK, TypeCallers, BeforeSpawn
    <2>3. PipeOf(nextRunID)'
      BY <1>0, <2>1, <2>2 DEF PipeInv, PipeOf
    <2>4. \A r \in Runs : r # nextRunID => PipeOf(r)'
      BY <1>0, <2>1, <2>2, PipeFrame DEF PipeInv
    <2> QED BY <2>1, <2>3, <2>4 DEF PipeInv
  <1>3. ASSUME NEW c \in Callers, KillAfterGrace(c), cmd # NoRun
        PROVE  PipeInv'
    <2>1. /\ child' = [child EXCEPT ![cmd] = AfterKill(@)] /\ cmd \in Runs
          /\ UNCHANGED <<pipe, bad, reader, ended>>
      BY <1>0, <1>3 DEF KillAfterGrace, histVars
    <2>2. /\ child[cmd] # "none"
          /\ child'[cmd] = IF child[cmd] = "dead" THEN "dead" ELSE "killed"
          /\ \A r \in Runs : r # cmd => child'[r] = child[r]
      BY <1>0, <2>1 DEF ReportInv, AfterKill
    <2> QED BY <2>1, <2>2, PipeFrame DEF PipeInv
  <1>4. ASSUME NEW r \in Runs, NEW frame \in Frames, NEW from, NEW to \in Phases \ {"none"},
               WriteFrame(r, from, to, frame), from \cap {"none", "ended", "killed", "dead"} = {},
               ended' \subseteq ended \cup {r}, ended \subseteq ended',
               r \in ended' => to = "ended"
        PROVE  PipeInv'
    <2>1. /\ child[r] \in from /\ child' = [child EXCEPT ![r] = to]
          /\ pipe' = [pipe EXCEPT ![r] = Append(@, frame)]
          /\ UNCHANGED <<bad, reader>>
      BY <1>4 DEF WriteFrame
    <2>2. PipeOf(r) /\ child[r] \notin {"none", "ended", "killed", "dead"}
      BY <1>4, <2>1 DEF PipeInv
    <2>3. frame \in Written /\ frame # "bad"
      BY <1>4 DEF Written, Frames
    <2>4. BadLeft(Append(pipe[r], frame), bad[r])
      <3>1. pipe[r] \in Seq(Written) /\ bad[r] \in Nat /\ BadLeft(pipe[r], bad[r])
        BY <1>0, <2>2 DEF PipeOf
      <3> QED BY <2>3, <3>1, BadWritten
    <2>5. child'[r] = to /\ pipe'[r] = Append(pipe[r], frame)
      BY <1>0, <2>1
    <2>6. PipeOf(r)'
      BY <1>4, <2>1, <2>2, <2>4, <2>5 DEF PipeOf
    <2>7. \A q \in Runs : q # r => PipeOf(q)'
      BY <1>0, <1>4, <2>1, PipeFrame DEF PipeInv
    <2> QED BY <2>6, <2>7 DEF PipeInv
  <1>5. ASSUME NEW r \in Runs, ChildExit(r) PROVE PipeInv'
    <2>1. /\ child[r] # "none" /\ child' = [child EXCEPT ![r] = "dead"]
          /\ UNCHANGED <<pipe, bad, reader, ended>>
      BY <1>5 DEF ChildExit, histVars
    <2>2. child'[r] = "dead" /\ \A q \in Runs : q # r => child'[q] = child[q]
      BY <1>0, <2>1
    <2> QED BY <2>1, <2>2, PipeFrame DEF PipeInv
  <1>6. ASSUME NEW r \in Runs, ChildGarble(r) PROVE PipeInv'
    <2>1. /\ child[r] \in {"boot", "init", "running"} /\ bad[r] < MaxBadFrames
          /\ \A i \in DOMAIN pipe[r] : pipe[r][i] # "bad"
          /\ pipe' = [pipe EXCEPT ![r] = Append(@, "bad")]
          /\ UNCHANGED <<child, bad, reader, ended>>
      BY <1>6 DEF ChildGarble, histVars
    <2>2. PipeOf(r) /\ "bad" \in Written
      BY DEF PipeInv, Written
    <2>3. BadLeft(Append(pipe[r], "bad"), bad[r])
      <3>1. pipe[r] \in Seq(Written) /\ bad[r] \in Nat /\ BadLeft(pipe[r], bad[r])
        BY <1>0, <2>2 DEF PipeOf
      <3> QED BY <2>1, <2>2, <3>1, BadWritten
    <2>4. pipe'[r] = Append(pipe[r], "bad") /\ \A q \in Runs : q # r => pipe'[q] = pipe[q]
      BY <1>0, <2>1
    <2>5. PipeOf(r)'
      BY <2>1, <2>2, <2>3, <2>4 DEF PipeOf
    <2> QED BY <2>1, <2>4, <2>5, PipeFrame DEF PipeInv
  <1>7. ASSUME NEW r \in Runs, ReadFrame(r) PROVE PipeInv'
    <2>1. /\ reader[r] = "open" /\ pipe[r] # <<>> /\ pipe' = [pipe EXCEPT ![r] = Tail(@)]
          /\ UNCHANGED <<child, ended>>
      BY <1>7 DEF ReadFrame, histVars
    <2>2. PipeOf(r) /\ pipe[r] \in Seq(Written) /\ bad[r] \in Nat
      BY <1>0 DEF PipeInv
    <2>3. child[r] # "none"
      BY <2>1, <2>2 DEF PipeOf
    <2>4. /\ Head(pipe[r]) # "bad" => BadLeft(Tail(pipe[r]), bad[r])
          /\ Head(pipe[r]) = "bad" =>
                bad[r] + 1 <= MaxBadFrames /\ BadLeft(Tail(pipe[r]), bad[r] + 1)
      <3>1. BadLeft(pipe[r], bad[r])
        BY <2>2 DEF PipeOf
      <3> QED BY <2>1, <2>2, <3>1, BadRead
    <2>5. /\ pipe'[r] = Tail(pipe[r]) /\ \A q \in Runs : q # r => pipe'[q] = pipe[q]
      BY <1>0, <2>1
    <2>6. /\ reader'[r] = "open" /\ BadLeft(Tail(pipe[r]), bad'[r])
          /\ \A q \in Runs : q # r => reader'[q] = reader[q] /\ bad'[q] = bad[q]
      <3>1. CASE Head(pipe[r]) = "bad"
        <4>1. ~(bad[r] + 1 > BadFrameBudget)
          BY <2>2, <2>4, <3>1, BoundsAssumption DEF WithinBudget
        <4>2. /\ bad' = [bad EXCEPT ![r] = bad[r] + 1]
              /\ reader' = [reader EXCEPT ![r] = reader[r]]
          BY <1>7, <3>1, <4>1 DEF ReadFrame
        <4> QED BY <1>0, <2>1, <2>4, <3>1, <4>2
      <3>2. CASE Head(pipe[r]) # "bad"
        BY <1>7, <2>1, <2>4, <3>2 DEF ReadFrame
      <3> QED BY <3>1, <3>2
    <2>7. PipeOf(r)'
      BY <2>1, <2>2, <2>3, <2>5, <2>6 DEF PipeOf
    <2> QED BY <2>1, <2>5, <2>6, <2>7, PipeFrame DEF PipeInv
  <1>8. ASSUME NEW r \in Runs, ReadEOF(r) PROVE PipeInv'
    <2>1. /\ pipe[r] = <<>> /\ child[r] = "dead" /\ reader' = [reader EXCEPT ![r] = "closed"]
          /\ UNCHANGED <<child, pipe, bad, ended>>
      BY <1>8 DEF ReadEOF, histVars
    <2>2. reader'[r] = "closed" /\ \A q \in Runs : q # r => reader'[q] = reader[q]
      BY <1>0, <2>1
    <2>3. PipeOf(r)'
      BY <2>1, <2>2 DEF PipeInv, PipeOf
    <2> QED BY <2>1, <2>2, <2>3, PipeFrame DEF PipeInv
  <1>9. ASSUME NEW r \in Runs,
               ChildPending(r) \/ ChildReady(r) \/ ChildStopping(r) \/ ChildFinish(r)
        PROVE  PipeInv'
    <2>1. CASE ChildPending(r)
      BY <1>4, <2>1 DEF ChildPending, Frames, Phases, PipeInv, PipeOf, WriteFrame
    <2>2. CASE ChildReady(r)
      BY <1>4, <2>2 DEF ChildReady, Frames, Phases, PipeInv, PipeOf, WriteFrame
    <2>3. CASE ChildStopping(r)
      BY <1>4, <2>3 DEF ChildStopping, Frames, Phases, PipeInv, PipeOf, WriteFrame
    <2>4. CASE ChildFinish(r)
      BY <1>4, <2>4 DEF ChildFinish, Frames, Phases
    <2> QED BY <1>9, <2>1, <2>2, <2>3, <2>4
  <1>10. ASSUME NEW c \in Callers, NewCall(c) \/ CallerStep(c) PROVE PipeInv'
    <2>1. CASE RunnerStart(c)
      <3>1. child' = child => UNCHANGED <<child, pipe, bad, reader, ended>>
        <4>1. CASE UNCHANGED <<child, reader>>
          BY <2>1, <4>1 DEF RunnerStart, histVars
        <4>2. CASE /\ child' = [child EXCEPT ![nextRunID] = "boot"] /\ pc[c] = "spawn"
          <5>1. nextRunID \in Runs /\ child[nextRunID] = "none"
            BY <4>2, BoundsAssumption DEF FreshInv, Runs, TypeOK, TypeCallers, BeforeSpawn
          <5> QED BY <1>0, <4>2, <5>1
        <4> QED BY <2>1, <4>1, <4>2 DEF RunnerStart
      <3> QED BY <1>1, <1>2, <2>1, <3>1
    <2>2. CASE KillAfterGrace(c) /\ cmd # NoRun
      BY <1>3, <2>2
    <2>3. CASE ~RunnerStart(c) /\ ~(KillAfterGrace(c) /\ cmd # NoRun)
      <3>1. UNCHANGED <<child, pipe, bad, reader, ended>>
        BY <1>10, <2>3 DEF NewCall, CallInitialize, CallStart, CallStop,
           CallReload, CallRestart, Call, NestedApply, CallerStep, StartStep,
           BeginStart, StartDependencies, SetRunID, Drain, SpawnFailed,
           MarkStarting, AwaitEvent, AwaitSilence, AwaitDeadline, StartTimedOut,
           PublishFailed, MarkRunning, EndStart, StopStep, StopCheck,
           MarkStopping, RunnerStopSignal, KillAfterGrace, RunnerStopDone,
           RunnerReset, MarkStopped, ReloadStep, MarkReloading, GoReload,
           PythonReload, AwaitReloadEvent, AwaitReloadDeadline, ReloadFailed,
           MarkReloaded, Reply, childVars, histVars
      <3> QED BY <1>1, <3>1
    <2> QED BY <2>1, <2>2, <2>3
  <1>11. CASE UNCHANGED vars \/ DeliverStatus \/ \E r \in Runs : WatchExit(r)
    BY <1>1, <1>11 DEF vars, DeliverStatus, WatchExit, childVars, histVars
  <1> QED
    BY <1>5, <1>6, <1>7, <1>8, <1>9, <1>10, <1>11 DEF Next, ChildStep, RunStep

\* Every step keeps the agent's last word, in the pipe or announced.
LEMMA AnnounceStep ==
  ASSUME TypeOK, FreshInv, PipeInv, AnnounceInv, [Next]_vars
  PROVE  AnnounceInv'
  <1> USE DEF Return, Goto
  <1>0. /\ pipe \in [Runs -> Seq(Written)] /\ ended \subseteq Runs
        /\ NoRun \notin Runs /\ RunIDs = Runs \cup {NoRun}
    <2>1. NoRun \notin Runs
      BY BoundsAssumption DEF NoRun, Runs
    <2> QED BY <2>1 DEF TypeOK, TypeChildren, TypeHistory, RunIDs
  <1>1. CASE UNCHANGED <<pipe, announced, ended>> /\ cmd' \in {cmd, NoRun}
    BY <1>0, <1>1 DEF AnnounceInv
  <1>2. ASSUME NEW c \in Callers, RunnerStart(c) PROVE AnnounceInv'
    <2>1. /\ UNCHANGED <<pipe, ended>> /\ pc[c] = "spawn"
          /\ \/ UNCHANGED <<cmd, announced>> \/ cmd' = NoRun \/ cmd' = nextRunID
      BY <1>2 DEF RunnerStart, histVars
    <2>2. nextRunID \in Runs /\ child[nextRunID] = "none"
      BY <2>1, BoundsAssumption DEF FreshInv, Runs, TypeOK, TypeCallers, BeforeSpawn
    <2>3. nextRunID \notin ended
      BY <2>2 DEF PipeInv, PipeOf
    <2> QED BY <1>0, <2>1, <2>3 DEF AnnounceInv
  <1>3. ASSUME NEW q \in Runs, NEW frame \in Written, child[q] \notin {"ended", "killed", "dead"},
               pipe' = [pipe EXCEPT ![q] = Append(@, frame)], UNCHANGED <<cmd, announced>>,
               \/ ended' = ended
               \/ ended' = ended \cup {q} /\ frame \in Terminal
        PROVE  AnnounceInv'
    <2>1. q \notin ended
      BY <1>3 DEF PipeInv, PipeOf
    <2>2. \A r \in Runs : r # q => pipe'[r] = pipe[r]
      BY <1>0, <1>3
    <2>3. pipe'[q] # <<>> /\ pipe'[q][Len(pipe'[q])] = frame
      <3>1. pipe'[q] = Append(pipe[q], frame) /\ pipe[q] \in Seq(Written)
        BY <1>0, <1>3
      <3>2. Append(pipe[q], frame) # <<>>
            /\ Append(pipe[q], frame)[Len(Append(pipe[q], frame))] = frame
        BY <3>1, AppendFacts
      <3> QED BY ONLY <3>1, <3>2, Zenon
    <2> QED BY <1>0, <1>3, <2>1, <2>2, <2>3 DEF AnnounceInv
  <1>4. ASSUME NEW q \in Runs, ReadFrame(q) PROVE AnnounceInv'
    <2>1. /\ pipe[q] # <<>> /\ pipe' = [pipe EXCEPT ![q] = Tail(@)]
          /\ UNCHANGED <<cmd, ended>>
          /\ IF Head(pipe[q]) = "bad" THEN UNCHANGED announced
             ELSE announced' = <<Head(pipe[q]), q>>
      BY <1>4 DEF ReadFrame, histVars
    <2>2. pipe'[q] = Tail(pipe[q]) /\ \A r \in Runs : r # q => pipe'[r] = pipe[r]
      BY <1>0, <2>1
    <2>3. ASSUME q \in ended, cmd = q
          PROVE  IF pipe'[q] # <<>> THEN pipe'[q][Len(pipe'[q])] \in Terminal
                 ELSE announced' = <<Head(pipe[q]), q>> /\ Head(pipe[q]) \in Terminal
      <3>1. pipe[q][Len(pipe[q])] \in Terminal
        BY <2>1, <2>3 DEF AnnounceInv
      <3>2. IF Tail(pipe[q]) # <<>>
            THEN Tail(pipe[q])[Len(Tail(pipe[q]))] = pipe[q][Len(pipe[q])]
            ELSE Head(pipe[q]) = pipe[q][Len(pipe[q])]
        BY <1>0, <2>1, LastStays
      <3>3. "bad" \notin Terminal
        BY DEF Terminal
      <3>4. CASE Tail(pipe[q]) # <<>>
        BY ONLY <2>2, <3>1, <3>2, <3>4, Zenon
      <3>5. CASE Tail(pipe[q]) = <<>>
        <4>1. Head(pipe[q]) \in Terminal
          BY ONLY <3>1, <3>2, <3>5, Zenon
        <4>2. announced' = <<Head(pipe[q]), q>>
          BY ONLY <2>1, <3>3, <4>1, Zenon
        <4> QED BY ONLY <2>2, <3>5, <4>1, <4>2, Zenon
      <3> QED BY <3>4, <3>5
    <2>4. ASSUME NEW r \in ended', cmd' = r
          PROVE  IF pipe'[r] # <<>> THEN pipe'[r][Len(pipe'[r])] \in Terminal
                 ELSE announced'[2] \in Runs /\ (announced'[2] = r => announced'[1] \in Terminal)
      <3>1. r \in ended /\ cmd = r /\ r \in Runs
        BY <1>0, <2>1, <2>4
      <3>2. CASE r = q
        <4>1. announced' = <<Head(pipe[q]), q>> => announced'[2] = q /\ announced'[1] = Head(pipe[q])
          OBVIOUS
        <4>2. IF pipe'[q] # <<>> THEN pipe'[q][Len(pipe'[q])] \in Terminal
              ELSE announced' = <<Head(pipe[q]), q>> /\ Head(pipe[q]) \in Terminal
          BY <2>3, <3>1, <3>2
        <4>3. q \in Runs
          BY <1>4
        <4> QED BY ONLY <3>2, <4>1, <4>2, <4>3, Zenon
      <3>3. CASE r # q
        <4>1. pipe'[r] = pipe[r]
          BY <2>2, <3>1, <3>3
        <4>2. UNCHANGED announced \/ (announced'[2] = q /\ q # r /\ q \in Runs)
          BY <2>1, <3>3
        <4> QED BY <3>1, <4>1, <4>2 DEF AnnounceInv
      <3> QED BY <3>2, <3>3
    <2> QED BY <2>4 DEF AnnounceInv
  <1>5. ASSUME NEW r \in Runs, ChildStep(r) PROVE AnnounceInv'
    <2>1. CASE ChildExit(r)
      BY <1>1, <2>1 DEF ChildExit, slotVars, histVars
    <2>2. CASE ChildGarble(r)
      BY <1>3, <2>2 DEF ChildGarble, Written, slotVars, histVars
    <2>3. CASE ChildPending(r) \/ ChildReady(r) \/ ChildStopping(r)
      BY <1>3, <2>3 DEF ChildPending, ChildReady, ChildStopping, WriteFrame, Written, Frames,
         slotVars, histVars
    <2>4. CASE ChildFinish(r)
      BY <1>3, <2>4 DEF ChildFinish, WriteFrame, Written, Frames, Terminal, slotVars, histVars
    <2> QED BY <1>5, <2>1, <2>2, <2>3, <2>4 DEF ChildStep
  <1>6. ASSUME NEW c \in Callers, NewCall(c) \/ CallerStep(c), ~RunnerStart(c)
        PROVE  AnnounceInv'
    <2>1. UNCHANGED <<pipe, announced, ended>> /\ cmd' \in {cmd, NoRun}
      BY <1>6 DEF NewCall, CallInitialize, CallStart, CallStop,
         CallReload, CallRestart, Call, NestedApply, CallerStep, StartStep,
         BeginStart, StartDependencies, SetRunID, Drain, SpawnFailed,
         MarkStarting, AwaitEvent, AwaitSilence, AwaitDeadline, StartTimedOut,
         PublishFailed, MarkRunning, EndStart, StopStep, StopCheck,
         MarkStopping, RunnerStopSignal, KillAfterGrace, RunnerStopDone,
         RunnerReset, MarkStopped, ReloadStep, MarkReloading, GoReload,
         PythonReload, AwaitReloadEvent, AwaitReloadDeadline, ReloadFailed,
         MarkReloaded, Reply, childVars, histVars, slotVars
    <2> QED BY <1>1, <2>1
  <1>7. CASE UNCHANGED vars \/ DeliverStatus \/ \E r \in Runs : WatchExit(r) \/ ReadEOF(r)
    BY <1>1, <1>7 DEF vars, DeliverStatus, WatchExit, ReadEOF, childVars, histVars, slotVars
  <1> QED
    BY <1>2, <1>4, <1>5, <1>6, <1>7 DEF Next, RunStep

\* However starts, stops and exits interleave, the exit watcher reports no
\* failure of a run whose agent announced its own end, unless a frame of
\* another run has overwritten the announcement; a child that writes more
\* unreadable frames than readControl accepts is not covered.
THEOREM AnnouncedExitIsKept ==
  ASSUME WithinBudget PROVE Spec => AnnouncedExitKept
  <1> DEFINE Kept == \A r \in Runs :
               "watcher" \in exitBy'[r] \ exitBy[r] /\ r \in ended
               => announced[2] \in Runs \ {r}
             Inv == MarkerInv /\ FreshInv /\ ReportInv /\ PipeInv /\ AnnounceInv
  <1>1. Init => Inv
    <2>1. Init => /\ child = [r \in Runs |-> "none"] /\ pipe = [r \in Runs |-> <<>>]
                  /\ reader = [r \in Runs |-> "none"] /\ bad = [r \in Runs |-> 0]
                  /\ ended = {}
      BY DEF Init
    <2>2. Init => AnnounceInv
      BY <2>1 DEF AnnounceInv
    <2>3. BadLeft(<<>>, 0)
      BY BoundsAssumption DEF BadLeft
    <2>4. Init => PipeInv
      BY <2>1, <2>3 DEF PipeInv, PipeOf
    <2> QED BY <2>2, <2>4, ReportInit
  <1>2. TypeOK /\ Inv /\ [Next]_vars => Inv'
    BY MarkerStep, FreshStep, ReportStep, PipeStep, AnnounceStep
  <1>3. TypeOK /\ Inv /\ [Next]_vars => [Kept]_vars
    <2> SUFFICES ASSUME TypeOK, Inv, Next, NEW r \in Runs,
                        "watcher" \in exitBy'[r] \ exitBy[r], r \in ended
                 PROVE  announced[2] \in Runs \ {r}
      OBVIOUS
    <2>0. exitBy \in [Runs -> SUBSET {"stop", "agent", "watcher"}]
      BY DEF TypeOK, TypeHistory
    <2>1. PICK q \in Runs : WatchExit(q) /\ ~WatcherDefers(q)
      <3>1. CASE \E c \in Callers : NewCall(c) \/ CallerStep(c)
        <4>1. PICK c \in Callers : NewCall(c) \/ CallerStep(c)
          BY <3>1
        <4>2. CASE RunnerStopDone(c)
          <5>1. exitBy' = [exitBy EXCEPT ![stopRun[c]] = @ \cup {"stop"}]
            BY <4>2 DEF RunnerStopDone
          <5>2. "watcher" \notin exitBy'[r] \ exitBy[r]
            BY <2>0, <5>1
          <5> QED BY <5>2
        <4>3. CASE ~RunnerStopDone(c)
          <5>1. UNCHANGED exitBy
            BY <4>1, <4>3 DEF NewCall, CallInitialize, CallStart, CallStop,
               CallReload, CallRestart, Call, NestedApply, CallerStep, StartStep,
               BeginStart, StartDependencies, SetRunID, Drain, RunnerStart, SpawnFailed,
               MarkStarting, AwaitEvent, AwaitSilence, AwaitDeadline, StartTimedOut,
               PublishFailed, MarkRunning, EndStart, StopStep, StopCheck,
               MarkStopping, RunnerStopSignal, KillAfterGrace,
               RunnerReset, MarkStopped, ReloadStep, MarkReloading, GoReload,
               PythonReload, AwaitReloadEvent, AwaitReloadDeadline, ReloadFailed,
               MarkReloaded, Reply, histVars
          <5> QED BY <5>1
        <4> QED BY <4>2, <4>3
      <3>2. CASE DeliverStatus \/ \E q \in Runs : ChildStep(q) \/ ReadFrame(q) \/ ReadEOF(q)
        <4>1. UNCHANGED exitBy
          BY <3>2 DEF DeliverStatus, ChildStep, ChildPending, ChildReady, ChildStopping,
             ChildFinish, ChildExit, ChildGarble, WriteFrame, ReadFrame, ReadEOF, histVars
        <4> QED BY <4>1
      <3>3. CASE \E q \in Runs : WatchExit(q)
        <4>1. PICK q \in Runs : WatchExit(q)
          BY <3>3
        <4>2. WatcherDefers(q) => UNCHANGED exitBy
          BY <4>1 DEF WatchExit
        <4> QED BY <4>1, <4>2
      <3> QED BY <3>1, <3>2, <3>3 DEF Next, RunStep
    <2>2. /\ child[q] = "dead" /\ ControlDrained(q) /\ cmd = q
          /\ exitBy' = [exitBy EXCEPT ![q] = @ \cup
                           {IF AnnouncedOwnExit(q) THEN "agent" ELSE "watcher"}]
      BY <2>1 DEF WatchExit, WatcherDefers
    <2>3. r = q /\ ~AnnouncedOwnExit(r)
      BY <2>0, <2>2
    <2>4. pipe[r] = <<>>
      BY <2>2, <2>3 DEF ControlDrained, PipeInv, PipeOf
    <2> QED BY <2>2, <2>3, <2>4 DEF AnnounceInv, AnnouncedOwnExit
  <1> QED BY <1>1, <1>2, <1>3, TypeCorrect, PTL DEF Spec, AnnouncedExitKept
=============================================================================
