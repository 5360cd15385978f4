---------------------------- MODULE RunnerProofs ----------------------------
(***************************************************************************)
(* Proofs about two runners of the agent manager: the timer, for any       *)
(* number of callers, loops and instants, and the adopted process, for any *)
(* number of processes and PIDs.                                           *)
(***************************************************************************)
EXTENDS AdoptedProcess, TimerAgent, SequenceTheorems, TLAPS

-----------------------------------------------------------------------------
(* The timer.  When a loop's last fire was, seen from each of its places.  *)

TimerFunctions ==
    /\ now \in Int /\ cancel \in Nat /\ config \in [form : Forms, d : Durations]
    /\ lpc \in [Loops -> {"none", "next", "select", "execute", "wait", "done"}]
    /\ once \in [Loops -> Int] /\ due \in [Loops -> Int] /\ fired \in [Loops -> BOOLEAN]
    /\ proc \in [Loops -> {"none", "runs"}] /\ fires \in [Loops -> Seq(Int)]
    /\ \A l \in Loops : proc[l] = "runs" => lpc[l] = "wait"

\* A loop that has not begun has no past, and one that has begun has a schedule.
Begun(l) ==
    /\ lpc[l] = "none" => ~fired[l] /\ fires[l] = <<>>
    /\ lpc[l] # "none" => Parses(config)

\* A one-shot is due at its instant and has not fired while it waits for it.
OneShotLoop(l) ==
    /\ ~fired[l] => fires[l] = <<>>
    /\ lpc[l] \in {"select", "execute"} => fires[l] = <<>> /\ fired[l] /\ due[l] = once[l]
    /\ lpc[l] = "execute" => due[l] <= now
    /\ lpc[l] = "wait" => fired[l]
    /\ Len(fires[l]) <= 1
    /\ fires[l] # <<>> => fires[l][1] >= once[l]

LastFire(l) == fires[l][Len(fires[l])]

\* A repeated schedule waits a whole interval from its last fire.
RepeatLoop(l) ==
    /\ Len(fires[l]) <= 2
    /\ fires[l] # <<>> =>
         /\ LastFire(l) <= now
         /\ lpc[l] = "select" => due[l] >= LastFire(l) + config.d
         /\ lpc[l] = "execute" => now >= LastFire(l) + config.d
    /\ Len(fires[l]) = 2 => fires[l][2] - fires[l][1] >= config.d

LoopInv(l) ==
    /\ Begun(l)
    /\ config.form \in OneShot => OneShotLoop(l)
    /\ config.form \in Repeating => RepeatLoop(l)

TimerInv == TimerFunctions /\ OneLiveLoop /\ \A l \in Loops : LoopInv(l)

\* Next of each schedule.
LEMMA NextOf ==
  ASSUME NEW l \in Loops
  PROVE  /\ config.form \in OneShot => NextFire(l) = {IF fired[l] THEN Never ELSE once[l]}
         /\ config.form \in Repeating => NextFire(l) = {now + config.d}
         /\ config.form \notin OneShot \cup Repeating => NextFire(l) = now + 1 .. MaxTime + 1
  <1>1. config.form \in Repeating => config.form \notin OneShot
    BY DEF OneShot, Repeating
  <1>2. config.form \in OneShot => NextFire(l) = {IF fired[l] THEN Never ELSE once[l]}
    BY <1>1, Zenon DEF NextFire
  <1>3. config.form \in Repeating => NextFire(l) = {now + config.d}
    BY <1>1, Zenon DEF NextFire
  <1>4. /\ config.form \notin OneShot /\ config.form \notin Repeating
        => NextFire(l) = now + 1 .. MaxTime + 1
    BY Zenon DEF NextFire
  <1>5. QED
    BY <1>2, <1>3, <1>4

\* The instants and durations of a loop are integers.
LEMMA TimerInts ==
  ASSUME TimerFunctions
  PROVE  /\ now \in Int /\ config.d \in Int /\ Never \in Int
         /\ \A l \in Loops : /\ due[l] \in Int /\ once[l] \in Int /\ fires[l] \in Seq(Int)
                             /\ fires[l] # <<>> => LastFire(l) \in Int
  <1>1. config.d \in Durations /\ now \in Int
    BY DEF TimerFunctions
  <1>2. config.d \in Int
    BY <1>1, TimerAssumption
  <1>3. Never \in Int
    BY DEF Never
  <1>4. ASSUME NEW l \in Loops
        PROVE  due[l] \in Int /\ once[l] \in Int /\ fires[l] \in Seq(Int)
    BY DEF TimerFunctions
  <1>5. ASSUME NEW l \in Loops, fires[l] # <<>>
        PROVE  LastFire(l) \in Int
    BY <1>4, <1>5 DEF LastFire
  <1>6. QED
    BY <1>1, <1>2, <1>3, <1>4, <1>5

\* The instant of a one-shot form.
LEMMA OnceAtInt ==
  ASSUME TimerFunctions
  PROVE  OnceAt(config) \in Int
  <1>1. config.d \in Int /\ Never \in Int /\ now + config.d \in Int
    BY TimerInts
  <1>2. QED
    BY <1>1, Zenon DEF OnceAt

\* What is said of a loop stays true while it rests and time goes on.
LEMMA RestingLoop ==
  ASSUME TimerFunctions, NEW m \in Loops, LoopInv(m), config' = config,
         lpc'[m] = lpc[m], once'[m] = once[m], fired'[m] = fired[m], due'[m] = due[m],
         fires'[m] = fires[m], now' \in Int, now' >= now
  PROVE  LoopInv(m)'
  <1>1. /\ due[m] \in Int /\ now \in Int /\ config.d \in Int /\ fires[m] \in Seq(Int)
        /\ fires[m] # <<>> => LastFire(m) \in Int
    BY TimerInts
  <1>2. Begun(m)'
    BY DEF LoopInv, Begun, Parses
  <1>3. ASSUME config.form \in OneShot
        PROVE  OneShotLoop(m)'
    BY <1>1, <1>3 DEF LoopInv, OneShotLoop
  <1>4. ASSUME config.form \in Repeating
        PROVE  RepeatLoop(m)'
    <2>1. LastFire(m)' = LastFire(m)
      BY DEF LastFire
    <2>2. QED
      BY <1>1, <1>4, <2>1 DEF LoopInv, RepeatLoop
  <1>5. QED
    BY <1>2, <1>3, <1>4 DEF LoopInv

\* The other loops rest while one takes a step.
LEMMA OneLoopSteps ==
  ASSUME TimerInv, NEW l \in Loops, LoopInv(l)', TimerFunctions', config' = config, now' = now,
         \A m \in Loops \ {l} : /\ lpc'[m] = lpc[m] /\ once'[m] = once[m]
                                /\ fired'[m] = fired[m] /\ due'[m] = due[m]
                                /\ fires'[m] = fires[m],
         OneLiveLoop'
  PROVE  TimerInv'
  <1>1. ASSUME NEW m \in Loops \ {l}
        PROVE  LoopInv(m)'
    <2>1. now \in Int /\ now' >= now /\ now' \in Int
      BY DEF TimerInv, TimerFunctions
    <2>2. QED
      BY <2>1, RestingLoop DEF TimerInv
  <1>2. QED
    BY <1>1 DEF TimerInv

\* run asks the schedule.
LEMMA LoopNextKept ==
  ASSUME TimerInv, NEW l \in Loops, LoopNext(l)
  PROVE  TimerInv'
  <1>1. /\ lpc[l] = "next" /\ fired' = [fired EXCEPT ![l] = TRUE]
        /\ UNCHANGED <<now, config, cancel, tpc, cancelledL, once, proc, fires>>
        /\ TimerFunctions /\ LoopInv(l)
    BY DEF LoopNext, TimerInv
  <1>2. PICK t \in NextFire(l) :
           /\ due' = [due EXCEPT ![l] = t]
           /\ lpc' = [lpc EXCEPT ![l] = IF t = Never THEN "done" ELSE "select"]
    BY DEF LoopNext
  <1>3. now \in Int /\ config.d \in Int /\ once[l] \in Int /\ Never \in Int
    BY <1>1, TimerInts
  <1>4. /\ config.form \in OneShot => t = IF fired[l] THEN Never ELSE once[l]
        /\ config.form \in Repeating => t = now + config.d
        /\ t \in Int
    <2>1. config.form \in OneShot => t = IF fired[l] THEN Never ELSE once[l]
      BY <1>2, NextOf
    <2>2. config.form \in Repeating => t = now + config.d
      BY <1>2, NextOf
    <2>3. config.form \notin OneShot \cup Repeating => t \in Int
      BY <1>2, <1>3, TimerAssumption, NextOf
    <2>4. QED
      BY <2>1, <2>2, <2>3, <1>3
  <1>5. TimerFunctions'
    BY <1>1, <1>2, <1>4 DEF TimerFunctions
  <1>6. /\ lpc'[l] = (IF t = Never THEN "done" ELSE "select") /\ due'[l] = t
        /\ fired'[l] = TRUE /\ fires' = fires /\ once' = once
        /\ \A m \in Loops \ {l} : lpc'[m] = lpc[m] /\ due'[m] = due[m] /\ fired'[m] = fired[m]
    BY <1>1, <1>2 DEF TimerFunctions
  <1>7. OneLiveLoop'
    BY <1>1, <1>6 DEF TimerInv, OneLiveLoop
  <1>8. LoopInv(l)'
    <2>1. Begun(l)'
      BY <1>1, <1>6 DEF LoopInv, Begun, Parses
    <2>2. ASSUME config.form \in OneShot
          PROVE  OneShotLoop(l)'
      BY <2>2, <1>1, <1>4, <1>6 DEF LoopInv, OneShotLoop
    <2>3. ASSUME config.form \in Repeating
          PROVE  RepeatLoop(l)'
      <3>1. LastFire(l)' = LastFire(l) /\ (fires[l] # <<>> => LastFire(l) \in Int)
        BY <1>1, <1>6, TimerInts DEF LastFire
      <3>2. QED
        BY <2>3, <3>1, <1>1, <1>3, <1>4, <1>6 DEF LoopInv, RepeatLoop
    <2>4. QED
      BY <2>1, <2>2, <2>3, <1>1 DEF LoopInv
  <1>9. QED
    BY <1>1, <1>5, <1>6, <1>7, <1>8, OneLoopSteps

\* The select: cancelled, or elapsed.
LEMMA LoopSelectKept ==
  ASSUME TimerInv, NEW l \in Loops, LoopCancelled(l) \/ LoopElapses(l)
  PROVE  TimerInv'
  <1>1. /\ lpc[l] = "select" /\ TimerFunctions /\ LoopInv(l)
        /\ UNCHANGED <<now, config, cancel, tpc, cancelledL, once, fired, due, proc, fires>>
        /\ \/ lpc' = [lpc EXCEPT ![l] = "done"]
           \/ lpc' = [lpc EXCEPT ![l] = "execute"] /\ due[l] <= now
    BY DEF LoopCancelled, LoopElapses, TimerInv
  <1>2. /\ now \in Int /\ config.d \in Int /\ due[l] \in Int
        /\ fires[l] # <<>> => LastFire(l) \in Int
    BY <1>1, TimerInts
  <1>3. TimerFunctions'
    BY <1>1 DEF TimerFunctions
  <1>4. /\ lpc'[l] = "done" \/ (lpc'[l] = "execute" /\ due[l] <= now)
        /\ \A m \in Loops \ {l} : lpc'[m] = lpc[m]
    BY <1>1 DEF TimerFunctions
  <1>5. OneLiveLoop'
    BY <1>1, <1>4 DEF TimerInv, OneLiveLoop
  <1>6. LoopInv(l)'
    <2>1. Begun(l)'
      BY <1>1, <1>4 DEF LoopInv, Begun, Parses
    <2>2. ASSUME config.form \in OneShot
          PROVE  OneShotLoop(l)'
      BY <2>2, <1>1, <1>4 DEF LoopInv, OneShotLoop
    <2>3. ASSUME config.form \in Repeating
          PROVE  RepeatLoop(l)'
      <3>1. LastFire(l)' = LastFire(l)
        BY <1>1 DEF LastFire
      <3>2. QED
        BY <2>3, <3>1, <1>1, <1>2, <1>4 DEF LoopInv, RepeatLoop
    <2>4. QED
      BY <2>1, <2>2, <2>3, <1>1 DEF LoopInv
  <1>7. QED
    BY <1>1, <1>3, <1>4, <1>5, <1>6, OneLoopSteps

\* What Append makes.
LEMMA Appended ==
  \A f \in Seq(Int) : \A t \in Int :
      /\ Append(f, t) \in Seq(Int) /\ Len(Append(f, t)) = Len(f) + 1
      /\ Append(f, t)[Len(f) + 1] = t
      /\ \A i \in 1..Len(f) : Append(f, t)[i] = f[i]
  OBVIOUS

\* The arithmetic of lengths up to two.
LEMMA SmallSums ==
  /\ 0 + 1 = 1 /\ 1 + 1 = 2 /\ 2 - 1 = 1 /\ 1 \in 1..1
  /\ 0 # 1 /\ 0 # 2 /\ 1 # 2
  /\ \A n \in Nat : n <= 2 => n = 0 \/ n = 1 \/ n = 2
  OBVIOUS

\* The history keeps two instants: the newest old one and the new one.
Kept(f, t) == Append(IF Len(f) = 2 THEN Tail(f) ELSE f, t)

\* The length and the elements of the kept history.
LEMMA KeptFires ==
  ASSUME NEW f \in Seq(Int), NEW t \in Int
  PROVE  /\ Kept(f, t) \in Seq(Int) /\ Len(f) \in Nat
         /\ Len(f) = 0 => Len(Kept(f, t)) = 1 /\ Kept(f, t)[1] = t
         /\ Len(f) = 1 => Len(Kept(f, t)) = 2 /\ Kept(f, t)[1] = f[1] /\ Kept(f, t)[2] = t
         /\ Len(f) = 2 => Len(Kept(f, t)) = 2 /\ Kept(f, t)[1] = f[2] /\ Kept(f, t)[2] = t
  <1> DEFINE g == Kept(f, t)
  <1>4. g = Append(IF Len(f) = 2 THEN Tail(f) ELSE f, t)
    BY DEF Kept
  <1> HIDE DEF g
  <1>0. Len(f) \in Nat
    OBVIOUS
  <1>1. CASE Len(f) = 2
    <2>1. f # <<>>
      <3>1. Len(<<>>) = 0
        OBVIOUS
      <3>2. QED
        BY <1>1, <3>1, SmallSums, Zenon
    <2>2. /\ Tail(f) \in Seq(Int) /\ Len(Tail(f)) = Len(f) - 1
          /\ \A i \in 1..Len(Tail(f)) : Tail(f)[i] = f[i + 1]
      BY <2>1, HeadTailProperties
    <2>3. Tail(f) \in Seq(Int) /\ Len(Tail(f)) = 1 /\ Tail(f)[1] = f[2]
      BY <1>1, <2>2
    <2>4. g = Append(Tail(f), t)
      BY <1>1, <1>4
    <2>5. /\ g \in Seq(Int) /\ Len(g) = Len(Tail(f)) + 1 /\ g[Len(Tail(f)) + 1] = t
          /\ \A i \in 1..Len(Tail(f)) : g[i] = Tail(f)[i]
      <3>1. Tail(f) \in Seq(Int)
        BY <2>2
      <3>2. QED
        BY ONLY <3>1, <2>4, t \in Int, Appended, Zenon
    <2>6. Len(g) = 2 /\ g[2] = t /\ g[1] = Tail(f)[1]
      BY <2>3, <2>5, SmallSums, Zenon
    <2>7. QED
      BY <1>0, <1>1, <2>3, <2>5, <2>6, SmallSums, Zenon DEF g
  <1>2. CASE Len(f) # 2
    <2>1. g = Append(f, t)
      BY <1>2, <1>4
    <2>2. /\ g \in Seq(Int) /\ Len(g) = Len(f) + 1 /\ g[Len(f) + 1] = t
          /\ \A i \in 1..Len(f) : g[i] = f[i]
      BY ONLY f \in Seq(Int), <2>1, t \in Int, Appended, Zenon
    <2>3. ASSUME Len(f) = 0
          PROVE  Len(g) = 1 /\ g[1] = t
      BY <2>2, <2>3, SmallSums, Zenon
    <2>4. ASSUME Len(f) = 1
          PROVE  Len(g) = 2 /\ g[1] = f[1] /\ g[2] = t
      BY <2>2, <2>4, SmallSums, Zenon
    <2>5. QED
      BY <1>0, <1>2, <2>2, <2>3, <2>4, Zenon DEF g
  <1>3. QED
    BY <1>1, <1>2, Zenon DEF g

\* execute: the fire is recorded, or nothing was started.
LEMMA ExecuteKept ==
  ASSUME TimerInv, NEW l \in Loops, Execute(l)
  PROVE  TimerInv'
  <1>1. /\ lpc[l] = "execute" /\ TimerFunctions /\ LoopInv(l)
        /\ UNCHANGED <<now, config, cancel, tpc, cancelledL, once, fired>>
    BY DEF Execute, TimerInv
  <1>2. /\ now \in Int /\ config.d \in Int /\ due[l] \in Int /\ once[l] \in Int
        /\ fires[l] \in Seq(Int) /\ (fires[l] # <<>> => LastFire(l) \in Int)
    BY <1>1, TimerInts
  <1>3. CASE lpc' = [lpc EXCEPT ![l] = "next"] /\ UNCHANGED <<proc, due, fires>>
    <2>1. TimerFunctions'
      BY <1>1, <1>3 DEF TimerFunctions
    <2>2. lpc'[l] = "next" /\ \A m \in Loops \ {l} : lpc'[m] = lpc[m]
      BY <1>1, <1>3 DEF TimerFunctions
    <2>3. OneLiveLoop'
      BY <1>1, <2>2 DEF TimerInv, OneLiveLoop
    <2>4. LoopInv(l)'
      <3>1. Begun(l)'
        BY <1>1, <2>2 DEF LoopInv, Begun, Parses
      <3>2. ASSUME config.form \in OneShot
            PROVE  OneShotLoop(l)'
        BY <3>2, <1>1, <1>3, <2>2 DEF LoopInv, OneShotLoop
      <3>3. ASSUME config.form \in Repeating
            PROVE  RepeatLoop(l)'
        <4>1. LastFire(l)' = LastFire(l)
          BY <1>3 DEF LastFire
        <4>2. QED
          BY <3>3, <4>1, <1>1, <1>3, <2>2 DEF LoopInv, RepeatLoop
      <3>4. QED
        BY <3>1, <3>2, <3>3, <1>1 DEF LoopInv
    <2>5. QED
      BY <1>1, <1>3, <2>1, <2>2, <2>3, <2>4, OneLoopSteps
  <1>4. CASE /\ lpc' = [lpc EXCEPT ![l] = "wait"] /\ proc' = [proc EXCEPT ![l] = "runs"]
             /\ due' = [due EXCEPT ![l] = Min(now + FireTimeout, MaxTime)]
             /\ fires' = [fires EXCEPT ![l] =
                             Append(IF Len(fires[l]) = 2 THEN Tail(fires[l]) ELSE fires[l], now)]
    <2> DEFINE g == Kept(fires[l], now)
    <2>1. /\ g \in Seq(Int) /\ Len(fires[l]) \in Nat
          /\ Len(fires[l]) = 0 => Len(g) = 1 /\ g[1] = now
          /\ Len(fires[l]) = 1 => Len(g) = 2 /\ g[1] = fires[l][1] /\ g[2] = now
          /\ Len(fires[l]) = 2 => Len(g) = 2 /\ g[1] = fires[l][2] /\ g[2] = now
      BY ONLY <1>2, KeptFires, Zenon
    <2>2. fires' = [fires EXCEPT ![l] = g]
      BY <1>4 DEF Kept
    <2> HIDE DEF g
    <2>4. Min(now + FireTimeout, MaxTime) \in Int
      BY <1>2, TimerAssumption DEF Min
    <2>5. /\ lpc'[l] = "wait" /\ fires'[l] = g
          /\ \A m \in Loops \ {l} : /\ lpc'[m] = lpc[m] /\ fires'[m] = fires[m]
                                    /\ due'[m] = due[m]
      BY <1>1, <1>4, <2>2 DEF TimerFunctions
    <2>6. TimerFunctions'
      <3>1. /\ lpc' \in [Loops -> {"none", "next", "select", "execute", "wait", "done"}]
            /\ proc' \in [Loops -> {"none", "runs"}] /\ due' \in [Loops -> Int]
            /\ \A m \in Loops : proc'[m] = "runs" => lpc'[m] = "wait"
        BY <1>1, <1>4, <2>4 DEF TimerFunctions
      <3>2. fires' \in [Loops -> Seq(Int)]
        BY <1>1, <2>1, <2>2 DEF TimerFunctions
      <3>3. QED
        BY <1>1, <3>1, <3>2 DEF TimerFunctions
    <2>7. OneLiveLoop'
      BY <1>1, <2>5 DEF TimerInv, OneLiveLoop
    <2>8. Begun(l)'
      BY <1>1, <2>5 DEF LoopInv, Begun, Parses
    <2>9. ASSUME config.form \in OneShot
          PROVE  OneShotLoop(l)'
      <3>1. fires[l] = <<>> /\ fired[l] /\ once[l] <= now
        BY <2>9, <1>1 DEF LoopInv, OneShotLoop
      <3>2. Len(fires[l]) = 0
        BY <3>1
      <3>3. Len(g) = 1 /\ g[1] = now
        BY <2>1, <3>2, Zenon
      <3>5. Len(g) <= 1
        BY <3>3
      <3>4. QED
        BY <1>1, <1>2, <2>5, <3>1, <3>3, <3>5 DEF OneShotLoop
    <2>10. ASSUME config.form \in Repeating
           PROVE  RepeatLoop(l)'
      <3>1. /\ Len(fires[l]) <= 2
            /\ fires[l] # <<>> => now >= LastFire(l) + config.d
        BY <2>10, <1>1, <1>2 DEF LoopInv, RepeatLoop
      <3>2. Len(fires[l]) = 0 \/ Len(fires[l]) = 1 \/ Len(fires[l]) = 2
        <4>1. Len(fires[l]) \in Nat /\ Len(fires[l]) <= 2
          BY <2>1, <3>1
        <4>2. QED
          BY ONLY <4>1, SmallSums, Zenon
      <3>3. Len(g) \in {1, 2} /\ g[Len(g)] = now
        BY <2>1, <3>2
      <3>4. ASSUME Len(g) = 2
            PROVE  g[2] = now /\ now - g[1] >= config.d
        <4>1. g[2] = now /\ fires[l] # <<>> /\ g[1] = LastFire(l)
          BY <2>1, <3>2, <3>4 DEF LastFire
        <4>2. QED
          BY <1>2, <3>1, <4>1
      <3>5. LastFire(l)' = now
        BY <2>5, <3>3 DEF LastFire
      <3>6. QED
        BY <1>1, <1>2, <2>5, <3>3, <3>4, <3>5 DEF RepeatLoop
    <2>11. QED
      BY <1>1, <2>5, <2>6, <2>7, <2>8, <2>9, <2>10, OneLoopSteps DEF LoopInv
  <1>5. QED
    BY <1>3, <1>4 DEF Execute

\* The fire is over.
LEMMA ProcExitsKept ==
  ASSUME TimerInv, NEW l \in Loops, ProcExits(l)
  PROVE  TimerInv'
  <1>1. /\ lpc[l] = "wait" /\ TimerFunctions /\ LoopInv(l)
        /\ proc' = [proc EXCEPT ![l] = "none"] /\ lpc' = [lpc EXCEPT ![l] = "next"]
        /\ UNCHANGED <<now, config, cancel, tpc, cancelledL, once, fired, due, fires>>
    BY DEF ProcExits, TimerInv, TimerFunctions
  <1>2. TimerFunctions'
    BY <1>1 DEF TimerFunctions
  <1>3. lpc'[l] = "next" /\ \A m \in Loops \ {l} : lpc'[m] = lpc[m]
    BY <1>1 DEF TimerFunctions
  <1>4. OneLiveLoop'
    BY <1>1, <1>3 DEF TimerInv, OneLiveLoop
  <1>5. LoopInv(l)'
    <2>1. Begun(l)'
      BY <1>1, <1>3 DEF LoopInv, Begun, Parses
    <2>2. ASSUME config.form \in OneShot
          PROVE  OneShotLoop(l)'
      BY <2>2, <1>1, <1>3 DEF LoopInv, OneShotLoop
    <2>3. ASSUME config.form \in Repeating
          PROVE  RepeatLoop(l)'
      <3>1. LastFire(l)' = LastFire(l)
        BY <1>1 DEF LastFire
      <3>2. QED
        BY <2>3, <3>1, <1>1, <1>3 DEF LoopInv, RepeatLoop
    <2>4. QED
      BY <2>1, <2>2, <2>3, <1>1 DEF LoopInv
  <1>6. QED
    BY <1>1, <1>2, <1>3, <1>4, <1>5, OneLoopSteps

\* Start: a fresh loop, or an error.
LEMMA TimerStartKept ==
  ASSUME TimerInv, NEW c \in TimerCallers, TimerStart(c)
  PROVE  TimerInv'
  <1>1. TimerFunctions /\ config' = config /\ now' = now /\ cancelledL' = cancelledL
    BY DEF TimerInv, TimerStart
  <1>2. now \in Int /\ now' >= now /\ now' \in Int
    BY <1>1 DEF TimerFunctions
  <1>3. CASE UNCHANGED <<cancel, loopVars>>
    <2>1. UNCHANGED <<cancel, lpc, once, fired, due, proc, fires>>
      BY <1>3 DEF loopVars
    <2>2. \A m \in Loops : LoopInv(m)'
      BY <1>1, <1>2, <2>1, RestingLoop DEF TimerInv
    <2>3. TimerFunctions' /\ OneLiveLoop'
      BY <1>1, <2>1 DEF TimerInv, TimerFunctions, OneLiveLoop
    <2>4. QED
      BY <2>2, <2>3 DEF TimerInv
  <1>4. CASE Startable /\ StartLoop
    <2>1. PICK l \in Loops :
             /\ lpc[l] = "none" /\ cancel' = l
             /\ lpc' = [lpc EXCEPT ![l] = "next"]
             /\ once' = [once EXCEPT ![l] = OnceAt(config)]
             /\ UNCHANGED <<fired, due, proc, fires>>
      BY <1>4 DEF StartLoop
    <2>2. cancel = 0 /\ Parses(config) /\ OnceAt(config) \in Int
      BY <1>1, <1>4, OnceAtInt DEF Startable
    <2>3. TimerFunctions'
      <3>1. cancel' \in Nat
        BY <2>1, TimerAssumption DEF Loops
      <3>2. QED
        BY <1>1, <2>1, <2>2, <3>1 DEF TimerFunctions
    <2>4. /\ lpc'[l] = "next" /\ fires'[l] = fires[l] /\ fired'[l] = fired[l]
          /\ \A m \in Loops \ {l} : lpc'[m] = lpc[m] /\ once'[m] = once[m]
      BY <1>1, <2>1 DEF TimerFunctions
    <2>5. OneLiveLoop'
      <3>1. 0 \notin Loops
        BY TimerAssumption DEF Loops
      <3>2. QED
        BY <1>1, <2>1, <2>2, <2>4, <3>1 DEF TimerInv, OneLiveLoop
    <2>6. fires[l] = <<>> /\ ~fired[l] /\ Len(fires'[l]) = 0 /\ fires'[l] = <<>>
      BY <2>1, <2>4 DEF TimerInv, LoopInv, Begun
    <2>7. LoopInv(l)'
      <3>1. Begun(l)'
        BY <1>1, <2>2, <2>4, <2>6 DEF Begun, Parses
      <3>2. OneShotLoop(l)'
        BY <2>4, <2>6 DEF OneShotLoop
      <3>3. RepeatLoop(l)'
        BY <2>4, <2>6 DEF RepeatLoop
      <3>4. QED
        BY <3>1, <3>2, <3>3 DEF LoopInv
    <2>8. QED
      BY <1>1, <2>1, <2>3, <2>4, <2>5, <2>7, OneLoopSteps
  <1>5. QED
    BY <1>3, <1>4 DEF TimerStart

\* Stop: the loop it finds is cancelled.
LEMMA TimerStopKept ==
  ASSUME TimerInv, NEW c \in TimerCallers, NEW next \in {"idle", "reload"}, TimerStop(c, next)
  PROVE  TimerInv'
  <1>1. /\ TimerFunctions /\ cancel' = 0 /\ cancelledL' = cancelledL \cup ({cancel} \ {0})
        /\ UNCHANGED <<now, config, lpc, once, fired, due, proc, fires>>
    BY DEF TimerInv, TimerStop, loopVars
  <1>2. now \in Int /\ now' >= now /\ now' \in Int
    BY <1>1 DEF TimerFunctions
  <1>3. \A m \in Loops : LoopInv(m)'
    BY <1>1, <1>2, RestingLoop DEF TimerInv
  <1>4. TimerFunctions'
    BY <1>1 DEF TimerFunctions
  <1>5. OneLiveLoop'
    <2>1. 0 \notin Loops
      BY TimerAssumption DEF Loops
    <2>2. QED
      BY <1>1, <2>1 DEF TimerInv, OneLiveLoop
  <1>6. QED
    BY <1>3, <1>4, <1>5 DEF TimerInv

\* Time passes.
LEMMA TickKept ==
  ASSUME TimerInv, Tick
  PROVE  TimerInv'
  <1>1. /\ TimerFunctions /\ now' = now + 1
        /\ UNCHANGED <<config, cancel, cancelledL, lpc, once, fired, due, proc, fires>>
    BY DEF TimerInv, Tick, loopVars
  <1>2. now \in Int /\ now' >= now /\ now' \in Int
    BY <1>1 DEF TimerFunctions
  <1>3. \A m \in Loops : LoopInv(m)'
    BY <1>1, <1>2, RestingLoop DEF TimerInv
  <1>4. TimerFunctions' /\ OneLiveLoop'
    BY <1>1, <1>2 DEF TimerInv, TimerFunctions, OneLiveLoop
  <1>5. QED
    BY <1>3, <1>4 DEF TimerInv

\* The timer's inductive invariant.
LEMMA TimerInvariant == TimerSpec => []TimerInv
  <1>1. TimerInit => TimerInv
    <2>1. SUFFICES ASSUME TimerInit PROVE TimerInv
      OBVIOUS
    <2>2. Never \in Int
      BY DEF Never
    <2>3. TimerFunctions
      BY <2>1, <2>2 DEF TimerInit, TimerFunctions
    <2>4. OneLiveLoop
      BY <2>1 DEF TimerInit, OneLiveLoop
    <2>5. ASSUME NEW l \in Loops
          PROVE  LoopInv(l)
      <3>1. lpc[l] = "none" /\ ~fired[l] /\ fires[l] = <<>> /\ Len(fires[l]) = 0
        BY <2>1 DEF TimerInit
      <3>2. Begun(l)
        BY <3>1 DEF Begun
      <3>3. OneShotLoop(l)
        BY <3>1 DEF OneShotLoop
      <3>4. RepeatLoop(l)
        BY <3>1 DEF RepeatLoop
      <3>5. QED
        BY <3>2, <3>3, <3>4 DEF LoopInv
    <2>6. QED
      BY <2>3, <2>4, <2>5 DEF TimerInv
  <1>2. TimerInv /\ [TimerNext]_timerVars => TimerInv'
    <2>1. SUFFICES ASSUME TimerInv, [TimerNext]_timerVars PROVE TimerInv'
      OBVIOUS
    <2>2. CASE Tick
      BY <2>1, <2>2, TickKept
    <2>3. CASE \E l \in Loops : LoopStep(l) \/ ProcExits(l)
      BY <2>1, <2>3, LoopNextKept, LoopSelectKept, ExecuteKept, ProcExitsKept DEF LoopStep
    <2>4. CASE \E c \in TimerCallers :
                 TimerStart(c) \/ \E next \in {"idle", "reload"} : TimerStop(c, next)
      BY <2>1, <2>4, TimerStartKept, TimerStopKept
    <2>5. CASE UNCHANGED timerVars
      <3>1. /\ TimerFunctions
            /\ UNCHANGED <<now, config, cancel, cancelledL, lpc, once, fired, due, proc, fires>>
        BY <2>1, <2>5 DEF TimerInv, timerVars, loopVars
      <3>2. now \in Int /\ now' >= now /\ now' \in Int
        BY <3>1 DEF TimerFunctions
      <3>3. \A m \in Loops : LoopInv(m)'
        BY <2>1, <3>1, <3>2, RestingLoop DEF TimerInv
      <3>4. TimerFunctions' /\ OneLiveLoop'
        BY <2>1, <3>1 DEF TimerInv, TimerFunctions, OneLiveLoop
      <3>5. QED
        BY <3>3, <3>4 DEF TimerInv
    <2>6. QED
      BY <2>1, <2>2, <2>3, <2>4, <2>5 DEF TimerNext
  <1>3. QED
    BY <1>1, <1>2, PTL DEF TimerSpec

\* However many callers start, stop and reload the timer, and however often,
\* at most one loop is not cancelled, and it is the one the next Stop finds.
THEOREM TimerOneLiveLoop == TimerSpec => []OneLiveLoop
  <1>1. TimerInv => OneLiveLoop
    BY DEF TimerInv
  <1>2. QED
    BY <1>1, TimerInvariant, PTL

\* Whatever the schedule: a one-shot fires at most once and never before its
\* instant, and two fires of an interval are at least that interval apart.
THEOREM TimerFiresAreDue == TimerSpec => []FiresAreDue
  <1>1. TimerInv => FiresAreDue
    <2>1. SUFFICES ASSUME TimerInv, NEW l \in Loops
                   PROVE  /\ config.form \in OneShot =>
                             /\ Len(fires[l]) <= 1
                             /\ \A k \in 1..Len(fires[l]) : fires[l][k] >= once[l]
                          /\ config.form \in Repeating /\ Len(fires[l]) = 2 =>
                             fires[l][2] - fires[l][1] >= config.d /\ config.d > 0
      BY DEF FiresAreDue
    <2>2. fires[l] \in Seq(Int) /\ LoopInv(l)
      BY <2>1, TimerInts DEF TimerInv
    <2>3. ASSUME config.form \in OneShot
          PROVE  Len(fires[l]) <= 1 /\ \A k \in 1..Len(fires[l]) : fires[l][k] >= once[l]
      <3>1. /\ Len(fires[l]) <= 1
            /\ fires[l] # <<>> => fires[l][1] >= once[l]
        BY <2>2, <2>3 DEF LoopInv, OneShotLoop
      <3>2. ASSUME NEW k \in 1..Len(fires[l])
            PROVE  fires[l][k] >= once[l]
        <4>1. k = 1 /\ fires[l] # <<>>
          BY <2>2, <3>1, <3>2
        <4>2. QED
          BY <3>1, <4>1
      <3>3. QED
        BY <3>1, <3>2
    <2>4. ASSUME config.form \in Repeating, Len(fires[l]) = 2
          PROVE  fires[l][2] - fires[l][1] >= config.d /\ config.d > 0
      <3>1. fires[l][2] - fires[l][1] >= config.d
        BY <2>2, <2>4, Zenon DEF LoopInv, RepeatLoop
      <3>2. fires[l] # <<>>
        <4>1. Len(<<>>) = 0
          OBVIOUS
        <4>2. QED
          BY <2>4, <4>1, SmallSums, Zenon
      <3>3. config.d > 0
        BY <2>2, <2>4, <3>2 DEF LoopInv, Begun, Parses, UsableInterval
      <3>4. QED
        BY <3>1, <3>3
    <2>5. QED
      BY <2>3, <2>4, Zenon
  <1>2. QED
    BY <1>1, TimerInvariant, PTL

-----------------------------------------------------------------------------
(* The adopted process.                                                    *)

\* Process numbers: those at a PID are alive there and nowhere else.
KernelInv ==
    /\ \A p \in Pids : at[p] # 0 => at[p] <= born /\ pst[at[p]] \in {"runs", "zombie"}
    /\ \A p, q \in Pids : at[p] = at[q] /\ at[p] # 0 => p = q
    /\ \A i \in Procs : i > born => pst[i] = "none"

\* What is claimed was recorded, once, by an adopt.
ClaimInv ==
    /\ claim.epoch # 0 => claim.epoch \in recorded
    /\ \A s \in Stoppers : tgt[s].epoch # 0 => tgt[s].epoch \in recorded
    /\ \A e \in recorded : e <= born
    /\ claim.pid = 0 => claim.epoch = 0
    /\ rpc # "idle" => rpid \in Pids /\ at[rpid] \notin recorded
    /\ \A s \in Stoppers : spc[s] \in {"idle", "leaving"} => tgt[s].epoch = 0
    /\ \A s \in Stoppers : spc[s] \notin {"idle", "leaving"} => tgt[s].pid \in Pids

\* Between the check and the second check the process a Stop took is where it
\* was, or gone for good; so the one that is pinned is the one it took.
Pinned(s) ==
    /\ spc[s] \in {"pin", "recheck", "send"} => tgt[s].epoch # 0
    /\ spc[s] = "pin" => at[tgt[s].pid] = tgt[s].epoch \/ pst[tgt[s].epoch] = "gone"
    /\ spc[s] = "recheck" => fd[s] = tgt[s].epoch \/ pst[tgt[s].epoch] = "gone"
    /\ spc[s] = "send" => fd[s] = tgt[s].epoch

PinInv == \A s \in Stoppers : Pinned(s)

\* A published process is not claimed, and no Stop holds it; two Stops hold one
\* process, or one of two holds the claimed one, only when the second took it
\* with the first under way; a Stop that holds the claimed process alone keeps
\* the watcher from publishing it.
EndInv ==
    /\ \A e \in Procs : ended[e] > 0 => e \in recorded /\ e # claim.epoch
    /\ \A s \in Stoppers :
          tgt[s].epoch \notin {0} \cup overlapped => ~(ended[tgt[s].epoch] > 0)
    /\ \A s, u \in Stoppers :
          s # u /\ tgt[s].epoch = tgt[u].epoch => tgt[s].epoch \in {0} \cup overlapped
    /\ \A s, u \in Stoppers :
          s # u /\ Stopping(u) /\ tgt[s].epoch = claim.epoch
             => tgt[s].epoch \in {0} \cup overlapped
    /\ \A s \in Stoppers :
          tgt[s].epoch = claim.epoch /\ tgt[s].epoch \notin {0} \cup overlapped => stopping

AdoptInv ==
    /\ AdoptTypeOK /\ KernelInv /\ ClaimInv /\ PinInv /\ EndInv
    /\ SignalHitsRecorded /\ EndedOnce

\* Facts about numbers and claims that every step uses.
LEMMA AdoptFacts ==
  ASSUME AdoptTypeOK
  PROVE  /\ 0 \notin Pids /\ 0 \notin Procs /\ 0 \in Epochs /\ Procs \subseteq Epochs
         /\ \A e \in Epochs : e # 0 => e \in Procs
         /\ Epochs \subseteq Nat /\ Procs \subseteq Nat /\ born \in Nat
         /\ claim.pid \in Pids \cup {0} /\ claim.epoch \in Epochs
         /\ \A s \in Stoppers : tgt[s].pid \in Pids \cup {0} /\ tgt[s].epoch \in Epochs
         /\ NoClaim \in Claims /\ NoClaim.pid = 0 /\ NoClaim.epoch = 0
  BY AdoptAssumption DEF AdoptTypeOK, Epochs, Procs, Claims, NoClaim

\* A new process, forked or restored, at a free PID.
LEMMA OccupyKept ==
  ASSUME AdoptInv, NEW p \in Pids, Occupy(p),
         UNCHANGED <<agent, watchers, rprev, stopper, dpid, history>>,
         \/ UNCHANGED <<rpc, rpid>>
         \/ rpc' = "restored" /\ rpid' = p
  PROVE  AdoptInv'
  <1>1. /\ born < MaxProcs /\ at[p] = 0 /\ born' = born + 1
        /\ at' = [at EXCEPT ![p] = born + 1] /\ pst' = [pst EXCEPT ![born + 1] = "runs"]
        /\ UNCHANGED <<pending, claim, stopping, watch, wpc, wpid, cancelled, rprev, spc, tgt,
                       sprev, sig, fd, result, dpid, recorded, signalled, ended, overlapped>>
    BY DEF Occupy, agent, watchers, stopper, history
  <1>2. /\ AdoptTypeOK /\ KernelInv /\ ClaimInv /\ PinInv /\ EndInv
        /\ SignalHitsRecorded /\ EndedOnce
    BY DEF AdoptInv
  <1>3. born \in Nat /\ born + 1 \in Procs /\ born + 1 \in Epochs
    BY <1>1, <1>2, AdoptAssumption DEF AdoptTypeOK, Epochs, Procs
  <1>4. /\ at'[p] = born + 1 /\ \A q \in Pids : q # p => at'[q] = at[q]
        /\ pst'[born + 1] = "runs" /\ \A i \in Procs : i # born + 1 => pst'[i] = pst[i]
        /\ \A q \in Pids : at[q] \in Nat
    BY <1>1, <1>2, <1>3 DEF AdoptTypeOK, Epochs
  <1>5. AdoptTypeOK'
    BY <1>1, <1>2, <1>3 DEF AdoptTypeOK
  <1>6. KernelInv'
    <2>1. ASSUME NEW q \in Pids, at'[q] # 0
          PROVE  at'[q] <= born' /\ pst'[at'[q]] \in {"runs", "zombie"}
      <3>1. CASE q = p
        BY <1>1, <1>3, <1>4, <3>1
      <3>2. CASE q # p
        <4>1. at'[q] = at[q] /\ at[q] <= born /\ pst[at[q]] \in {"runs", "zombie"}
          BY <1>2, <1>4, <2>1, <3>2 DEF KernelInv
        <4>2. at[q] \in Procs /\ at[q] # born + 1
          BY <1>2, <1>3, <1>4, <2>1, <4>1, AdoptFacts DEF AdoptTypeOK
        <4>3. QED
          BY <1>1, <1>3, <1>4, <4>1, <4>2
      <3>3. QED
        BY <3>1, <3>2
    <2>2. \A q, r \in Pids : at'[q] = at'[r] /\ at'[q] # 0 => q = r
      <3>1. \A q \in Pids : at[q] # born + 1
        BY <1>2, <1>3, <1>4 DEF KernelInv
      <3>2. QED
        BY <1>2, <1>4, <3>1 DEF KernelInv
    <2>3. \A i \in Procs : i > born' => pst'[i] = "none"
      BY <1>1, <1>2, <1>3, <1>4 DEF KernelInv, Procs
    <2>4. QED
      BY <2>1, <2>2, <2>3 DEF KernelInv
  <1>7. \A e \in recorded : e <= born /\ e # born + 1 /\ e \in Procs
    BY <1>2, <1>3, AdoptFacts DEF ClaimInv, AdoptTypeOK
  <1>8. ClaimInv'
    <2>1. born + 1 \notin recorded
      BY <1>7
    <2>2. rpc' # "idle" => rpid' \in Pids /\ at'[rpid'] \notin recorded
      BY <1>2, <1>4, <2>1 DEF ClaimInv
    <2>3. \A e \in recorded : e <= born'
      BY <1>1, <1>3, <1>7, AdoptAssumption DEF Procs
    <2>4. QED
      BY <1>1, <1>2, <2>2, <2>3 DEF ClaimInv
  <1>9. PinInv'
    <2>1. SUFFICES ASSUME NEW s \in Stoppers PROVE Pinned(s)'
      BY DEF PinInv
    <2>2. Pinned(s)
      BY <1>2 DEF PinInv
    <2>3. spc[s] \in {"pin", "recheck", "send"} =>
             /\ tgt[s].epoch \in Procs /\ tgt[s].epoch # born + 1 /\ tgt[s].pid \in Pids
      BY <1>2, <1>7, <2>2 DEF Pinned, ClaimInv
    <2>4. spc[s] = "pin" /\ at[tgt[s].pid] = tgt[s].epoch => at'[tgt[s].pid] = tgt[s].epoch
      BY <1>1, <1>2, <1>3, <1>4, <2>3, AdoptFacts
    <2>5. QED
      BY <1>1, <1>4, <2>2, <2>3, <2>4 DEF Pinned
  <1>10. EndInv' /\ SignalHitsRecorded' /\ EndedOnce'
    BY <1>1, <1>2 DEF EndInv, Stopping, SignalHitsRecorded, EndedOnce
  <1>11. QED
    BY <1>5, <1>6, <1>8, <1>9, <1>10 DEF AdoptInv

\* A process exits, of itself, of a signal or of CRIU's dump.
LEMMA DieKept ==
  ASSUME AdoptInv, NEW i \in Procs, pst[i] = "runs", pst' = [pst EXCEPT ![i] = "zombie"],
         dpid' \in Pids \cup {0},
         UNCHANGED <<born, at, pending, agent, watchers, restorer, stopper, history>>
  PROVE  AdoptInv'
  <1>1. UNCHANGED <<born, at, pending, claim, stopping, watch, wpc, wpid, cancelled, rpc, rpid,
                    rprev, spc, tgt, sprev, sig, fd, result, recorded, signalled, ended, overlapped>>
    BY DEF agent, watchers, restorer, stopper, history
  <1>2. /\ AdoptTypeOK /\ KernelInv /\ ClaimInv /\ PinInv /\ EndInv
        /\ SignalHitsRecorded /\ EndedOnce
    BY DEF AdoptInv
  <1>3. pst'[i] = "zombie" /\ \A j \in Procs : j # i => pst'[j] = pst[j]
    BY <1>2 DEF AdoptTypeOK
  <1>4. AdoptTypeOK'
    BY <1>1, <1>2 DEF AdoptTypeOK
  <1>5. KernelInv'
    <2>1. \A p \in Pids : at[p] # 0 => at[p] \in Procs
      BY <1>2, AdoptFacts DEF AdoptTypeOK
    <2>2. QED
      BY <1>1, <1>2, <1>3, <2>1 DEF KernelInv
  <1>6. ClaimInv'
    BY <1>1, <1>2 DEF ClaimInv
  <1>7. PinInv'
    <2>1. SUFFICES ASSUME NEW s \in Stoppers PROVE Pinned(s)'
      BY DEF PinInv
    <2>2. Pinned(s)
      BY <1>2 DEF PinInv
    <2>3. spc[s] \in {"pin", "recheck"} => tgt[s].epoch \in Procs
      BY <1>2, <2>2, AdoptFacts DEF Pinned
    <2>4. QED
      BY <1>1, <1>2, <1>3, <2>2, <2>3 DEF Pinned
  <1>8. EndInv' /\ SignalHitsRecorded' /\ EndedOnce'
    BY <1>1, <1>2 DEF EndInv, Stopping, SignalHitsRecorded, EndedOnce
  <1>9. QED
    BY <1>4, <1>5, <1>6, <1>7, <1>8 DEF AdoptInv

\* The reap loop frees a PID; the process is gone for good.
LEMMA ReapKept ==
  ASSUME AdoptInv, NEW p \in Pids, Reap(p)
  PROVE  AdoptInv'
  <1>1. /\ at[p] # 0 /\ pst' = [pst EXCEPT ![at[p]] = "gone"] /\ at' = [at EXCEPT ![p] = 0]
        /\ UNCHANGED <<born, pending, claim, stopping, watch, wpc, wpid, cancelled, rpc, rpid,
                    rprev, spc, tgt, sprev, sig, fd, result, dpid, recorded, signalled, ended, overlapped>>
    BY DEF Reap, agent, watchers, restorer, stopper, history
  <1>2. /\ AdoptTypeOK /\ KernelInv /\ ClaimInv /\ PinInv /\ EndInv
        /\ SignalHitsRecorded /\ EndedOnce
    BY DEF AdoptInv
  <1>3. at[p] \in Procs /\ \A q \in Pids : at[q] # 0 => at[q] \in Procs
    BY <1>1, <1>2, AdoptFacts DEF AdoptTypeOK
  <1>4. /\ pst'[at[p]] = "gone" /\ \A j \in Procs : j # at[p] => pst'[j] = pst[j]
        /\ at'[p] = 0 /\ \A q \in Pids : q # p => at'[q] = at[q]
    BY <1>1, <1>2, <1>3 DEF AdoptTypeOK
  <1>5. AdoptTypeOK'
    BY <1>1, <1>2, <1>3, AdoptFacts DEF AdoptTypeOK
  <1>6. KernelInv'
    <2>1. ASSUME NEW q \in Pids, at'[q] # 0
          PROVE  at'[q] <= born' /\ pst'[at'[q]] \in {"runs", "zombie"}
      <3>1. q # p /\ at'[q] = at[q] /\ at[q] # at[p] /\ at[q] \in Procs
        BY <1>2, <1>3, <1>4, <2>1 DEF KernelInv
      <3>2. QED
        BY <1>1, <1>2, <1>4, <2>1, <3>1 DEF KernelInv
    <2>2. \A q, r \in Pids : at'[q] = at'[r] /\ at'[q] # 0 => q = r
      BY <1>2, <1>4 DEF KernelInv
    <2>3. \A i \in Procs : i > born => pst'[i] = "none"
      <3>1. at[p] <= born
        BY <1>1, <1>2 DEF KernelInv
      <3>2. ASSUME NEW i \in Procs, i > born
            PROVE  pst'[i] = "none"
        <4>1. i # at[p]
          BY <1>2, <1>3, <3>1, <3>2, AdoptFacts
        <4>2. QED
          BY <1>2, <1>4, <3>2, <4>1 DEF KernelInv
      <3>3. QED
        BY <3>2
    <2>4. QED
      BY <1>1, <2>1, <2>2, <2>3 DEF KernelInv
  <1>7. ClaimInv'
    <2>1. 0 \notin recorded
      BY <1>2, AdoptFacts DEF AdoptTypeOK
    <2>2. QED
      BY <1>1, <1>2, <1>4, <2>1 DEF ClaimInv
  <1>8. PinInv'
    <2>1. SUFFICES ASSUME NEW s \in Stoppers PROVE Pinned(s)'
      BY DEF PinInv
    <2>2. Pinned(s)
      BY <1>2 DEF PinInv
    <2>3. spc[s] \in {"pin", "recheck"} => tgt[s].epoch \in Procs /\ tgt[s].pid \in Pids
      BY <1>2, <2>2, AdoptFacts DEF Pinned, ClaimInv
    <2>4. QED
      BY <1>1, <1>2, <1>4, <2>2, <2>3 DEF Pinned
  <1>9. EndInv' /\ SignalHitsRecorded' /\ EndedOnce'
    BY <1>1, <1>2 DEF EndInv, Stopping, SignalHitsRecorded, EndedOnce
  <1>10. QED
    BY <1>5, <1>6, <1>7, <1>8, <1>9 DEF AdoptInv

\* A watcher's step: it reports only a claim no Stop has taken.
LEMMA WatchKept ==
  ASSUME AdoptInv, NEW w \in Procs, WatchStep(w)
  PROVE  AdoptInv'
  <1>1. /\ AdoptTypeOK /\ KernelInv /\ ClaimInv /\ PinInv /\ EndInv
        /\ SignalHitsRecorded /\ EndedOnce
    BY DEF AdoptInv
  <1>2. /\ wpc' \in [Procs -> {"none", "poll", "report", "done"}]
        /\ UNCHANGED <<born, at, pst, pending, stopping, watch, wpid, cancelled, rpc, rpid,
                       rprev, spc, tgt, sprev, sig, fd, result, dpid, recorded, signalled,
                       overlapped>>
        /\ \/ UNCHANGED <<claim, ended>>
           \/ Owns(w) /\ claim' = NoClaim /\ ended' = [ended EXCEPT ![w] = @ + 1]
    BY <1>1 DEF WatchStep, WatchSees, WatchCancelled, WatchReports, Publish, AdoptTypeOK,
                kernel, agent, restorer, stopper, history
  <1>3. CASE UNCHANGED <<claim, ended>>
    BY <1>1, <1>2, <1>3
       DEF AdoptInv, AdoptTypeOK, KernelInv, ClaimInv, PinInv, Pinned, EndInv, Stopping,
           SignalHitsRecorded, EndedOnce
  <1>4. CASE Owns(w) /\ claim' = NoClaim /\ ended' = [ended EXCEPT ![w] = @ + 1]
    <2>1. /\ claim.epoch = w /\ ~stopping /\ w # 0 /\ w \in Epochs /\ w \in recorded
          /\ \A s \in Stoppers : tgt[s].epoch = w => w \in overlapped
      BY <1>1, <1>4, AdoptFacts DEF Owns, Watched, ClaimInv, EndInv
    <2>2. claim'.epoch = 0 /\ claim' \in Claims /\ claim'.pid = 0
      BY <1>1, <1>4, AdoptFacts
    <2>3. ended[w] = 0 /\ ended'[w] = 1 /\ \A e \in Epochs : e # w => ended'[e] = ended[e]
      BY <1>1, <1>4, <2>1, AdoptFacts DEF EndInv, AdoptTypeOK
    <2>4. AdoptTypeOK'
      <3>1. ended' \in [Epochs -> Nat]
        BY <1>1, <1>4, <2>1 DEF AdoptTypeOK
      <3>2. QED
        BY <1>1, <1>2, <2>2, <3>1 DEF AdoptTypeOK
    <2>5. ClaimInv'
      BY <1>1, <1>2, <2>2 DEF ClaimInv
    <2>6. EndInv'
      <3>1. \A e \in Procs : ended'[e] > 0 => e \in recorded /\ e # claim'.epoch
        BY <1>1, <2>1, <2>2, <2>3, AdoptFacts DEF EndInv
      <3>2. ASSUME NEW s \in Stoppers, tgt[s].epoch \notin {0} \cup overlapped
            PROVE  ~(ended'[tgt[s].epoch] > 0)
        <4>1. tgt[s].epoch # w /\ tgt[s].epoch \in Epochs
          BY <1>1, <2>1, <3>2, AdoptFacts
        <4>2. QED
          BY <1>1, <2>3, <3>2, <4>1 DEF EndInv
      <3>3. QED
        BY <1>1, <1>2, <2>2, <3>1, <3>2 DEF EndInv, Stopping
    <2>7. EndedOnce'
      BY <1>1, <1>2, <2>1, <2>2, <2>3, AdoptFacts DEF EndedOnce
    <2>8. KernelInv' /\ PinInv' /\ SignalHitsRecorded'
      BY <1>1, <1>2 DEF KernelInv, PinInv, Pinned, SignalHitsRecorded
    <2>9. QED
      BY <2>4, <2>5, <2>6, <2>7, <2>8 DEF AdoptInv
  <1>5. QED
    BY <1>2, <1>3, <1>4

\* adopt: the epoch it records was never recorded before.
LEMMA AdoptStepKept ==
  ASSUME AdoptInv, AdoptStep
  PROVE  AdoptInv'
  <1>1. /\ AdoptTypeOK /\ KernelInv /\ ClaimInv /\ PinInv /\ EndInv
        /\ SignalHitsRecorded /\ EndedOnce
    BY DEF AdoptInv
  <1>2. CASE AdoptRetires
    <2>1. /\ rpc = "restored" /\ rpc' = "adopting" /\ watch' = 0 /\ rprev' = watch
          /\ cancelled' = cancelled \cup ({watch} \ {0})
          /\ UNCHANGED <<born, at, pst, pending, claim, stopping, wpc, wpid, rpid, spc, tgt,
                         sprev, sig, fd, result, dpid, recorded, signalled, ended, overlapped>>
      BY <1>2 DEF AdoptRetires, TakeWatch, kernel, stopper, history
    <2>2. cancelled' \subseteq Procs /\ watch' \in Epochs /\ rprev' \in Epochs
      BY <1>1, <2>1, AdoptFacts DEF AdoptTypeOK
    <2>3. AdoptTypeOK'
      BY <1>1, <2>1, <2>2 DEF AdoptTypeOK
    <2>4. QED
      BY <1>1, <2>1, <2>3
         DEF AdoptInv, KernelInv, ClaimInv, PinInv, Pinned, EndInv, Stopping,
             SignalHitsRecorded, EndedOnce
  <1>3. CASE AdoptRecords
    <2>1. /\ rpc = "adopting" /\ rpc' = "idle" /\ rpid' = 0 /\ rprev' = 0 /\ stopping' = FALSE
          /\ claim' = [pid |-> rpid, epoch |-> at[rpid]]
          /\ recorded' = recorded \cup ({at[rpid]} \ {0})
          /\ UNCHANGED <<born, at, pst, pending, cancelled, spc, tgt, sprev, sig, fd, result,
                         dpid, signalled, ended, overlapped>>
      BY <1>3 DEF AdoptRecords, kernel, stopper
    <2>2. rpid \in Pids /\ at[rpid] \in Epochs /\ at[rpid] \notin recorded
      BY <1>1, <2>1 DEF ClaimInv, AdoptTypeOK
    <2>3. claim'.pid = rpid /\ claim'.epoch = at[rpid] /\ claim' \in Claims
      BY <2>1, <2>2 DEF Claims
    <2>4. AdoptTypeOK'
      <3>1. watch' \in Epochs
        BY <1>1, <1>3, <2>2 DEF AdoptRecords, AdoptTypeOK
      <3>2. /\ wpc' \in [Procs -> {"none", "poll", "report", "done"}]
            /\ wpid' \in [Procs -> Pids \cup {0}]
        BY <1>1, <1>3, <2>2 DEF AdoptRecords, AdoptTypeOK
      <3>3. recorded' \subseteq Procs
        BY <1>1, <2>1, <2>2, AdoptFacts DEF AdoptTypeOK
      <3>4. QED
        BY <1>1, <2>1, <2>3, <3>1, <3>2, <3>3, AdoptFacts DEF AdoptTypeOK
    <2>5. ClaimInv'
      <3>1. /\ claim'.epoch # 0 => claim'.epoch \in recorded'
            /\ recorded \subseteq recorded'
        BY <2>1, <2>3
      <3>2. \A e \in recorded' : e <= born'
        BY <1>1, <2>1, <2>2 DEF ClaimInv, KernelInv
      <3>3. claim'.pid # 0
        BY <1>1, <2>2, <2>3, AdoptFacts
      <3>4. QED
        BY <1>1, <2>1, <3>1, <3>2, <3>3 DEF ClaimInv
    <2>6. EndInv'
      <3>1. \A s \in Stoppers : tgt[s].epoch # 0 => tgt[s].epoch # claim'.epoch
        BY <1>1, <2>2, <2>3 DEF ClaimInv
      <3>2. \A e \in Procs : ended'[e] > 0 => e \in recorded' /\ e # claim'.epoch
        BY <1>1, <2>1, <2>2, <2>3 DEF EndInv
      <3>3. QED
        BY <1>1, <2>1, <3>1, <3>2 DEF EndInv, Stopping
    <2>7. KernelInv' /\ PinInv' /\ SignalHitsRecorded'
      BY <1>1, <2>1 DEF KernelInv, PinInv, Pinned, SignalHitsRecorded
    <2>8. EndedOnce'
      <3>1. \A e \in Procs : ended'[e] > 0 => claim'.epoch # e
        BY <2>6 DEF EndInv
      <3>2. QED
        BY <1>1, <2>1, <3>1 DEF EndedOnce
    <2>9. QED
      BY <2>4, <2>5, <2>6, <2>7, <2>8 DEF AdoptInv
  <1>4. QED
    BY <1>2, <1>3 DEF AdoptStep

\* Stop and Reset: with the claim taken to stop, the agent is stopping, and a
\* Stop that finds another under way marks the claimed process.
LEMMA StopTakesKept ==
  ASSUME AdoptInv, NEW s \in Stoppers, StopAdopted(s) \/ ResetAdopted(s)
  PROVE  AdoptInv'
  <1>1. /\ AdoptTypeOK /\ KernelInv /\ ClaimInv /\ PinInv /\ EndInv
        /\ SignalHitsRecorded /\ EndedOnce
    BY DEF AdoptInv
  <1>2. /\ spc[s] = "idle" /\ watch' = 0 /\ sprev' = [sprev EXCEPT ![s] = watch]
        /\ cancelled' = cancelled \cup ({watch} \ {0})
        /\ UNCHANGED <<born, at, pst, pending, wpc, wpid, rpc, rpid, rprev, sig, fd, result,
                       dpid, recorded, signalled, ended>>
    BY DEF StopAdopted, ResetAdopted, TakeWatch, kernel, restorer, history
  <1>3. /\ tgt[s].epoch = 0 /\ cancelled' \subseteq Procs /\ watch' \in Epochs
        /\ sprev' \in [Stoppers -> Epochs]
    BY <1>1, <1>2, AdoptFacts DEF AdoptTypeOK, ClaimInv
  <1>4. CASE StopAdopted(s)
    <2>1. /\ tgt' = [tgt EXCEPT ![s] = claim] /\ claim' = claim
          /\ \/ /\ claim.pid # 0 /\ stopping' = TRUE
                /\ spc' = [spc EXCEPT ![s] = "joining"]
             \/ /\ claim.pid = 0 /\ stopping' = stopping
                /\ spc' = [spc EXCEPT ![s] = "leaving"]
          /\ overlapped' = IF \E u \in Stoppers : Stopping(u)
                           THEN overlapped \cup ({claim.epoch} \ {0}) ELSE overlapped
      BY <1>4 DEF StopAdopted, Goes
    <2>2. /\ tgt'[s] = claim /\ \A u \in Stoppers : u # s => tgt'[u] = tgt[u]
          /\ spc'[s] \in {"joining", "leaving"}
          /\ \A u \in Stoppers : u # s => spc'[u] = spc[u]
          /\ spc'[s] = "leaving" <=> claim.pid = 0
      BY <1>1, <2>1 DEF AdoptTypeOK
    <2>3. /\ overlapped \subseteq overlapped' /\ overlapped' \subseteq Procs
          /\ \A u \in Stoppers :
               Stopping(u) => claim.epoch \in {0} \cup overlapped'
      <3>1. {claim.epoch} \ {0} \subseteq Procs /\ overlapped \subseteq Procs
        BY <1>1, AdoptFacts DEF AdoptTypeOK
      <3>2. CASE \E u \in Stoppers : Stopping(u)
        BY <2>1, <3>1, <3>2
      <3>3. CASE ~\E u \in Stoppers : Stopping(u)
        BY <2>1, <3>1, <3>3
      <3>4. QED
        BY <3>2, <3>3
    <2>4. AdoptTypeOK'
      <3>1. /\ tgt' \in [Stoppers -> Claims] /\ stopping' \in BOOLEAN
            /\ spc' \in [Stoppers -> {"idle", "joining", "leaving", "check", "pin",
                                      "recheck", "send", "wait", "settle"}]
        BY <1>1, <2>1 DEF AdoptTypeOK
      <3>2. QED
        BY <1>1, <1>2, <1>3, <2>1, <2>3, <3>1 DEF AdoptTypeOK
    <2>5. ClaimInv'
      BY <1>1, <1>2, <2>1, <2>2, AdoptFacts DEF ClaimInv
    <2>6. \A u \in Stoppers : tgt[u].epoch # 0 => Stopping(u)
      BY <1>1, AdoptFacts DEF ClaimInv, Stopping
    <2>7. EndInv'
      <3>1. \A u \in Stoppers :
              tgt'[u].epoch \notin {0} \cup overlapped' => ~(ended'[tgt'[u].epoch] > 0)
        BY <1>1, <1>2, <2>2, <2>3, AdoptFacts DEF EndInv
      <3>2. ASSUME NEW u \in Stoppers, NEW v \in Stoppers, u # v,
                   tgt'[u].epoch = tgt'[v].epoch
            PROVE  tgt'[u].epoch \in {0} \cup overlapped'
        BY <1>1, <2>2, <2>3, <2>6, <3>2 DEF EndInv
      <3>3. ASSUME NEW u \in Stoppers, NEW v \in Stoppers, u # v, tgt'[v].pid # 0,
                   tgt'[u].epoch = claim'.epoch
            PROVE  tgt'[u].epoch \in {0} \cup overlapped'
        <4>1. CASE u = s
          BY <2>1, <2>2, <2>3, <3>3, <4>1 DEF Stopping
        <4>2. CASE u # s
          BY <2>1, <2>2, <2>3, <2>6, <3>3, <4>2
        <4>3. QED
          BY <4>1, <4>2
      <3>4. \A u \in Stoppers : tgt'[u].epoch = claim'.epoch
                                /\ tgt'[u].epoch \notin {0} \cup overlapped' => stopping'
        BY <1>1, <2>1 DEF ClaimInv
      <3>5. QED
        BY <1>1, <1>2, <2>1, <3>1, <3>2, <3>3, <3>4 DEF EndInv, Stopping
    <2>8. PinInv'
      BY <1>1, <1>2, <2>2 DEF PinInv, Pinned
    <2>9. KernelInv' /\ SignalHitsRecorded' /\ EndedOnce'
      BY <1>1, <1>2, <2>1, <2>3 DEF KernelInv, SignalHitsRecorded, EndedOnce
    <2>10. QED
      BY <2>4, <2>5, <2>7, <2>8, <2>9 DEF AdoptInv
  <1>5. CASE ResetAdopted(s)
    <2>1. /\ claim' = NoClaim /\ spc' = [spc EXCEPT ![s] = "leaving"]
          /\ UNCHANGED <<tgt, stopping, overlapped>>
      BY <1>5 DEF ResetAdopted, Goes, history
    <2>2. /\ claim'.epoch = 0 /\ claim'.pid = 0 /\ claim' \in Claims
          /\ spc'[s] = "leaving" /\ \A u \in Stoppers : u # s => spc'[u] = spc[u]
      BY <1>1, <2>1, AdoptFacts DEF AdoptTypeOK
    <2>3. AdoptTypeOK'
      <3>1. spc' \in [Stoppers -> {"idle", "joining", "leaving", "check", "pin",
                                   "recheck", "send", "wait", "settle"}]
        BY <1>1, <2>1 DEF AdoptTypeOK
      <3>2. QED
        BY <1>1, <1>2, <1>3, <2>1, <2>2, <3>1 DEF AdoptTypeOK
    <2>4. ClaimInv' /\ PinInv'
      BY <1>1, <1>2, <1>3, <2>1, <2>2 DEF ClaimInv, PinInv, Pinned
    <2>5. EndInv' /\ EndedOnce'
      BY <1>1, <1>2, <2>1, <2>2, AdoptFacts DEF EndInv, EndedOnce, Stopping
    <2>6. KernelInv' /\ SignalHitsRecorded'
      BY <1>1, <1>2 DEF KernelInv, SignalHitsRecorded
    <2>7. QED
      BY <2>3, <2>4, <2>5, <2>6 DEF AdoptInv
  <1>6. QED
    BY <1>4, <1>5

\* A step of Stop that neither takes a claim nor settles: only its own place,
\* signal, pin and result change, and Pinned is what has to be shown of it.
LEMMA StopPlaceKept ==
  ASSUME AdoptInv, NEW s \in Stoppers, Pinned(s)',
         NEW place \in {"idle", "check", "pin", "recheck", "send", "wait", "settle"},
         Goes(s, place), spc[s] # "idle", place = "idle" <=> spc[s] = "leaving",
         sig' \in [Stoppers -> {"TERM", "KILL"}], fd' \in [Stoppers -> Epochs],
         \A u \in Stoppers : u # s => fd'[u] = fd[u],
         sprev' \in [Stoppers -> Epochs],
         result' \in [Stoppers -> {"none", "exited", "killed", "stale", "failed"}],
         pending' \in [Procs -> SUBSET {"TERM", "KILL"}],
         signalled' \subseteq recorded,
         UNCHANGED <<born, at, pst, agent, watchers, restorer, tgt, dpid, recorded, ended,
                     overlapped>>
  PROVE  AdoptInv'
  <1>1. /\ AdoptTypeOK /\ KernelInv /\ ClaimInv /\ PinInv /\ EndInv
        /\ SignalHitsRecorded /\ EndedOnce
    BY DEF AdoptInv
  <1>2. UNCHANGED <<born, at, pst, claim, stopping, watch, wpc, wpid, cancelled, rpc, rpid,
                    rprev, tgt, dpid, recorded, ended, overlapped>>
    BY DEF agent, watchers, restorer
  <1>3. /\ spc'[s] = place /\ \A u \in Stoppers : u # s => spc'[u] = spc[u]
        /\ spc' \in [Stoppers -> {"idle", "joining", "leaving", "check", "pin",
                                  "recheck", "send", "wait", "settle"}]
    BY <1>1 DEF AdoptTypeOK, Goes
  <1>4. AdoptTypeOK'
    <2>1. signalled' \subseteq Procs
      BY <1>1 DEF AdoptTypeOK
    <2>2. QED
      BY <1>1, <1>2, <1>3, <2>1 DEF AdoptTypeOK
  <1>5. ClaimInv'
    BY <1>1, <1>2, <1>3 DEF ClaimInv
  <1>6. PinInv'
    <2>1. ASSUME NEW u \in Stoppers, u # s PROVE Pinned(u)'
      <3>1. Pinned(u)
        BY <1>1 DEF PinInv
      <3>2. QED
        BY <1>2, <1>3, <2>1, <3>1 DEF Pinned
    <2>2. QED
      BY <2>1 DEF PinInv
  <1>7. KernelInv' /\ EndInv' /\ SignalHitsRecorded' /\ EndedOnce'
    BY <1>1, <1>2 DEF KernelInv, EndInv, SignalHitsRecorded, EndedOnce, Stopping
  <1>8. QED
    BY <1>4, <1>5, <1>6, <1>7 DEF AdoptInv

\* Where Signal's early ends lead.
LEMMA EndsAt ==
  ASSUME AdoptTypeOK, NEW s \in Stoppers, NEW why \in {"gone", "stale", "failed"},
         Ends(s, why)
  PROVE  /\ Goes(s, "wait") \/ Goes(s, "settle")
         /\ result' \in [Stoppers -> {"none", "exited", "killed", "stale", "failed"}]
  BY DEF Ends, Returns, AdoptTypeOK

\* Signal: each place keeps what the last look at the PID established.
LEMMA SignalKept ==
  ASSUME AdoptInv, NEW s \in Stoppers, SignalStep(s)
  PROVE  AdoptInv'
  <1>1. /\ AdoptTypeOK /\ KernelInv /\ ClaimInv /\ Pinned(s) /\ EndInv
        /\ SignalHitsRecorded /\ EndedOnce
    BY DEF AdoptInv, PinInv
  <1>2. /\ sig \in [Stoppers -> {"TERM", "KILL"}] /\ fd \in [Stoppers -> Epochs]
        /\ sprev \in [Stoppers -> Epochs]
        /\ pending \in [Procs -> SUBSET {"TERM", "KILL"}] /\ signalled \subseteq recorded
        /\ result \in [Stoppers -> {"none", "exited", "killed", "stale", "failed"}]
    BY <1>1 DEF AdoptTypeOK, SignalHitsRecorded
  <1>3. ASSUME NEW place, Goes(s, place) PROVE spc'[s] = place
    BY <1>1, <1>3 DEF Goes, AdoptTypeOK
  <1>4. ASSUME NEW next \in {"pin", "send"}, Checks(s, next)
        PROVE  /\ result' \in [Stoppers -> {"none", "exited", "killed", "stale", "failed"}]
               /\ \/ Goes(s, "wait") \/ Goes(s, "settle")
                  \/ Goes(s, next) /\ at[tgt[s].pid] = tgt[s].epoch /\ tgt[s].epoch # 0
    <2>1. CASE Ends(s, "gone") \/ Ends(s, "stale") \/ Ends(s, "failed")
      BY <1>1, <2>1, EndsAt
    <2>2. CASE /\ at[tgt[s].pid] = tgt[s].epoch /\ at[tgt[s].pid] # 0 /\ Goes(s, next)
               /\ UNCHANGED result
      BY <1>2, <2>2
    <2>3. QED
      BY <1>4, <2>1, <2>2 DEF Checks
  <1>5. CASE SignalChecks(s)
    <2>1. /\ spc[s] = "check" /\ Checks(s, "pin")
          /\ UNCHANGED <<kernel, agent, watchers, restorer, tgt, sprev, sig, fd, dpid, history>>
      BY <1>5 DEF SignalChecks
    <2>2. /\ result' \in [Stoppers -> {"none", "exited", "killed", "stale", "failed"}]
          /\ \/ Goes(s, "wait") \/ Goes(s, "settle")
             \/ Goes(s, "pin") /\ at[tgt[s].pid] = tgt[s].epoch /\ tgt[s].epoch # 0
      BY <1>4, <2>1
    <2>3. PICK place \in {"wait", "settle", "pin"} :
             /\ Goes(s, place)
             /\ place = "pin" => at[tgt[s].pid] = tgt[s].epoch /\ tgt[s].epoch # 0
      BY <2>2
    <2>4. Pinned(s)'
      BY <1>3, <2>1, <2>3 DEF Pinned, kernel
    <2>5. QED
      BY <1>2, <2>1, <2>2, <2>3, <2>4, StopPlaceKept DEF kernel, history
  <1>6. CASE SignalPins(s)
    <2>1. /\ spc[s] = "pin" /\ fd' = [fd EXCEPT ![s] = at[tgt[s].pid]]
          /\ UNCHANGED <<kernel, agent, watchers, restorer, tgt, sprev, sig, dpid, history>>
      BY <1>6 DEF SignalPins
    <2>2. /\ result' \in [Stoppers -> {"none", "exited", "killed", "stale", "failed"}]
          /\ Goes(s, "wait") \/ Goes(s, "settle") \/ Goes(s, "recheck")
      BY <1>1, <1>2, <1>6, EndsAt DEF SignalPins
    <2>3. PICK place \in {"wait", "settle", "recheck"} : Goes(s, place)
      BY <2>2
    <2>4. at[tgt[s].pid] \in Epochs
      BY <1>1, <2>1 DEF ClaimInv, AdoptTypeOK
    <2>5. /\ fd' \in [Stoppers -> Epochs] /\ fd'[s] = at[tgt[s].pid]
          /\ \A u \in Stoppers : u # s => fd'[u] = fd[u]
      BY <1>2, <2>1, <2>4
    <2>6. Pinned(s)'
      BY <1>1, <1>3, <2>1, <2>3, <2>5 DEF Pinned, kernel
    <2>7. QED
      BY <1>2, <2>1, <2>2, <2>3, <2>5, <2>6, StopPlaceKept DEF kernel, history
  <1>7. CASE SignalRechecks(s)
    <2>1. /\ spc[s] = "recheck" /\ Checks(s, "send")
          /\ UNCHANGED <<kernel, agent, watchers, restorer, tgt, sprev, sig, fd, dpid, history>>
      BY <1>7 DEF SignalRechecks
    <2>2. /\ result' \in [Stoppers -> {"none", "exited", "killed", "stale", "failed"}]
          /\ \/ Goes(s, "wait") \/ Goes(s, "settle")
             \/ Goes(s, "send") /\ at[tgt[s].pid] = tgt[s].epoch /\ tgt[s].epoch # 0
      BY <1>4, <2>1
    <2>3. PICK place \in {"wait", "settle", "send"} :
             /\ Goes(s, place)
             /\ place = "send" => at[tgt[s].pid] = tgt[s].epoch /\ tgt[s].epoch # 0
      BY <2>2
    <2>4. place = "send" => pst[tgt[s].epoch] # "gone"
      BY <1>1, <2>1, <2>3 DEF KernelInv, ClaimInv
    <2>5. Pinned(s)'
      BY <1>1, <1>3, <2>1, <2>3, <2>4 DEF Pinned, kernel
    <2>6. QED
      BY <1>2, <2>1, <2>2, <2>3, <2>5, StopPlaceKept DEF kernel, history
  <1>8. CASE SignalSends(s)
    <2>1. /\ spc[s] = "send"
          /\ UNCHANGED <<born, at, pst, agent, watchers, restorer, tgt, sprev, sig, fd, dpid,
                         recorded, ended, overlapped>>
      BY <1>8 DEF SignalSends
    <2>2. fd[s] = tgt[s].epoch /\ fd[s] \in Procs /\ fd[s] \in recorded
      BY <1>1, <2>1, AdoptFacts DEF Pinned, ClaimInv
    <2>3. /\ result' \in [Stoppers -> {"none", "exited", "killed", "stale", "failed"}]
          /\ Goes(s, "wait") \/ Goes(s, "settle")
      BY <1>1, <1>2, <1>8, EndsAt DEF SignalSends
    <2>4. PICK place \in {"wait", "settle"} : Goes(s, place)
      BY <2>3
    <2>5. /\ pending' \in [Procs -> SUBSET {"TERM", "KILL"}] /\ signalled' \subseteq recorded
      BY <1>2, <1>8, <2>2 DEF SignalSends
    <2>6. Pinned(s)'
      BY <1>3, <2>4 DEF Pinned
    <2>7. QED
      BY <1>2, <2>1, <2>3, <2>4, <2>5, <2>6, StopPlaceKept
  <1>9. QED
    BY <1>5, <1>6, <1>7, <1>8 DEF SignalStep

\* The joins and waits of Stop.
LEMMA StopWaitsKept ==
  ASSUME AdoptInv, NEW s \in Stoppers, StopJoins(s) \/ StopWaits(s)
  PROVE  AdoptInv'
  <1>1. /\ AdoptTypeOK /\ SignalHitsRecorded /\ 0 \in Epochs
    BY AdoptFacts DEF AdoptInv
  <1>2. /\ spc[s] \in {"joining", "leaving", "wait"}
        /\ \/ Goes(s, "idle") /\ spc[s] = "leaving"
           \/ (Goes(s, "check") \/ Goes(s, "settle")) /\ spc[s] # "leaving"
    BY DEF StopJoins, StopWaits
  <1>3. /\ sprev' \in [Stoppers -> Epochs] /\ sig' \in [Stoppers -> {"TERM", "KILL"}]
        /\ result' \in [Stoppers -> {"none", "exited", "killed", "stale", "failed"}]
        /\ UNCHANGED <<kernel, agent, watchers, restorer, tgt, fd, dpid, history>>
    BY <1>1 DEF StopJoins, StopWaits, Returns, AdoptTypeOK
  <1>4. PICK place \in {"idle", "check", "settle"} :
           Goes(s, place) /\ (place = "idle" <=> spc[s] = "leaving")
    BY <1>2
  <1>5. Pinned(s)'
    <2>1. spc'[s] = place
      BY <1>1, <1>4 DEF Goes, AdoptTypeOK
    <2>2. QED
      BY <2>1 DEF Pinned
  <1>6. /\ fd' \in [Stoppers -> Epochs] /\ pending' \in [Procs -> SUBSET {"TERM", "KILL"}]
        /\ signalled' \subseteq recorded /\ \A u \in Stoppers : u # s => fd'[u] = fd[u]
    BY <1>1, <1>3 DEF kernel, history, AdoptTypeOK, SignalHitsRecorded
  <1>7. QED
    BY <1>2, <1>3, <1>4, <1>5, <1>6, StopPlaceKept DEF kernel, history

\* The end of Stop: the process it took was not published before, unless it was
\* taken with another Stop under way; and a Stop that fails, which lets the
\* watchers report again, leaves no other Stop alone with the claim.
LEMMA StopSettlesKept ==
  ASSUME AdoptInv, NEW s \in Stoppers, StopSettles(s)
  PROVE  AdoptInv'
  <1>1. /\ AdoptTypeOK /\ KernelInv /\ ClaimInv /\ PinInv /\ EndInv
        /\ SignalHitsRecorded /\ EndedOnce
    BY DEF AdoptInv
  <1>2. /\ spc[s] = "settle" /\ spc' = [spc EXCEPT ![s] = "idle"]
        /\ tgt' = [tgt EXCEPT ![s] = NoClaim] /\ result' = [result EXCEPT ![s] = "none"]
        /\ sig' = [sig EXCEPT ![s] = "TERM"] /\ fd' = [fd EXCEPT ![s] = 0]
        /\ UNCHANGED <<born, at, pst, pending, watch, wpc, wpid, cancelled, rpc, rpid, rprev,
                       sprev, dpid, recorded, signalled, overlapped>>
        /\ \/ stopping' = FALSE /\ UNCHANGED <<claim, ended>>
           \/ /\ claim' = NoClaim /\ UNCHANGED stopping
              /\ ended' = [ended EXCEPT ![tgt[s].epoch] = @ + 1]
    BY DEF StopSettles, Goes, Returns, Publish, kernel, watchers, restorer
  <1>3. /\ tgt'[s].epoch = 0 /\ tgt'[s].pid = 0
        /\ \A u \in Stoppers : u # s => tgt'[u] = tgt[u]
        /\ spc'[s] = "idle" /\ \A u \in Stoppers : u # s => spc'[u] = spc[u]
        /\ \A u \in Stoppers : u # s => fd'[u] = fd[u]
    BY <1>1, <1>2, AdoptFacts DEF AdoptTypeOK
  <1>4. 0 \in Epochs /\ tgt[s].epoch \in Epochs /\ tgt[s].pid # 0 /\ 0 \notin Procs
    BY <1>1, <1>2, AdoptFacts DEF ClaimInv
  <1>5. /\ tgt' \in [Stoppers -> Claims] /\ fd' \in [Stoppers -> Epochs]
        /\ sig' \in [Stoppers -> {"TERM", "KILL"}]
        /\ result' \in [Stoppers -> {"none", "exited", "killed", "stale", "failed"}]
        /\ spc' \in [Stoppers -> {"idle", "joining", "leaving", "check", "pin",
                                  "recheck", "send", "wait", "settle"}]
    BY <1>1, <1>2, <1>4, AdoptFacts DEF AdoptTypeOK
  <1>6. KernelInv' /\ PinInv' /\ SignalHitsRecorded'
    BY <1>1, <1>2, <1>3 DEF KernelInv, PinInv, Pinned, SignalHitsRecorded
  <1>7. CASE stopping' = FALSE /\ UNCHANGED <<claim, ended>>
    <2>1. AdoptTypeOK'
      BY <1>1, <1>2, <1>5, <1>7 DEF AdoptTypeOK
    <2>2. ClaimInv' /\ EndedOnce'
      BY <1>1, <1>2, <1>3, <1>7 DEF ClaimInv, EndedOnce
    <2>3. \A u \in Stoppers : tgt'[u].epoch = claim.epoch => tgt'[u].epoch \in {0} \cup overlapped
      BY <1>1, <1>3, <1>4 DEF EndInv, Stopping
    <2>4. EndInv'
      BY <1>1, <1>2, <1>3, <1>7, <2>3 DEF EndInv, Stopping
    <2>5. QED
      BY <1>6, <2>1, <2>2, <2>4 DEF AdoptInv
  <1>8. CASE /\ claim' = NoClaim /\ UNCHANGED stopping
             /\ ended' = [ended EXCEPT ![tgt[s].epoch] = @ + 1]
    <2>1. claim'.epoch = 0 /\ claim'.pid = 0 /\ claim' \in Claims
      BY <1>1, <1>8, AdoptFacts
    <2>2. /\ ended' \in [Epochs -> Nat] /\ ended'[tgt[s].epoch] = ended[tgt[s].epoch] + 1
          /\ \A e \in Epochs : e # tgt[s].epoch => ended'[e] = ended[e]
          /\ ended[tgt[s].epoch] \in Nat
      BY <1>1, <1>4, <1>8 DEF AdoptTypeOK
    <2>3. AdoptTypeOK'
      BY <1>1, <1>2, <1>5, <1>8, <2>1, <2>2 DEF AdoptTypeOK
    <2>4. ClaimInv'
      BY <1>1, <1>2, <1>3, <2>1 DEF ClaimInv
    <2>5. EndInv'
      <3>1. \A e \in Procs : ended'[e] > 0 => e \in recorded' /\ e # claim'.epoch
        BY <1>1, <1>2, <1>4, <2>1, <2>2, AdoptFacts DEF EndInv, ClaimInv
      <3>2. ASSUME NEW u \in Stoppers, tgt'[u].epoch \notin {0} \cup overlapped
            PROVE  ~(ended'[tgt'[u].epoch] > 0)
        <4>1. u # s /\ tgt'[u] = tgt[u] /\ tgt[u].epoch \in Epochs
          BY <1>1, <1>3, <3>2, AdoptFacts
        <4>2. tgt[u].epoch # tgt[s].epoch
          BY <1>1, <3>2, <4>1 DEF EndInv
        <4>3. QED
          BY <1>1, <2>2, <3>2, <4>1, <4>2 DEF EndInv
      <3>3. ASSUME NEW u \in Stoppers, NEW v \in Stoppers, u # v,
                   tgt'[u].epoch = tgt'[v].epoch
            PROVE  tgt'[u].epoch \in {0} \cup overlapped
        BY <1>1, <1>3, <3>3 DEF EndInv
      <3>4. QED
        BY <1>2, <2>1, <3>1, <3>2, <3>3 DEF EndInv
    <2>6. EndedOnce'
      <3>1. tgt[s].epoch \in {0} \cup overlapped \/ ended[tgt[s].epoch] = 0
        BY <1>1, <2>2 DEF EndInv
      <3>2. \A e \in Procs : ended'[e] <= 1 \/ e \in overlapped
        BY <1>1, <1>4, <2>2, <3>1, AdoptFacts DEF EndedOnce
      <3>3. QED
        BY <1>2, <1>4, <2>1, <3>2, AdoptFacts DEF EndedOnce
    <2>7. QED
      BY <1>6, <2>3, <2>4, <2>5, <2>6 DEF AdoptInv
  <1>9. QED
    BY <1>2, <1>7, <1>8

\* Checkpoint and dump.
LEMMA CheckpointKept ==
  ASSUME AdoptInv, Checkpoint \/ Dump
  PROVE  AdoptInv'
  <1>1. /\ AdoptTypeOK /\ KernelInv /\ ClaimInv /\ PinInv /\ EndInv
        /\ SignalHitsRecorded /\ EndedOnce
    BY DEF AdoptInv
  <1>2. dpid' \in Pids \cup {0}
    BY <1>1, AdoptFacts DEF Checkpoint, Dump
  <1>3. CASE UNCHANGED <<kernel, agent, watchers, restorer, stopper, history>>
    BY <1>1, <1>2, <1>3
       DEF AdoptInv, AdoptTypeOK, KernelInv, ClaimInv, PinInv, Pinned, EndInv, Stopping,
           SignalHitsRecorded, EndedOnce, kernel, agent, watchers, restorer, stopper, history
  <1>4. CASE /\ dpid # 0 /\ at[dpid] # 0 /\ pst[at[dpid]] = "runs"
             /\ pst' = [pst EXCEPT ![at[dpid]] = "zombie"]
             /\ UNCHANGED <<born, at, pending, agent, watchers, restorer, stopper, history>>
    <2>1. at[dpid] \in Procs
      BY <1>1, <1>4, AdoptFacts DEF AdoptTypeOK
    <2>2. QED
      BY <1>2, <1>4, <2>1, DieKept
  <1>5. QED
    BY <1>3, <1>4 DEF Checkpoint, Dump, kernel

\* The adopted process's inductive invariant.
LEMMA AdoptInvariant == AdoptSpec => []AdoptInv
  <1>1. AdoptInit => AdoptInv
    <2>1. SUFFICES ASSUME AdoptInit PROVE AdoptInv
      OBVIOUS
    <2>2. 0 \in Epochs /\ NoClaim \in Claims /\ NoClaim.pid = 0 /\ NoClaim.epoch = 0
      BY AdoptAssumption DEF Epochs, Claims, NoClaim
    <2>3. AdoptTypeOK
      BY <2>1, <2>2 DEF AdoptInit, AdoptTypeOK
    <2>4. KernelInv
      BY <2>1 DEF AdoptInit, KernelInv
    <2>5. ClaimInv /\ PinInv
      BY <2>1, <2>2 DEF AdoptInit, ClaimInv, PinInv, Pinned
    <2>6. EndInv /\ SignalHitsRecorded /\ EndedOnce
      <3>1. \A e \in Epochs : ended[e] = 0
        BY <2>1 DEF AdoptInit
      <3>2. \A s \in Stoppers : tgt[s].epoch = 0
        BY <2>1, <2>2 DEF AdoptInit
      <3>3. signalled = {}
        BY <2>1 DEF AdoptInit
      <3>4. QED
        BY <2>3, <3>1, <3>2, <3>3, AdoptFacts DEF EndInv, SignalHitsRecorded, EndedOnce
    <2>7. QED
      BY <2>3, <2>4, <2>5, <2>6 DEF AdoptInv
  <1>2. AdoptInv /\ [AdoptNext]_adoptVars => AdoptInv'
    <2>1. SUFFICES ASSUME AdoptInv, [AdoptNext]_adoptVars PROVE AdoptInv'
      OBVIOUS
    <2>2. ASSUME NEW p \in Pids, Fork(p) \/ Restore(p)
          PROVE  AdoptInv'
      <3>1. /\ Occupy(p) /\ UNCHANGED <<agent, watchers, rprev, stopper, dpid, history>>
            /\ \/ UNCHANGED <<rpc, rpid>>
               \/ rpc' = "restored" /\ rpid' = p
        BY <2>2 DEF Fork, Restore, restorer
      <3>2. QED
        BY <2>1, <3>1, OccupyKept
    <2>3. ASSUME NEW p \in Pids, Reap(p)
          PROVE  AdoptInv'
      BY <2>1, <2>3, ReapKept
    <2>4. ASSUME NEW i \in Procs, Die(i)
          PROVE  AdoptInv'
      <3>1. dpid' \in Pids \cup {0}
        BY <2>1, <2>4 DEF Die, AdoptInv, AdoptTypeOK
      <3>2. QED
        BY <2>1, <2>4, <3>1, DieKept DEF Die
    <2>5. ASSUME NEW i \in Procs, WatchStep(i)
          PROVE  AdoptInv'
      BY <2>1, <2>5, WatchKept
    <2>6. CASE AdoptStep
      BY <2>1, <2>6, AdoptStepKept
    <2>7. ASSUME NEW s \in Stoppers, StopAdopted(s) \/ ResetAdopted(s) \/ StopStep(s)
          PROVE  AdoptInv'
      BY <2>1, <2>7, StopTakesKept, SignalKept, StopWaitsKept, StopSettlesKept DEF StopStep
    <2>8. CASE Checkpoint \/ Dump
      BY <2>1, <2>8, CheckpointKept
    <2>9. CASE UNCHANGED adoptVars
      BY <2>1, <2>9
         DEF AdoptInv, AdoptTypeOK, KernelInv, ClaimInv, PinInv, Pinned, EndInv, Stopping,
             SignalHitsRecorded, EndedOnce, adoptVars, kernel, agent, watchers, restorer, stopper, history
    <2>10. QED
      BY <2>1, <2>2, <2>3, <2>4, <2>5, <2>6, <2>7, <2>8, <2>9 DEF AdoptNext
  <1>3. QED
    BY <1>1, <1>2, PTL DEF AdoptSpec

\* procsig.Signal, for any number of processes, PIDs and Stops under way at once:
\* whatever exits, is reaped and is born at the same PID between the check, the
\* pin and the second check, only a process whose epoch an adopt recorded is sent
\* a signal.
THEOREM AdoptSignalHitsRecorded == AdoptSpec => []SignalHitsRecorded
  <1>1. AdoptInv => SignalHitsRecorded
    BY DEF AdoptInv
  <1>2. QED
    BY <1>1, AdoptInvariant, PTL

\* However many Stops run at once, the end of an adopted process is published once
\* unless a Stop took its claim with another Stop under way, and a published
\* process is never claimed: the watcher defers to a Stop that has taken its
\* claim, and nobody records a process twice.
THEOREM AdoptEndedOnce == AdoptSpec => []EndedOnce
  <1>1. AdoptInv => EndedOnce
    BY DEF AdoptInv
  <1>2. QED
    BY <1>1, AdoptInvariant, PTL
=============================================================================
