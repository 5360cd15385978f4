------------------------------ MODULE KitProofs ------------------------------
(***************************************************************************)
(* Proofs about an agent's own process, built on the Go kit or on the      *)
(* Python kit, for any number of signals.                                  *)
(***************************************************************************)
EXTENDS GoAgentKit, PyAgentKit, SequenceTheorems, TLAPS

Words == {"starting", "RUNNING", "stopping", "STOPPED", "FAILED"}

\* What was said last is the state that was written last.
LEMMA LastWord ==
  ASSUME NEW f \in Seq(Words), NEW w \in Words
  PROVE  /\ Append(f, w) \in Seq(Words) /\ Append(f, w) # <<>>
         /\ Append(f, w)[Len(Append(f, w))] = w
  OBVIOUS

-----------------------------------------------------------------------------
(* The Go kit.                                                             *)

Said == IF frames = <<>> THEN "silent" ELSE frames[Len(frames)]

\* Where run is determines the last frame of a service, and only a service
\* leaves run for supervised.
SaidInv ==
    /\ kpc = "gone" <=> code # "none"
    /\ ~Service => kpc \in {"run", "fire", "gone"}
    /\ Service =>
         /\ kpc # "fire"
         /\ kpc = "run" => Said = "silent"
         /\ kpc \in {"init", "grace"} => Said = "starting"
         /\ kpc = "serve" => Said = "RUNNING"
         /\ kpc = "finishStop" => Said \in {"starting", "RUNNING"}
         /\ kpc \in {"stop", "unwind"} => Said = "stopping"

\* The control pipe follows the listeners that were really passed, and
\* LISTEN_FDS means us only when there is one.
FdsInv ==
    /\ env \in Environments
    /\ fds \in [{Base, Base + 1} -> {"listener", "control", "free"}]
    /\ ControlKept

KitInv == KitTypeOK /\ SaidInv /\ FdsInv

\* A step of the process says nothing, or one word more.
LEMMA KitTyped ==
  ASSUME KitTypeOK, [KitNext]_kitVars
  PROVE  KitTypeOK'
  <1> USE DEF KitTypeOK
  <1> USE DEF Outcomes
  <1>w. \A w \in Words : Append(frames, w) \in Seq(Words)
    BY DEF Words
  <1>1. CASE Dispatch
    BY <1>1, <1>w DEF Dispatch, Invoke, Exit, Status, KGoto, Words, Verbs
  <1>2. CASE Fire
    BY <1>2 DEF Fire, Exit
  <1>3. CASE Initialize
    BY <1>3, <1>w DEF Initialize, KGoto, Report, Words
  <1>4. CASE StartReturns
    BY <1>4 DEF StartReturns
  <1>5. CASE Finish
    BY <1>5, <1>w DEF Finish, KGoto, Report, Words
  <1>6. CASE FinishStop
    BY <1>6, <1>w DEF FinishStop, Report, Words
  <1>7. CASE Ready
    BY <1>7, <1>w DEF Ready, Status, Words
  <1>8. CASE Stopping
    BY <1>8, <1>w DEF Stopping, Status, Words
  <1>9. CASE StopFunction
    BY <1>9, <1>w DEF StopFunction, KGoto, Report, Words
  <1>10. CASE Unwind
    BY <1>10, <1>w DEF Unwind, Report, Words
  <1>11. CASE Sigterm
    BY <1>11 DEF Sigterm, Exit
  <1>12. CASE Sigkill
    BY <1>12 DEF Sigkill, Exit
  <1>13. CASE TakeListener
    BY <1>13 DEF TakeListener
  <1>14. CASE UNCHANGED kitVars
    BY <1>14 DEF kitVars
  <1>15. QED
    BY <1>1, <1>2, <1>3, <1>4, <1>5, <1>6, <1>7, <1>8, <1>9, <1>10, <1>11, <1>12,
       <1>13, <1>14 DEF KitNext, KitStep

\* Said after a frame, and after a step without one.
LEMMA SaidAfter ==
  ASSUME KitTypeOK
  PROVE  /\ \A w \in Words : frames' = Append(frames, w) => Said' = w
         /\ frames' = frames => Said' = Said
  <1>1. ASSUME NEW w \in Words, frames' = Append(frames, w)
        PROVE  Said' = w
    BY <1>1, LastWord DEF Said, KitTypeOK, Words
  <1>2. frames' = frames => Said' = Said
    BY DEF Said
  <1>3. QED
    BY <1>1, <1>2

\* The place of run and the last frame go together, whatever the order in which
\* Start's return, the grace and the signals arrive.
LEMMA SaidKept ==
  ASSUME KitTypeOK, SaidInv, [KitNext]_kitVars
  PROVE  SaidInv'
  <1> USE DEF SaidInv, Service
  <1>w. /\ frames' = Append(frames, "starting") => Said' = "starting"
        /\ frames' = Append(frames, "RUNNING") => Said' = "RUNNING"
        /\ frames' = Append(frames, "stopping") => Said' = "stopping"
        /\ frames' = frames => Said' = Said
    BY SaidAfter DEF Words
  <1>1. CASE Dispatch
    BY <1>1, <1>w DEF Dispatch, Invoke, Exit, Status, KGoto, Alive, Outcomes
  <1>2. CASE Fire
    BY <1>2 DEF Fire, Exit, Alive, Outcomes
  <1>3. CASE Initialize
    BY <1>3, <1>w DEF Initialize, KGoto, Report, Alive
  <1>4. CASE StartReturns
    BY <1>4, <1>w DEF StartReturns, Alive
  <1>5. CASE Finish
    BY <1>5, <1>w DEF Finish, KGoto, Report, Alive
  <1>6. CASE FinishStop
    BY <1>6 DEF FinishStop, Report, Alive
  <1>7. CASE Ready
    BY <1>7, <1>w DEF Ready, Status, Alive
  <1>8. CASE Stopping
    BY <1>8, <1>w DEF Stopping, Serving, Status, Alive
  <1>9. CASE StopFunction
    BY <1>9, <1>w DEF StopFunction, KGoto, Report, Alive
  <1>10. CASE Unwind
    BY <1>10 DEF Unwind, Report, Alive
  <1>11. CASE Sigterm
    BY <1>11, <1>w DEF Sigterm, Exit, Alive
  <1>12. CASE Sigkill
    BY <1>12 DEF Sigkill, Exit, Alive
  <1>13. CASE TakeListener
    BY <1>13, <1>w DEF TakeListener
  <1>14. CASE UNCHANGED kitVars
    BY <1>14, <1>w DEF kitVars
  <1>15. QED
    BY <1>1, <1>2, <1>3, <1>4, <1>5, <1>6, <1>7, <1>8, <1>9, <1>10, <1>11, <1>12,
       <1>13, <1>14 DEF KitNext, KitStep

\* Only TakeListener touches a descriptor, and it finds a listener there.
LEMMA FdsKept ==
  ASSUME FdsInv, [KitNext]_kitVars
  PROVE  FdsInv'
  <1> USE DEF FdsInv, ControlKept, Base
  <1>1. CASE TakeListener
    <2>1. env' = env /\ fds' = [fds EXCEPT ![3] = "free"] /\ ListenFDs > 0
      BY <1>1 DEF TakeListener
    <2>2. env.n = 1
      BY <2>1 DEF ListenFDs, MinePid, Environments
    <2>3. fds' \in [{3, 3 + 1} -> {"listener", "control", "free"}]
      BY <2>1
    <2>4. fds'[4] = fds[4]
      BY <2>1
    <2>5. QED
      BY <2>1, <2>2, <2>3, <2>4
  <1>2. CASE UNCHANGED <<env, fds>>
    BY <1>2
  <1>3. TakeListener \/ UNCHANGED <<env, fds>>
    BY DEF KitNext, KitStep, kitVars, Dispatch, Fire, Initialize, StartReturns, Finish,
           FinishStop, Ready, Stopping, StopFunction, Unwind, Sigterm, Sigkill
  <1>4. QED
    BY <1>1, <1>2, <1>3

\* The invariant holds at first, also of a process that has ended already.
LEMMA KitInvAtFirst ==
  ASSUME KitInit \/ (KitAt("gone", "ok") /\ verb = "none")
  PROVE  KitInv
  <1>1. KitTypeOK
    <2>1. /\ verb \in Verbs /\ kpc \in {"run", "gone"} /\ code \in {"none", "ok"}
          /\ startDone = "none" /\ frames = <<>>
      BY DEF KitInit, KitAt
    <2>2. QED
      BY <2>1 DEF KitTypeOK
  <1>2. SaidInv
    BY DEF KitInit, KitAt, SaidInv, Said, Service
  <1>3. FdsInv
    <2>1. env \in Environments
      BY DEF KitInit, KitAt
    <2>2. env.n \in {0, 1}
      BY <2>1 DEF Environments
    <2>3. fds = [d \in {3, 3 + 1} |->
                   IF d < 3 + env.n THEN "listener"
                   ELSE IF d = 3 + env.n THEN "control" ELSE "free"]
      BY DEF KitInit, KitAt, Base
    <2>4. QED
      BY <2>1, <2>2, <2>3 DEF FdsInv, ControlKept, Base
  <1>4. QED
    BY <1>1, <1>2, <1>3 DEF KitInv

\* The invariant of the Go kit is inductive.
THEOREM KitInvariant == KitSpec => []KitInv
  <1>1. KitInit => KitInv
    BY KitInvAtFirst
  <1>2. KitInv /\ [KitNext]_kitVars => KitInv'
    BY KitTyped, SaidKept, FdsKept DEF KitInv
  <1>3. QED
    BY <1>1, <1>2, PTL DEF KitSpec

\* Whatever Listener does and whenever, the control descriptor stays open.
THEOREM KitControlKept == KitSpec => []ControlKept
  <1>1. KitInv => ControlKept
    BY DEF KitInv, FdsInv
  <1>2. QED
    BY <1>1, KitInvariant, PTL

-----------------------------------------------------------------------------
(* The refinement: what a service announces is an announcement.            *)

\* The initial states map to initial states.
LEMMA AnnouncedInit ==
  ASSUME KitInit
  PROVE  Announced!AnnInit
  BY DEF KitInit, KitAt, Announced!AnnInit, Announced!Silent

SaidBar == IF ~Service \/ frames = <<>> THEN "silent" ELSE frames[Len(frames)]
ExitBar == IF Service THEN code ELSE "none"

\* The steps of the announcement that a service takes, said of its own state.
SaysNext(from, word) == Said = from /\ Said' = word /\ code' = code

EndsWith(word, c) ==
    Said \in {"starting", "RUNNING", "stopping"} /\ Said' = word /\ code' = c

ServiceSays ==
    /\ code = "none"
    /\ \/ SaysNext("silent", "starting") \/ SaysNext("starting", "RUNNING")
       \/ SaysNext("RUNNING", "stopping")
       \/ EndsWith("STOPPED", "ok") \/ EndsWith("FAILED", "error")
       \/ Said' = Said /\ code' = "killed"
       \/ Said = "silent" /\ Said' = Said /\ code' = "error"

\* Said so, a step is one of the announcement.
LEMMA ServiceSaysAnnounced ==
  ASSUME Service, verb' = verb, ServiceSays
  PROVE  Announced!AnnNext
  <1>1. /\ SaidBar = Said /\ ExitBar = code
        /\ SaidBar' = Said' /\ ExitBar' = code'
    BY DEF SaidBar, ExitBar, Said, Service
  <1>2. /\ code = "none"
        /\ \/ SaysNext("silent", "starting") \/ SaysNext("starting", "RUNNING")
           \/ SaysNext("RUNNING", "stopping")
        => Announced!AnnNext
    BY <1>1 DEF SaysNext, SaidBar, ExitBar, Announced!AnnNext, Announced!Says, Announced!Silent
  <1>3. code = "none" /\ (EndsWith("STOPPED", "ok") \/ EndsWith("FAILED", "error"))
        => Announced!AnnNext
    BY <1>1 DEF EndsWith, SaidBar, ExitBar, Announced!AnnNext, Announced!SaysAndLeaves,
                Announced!Silent, Announced!Final
  <1>4. /\ code = "none" /\ Said' = Said
        /\ code' = "killed" \/ (Said = "silent" /\ code' = "error")
        => Announced!AnnNext
    BY <1>1 DEF SaidBar, ExitBar, Announced!AnnNext, Announced!Leaves, Announced!Silent
  <1>5. QED
    BY <1>2, <1>3, <1>4 DEF ServiceSays

\* A step of the process maps to a step of the announcement or to a stutter.
LEMMA AnnouncedStep ==
  ASSUME KitInv, [KitNext]_kitVars
  PROVE  Announced!AnnNext \/ UNCHANGED <<SaidBar, ExitBar>>
  <1> USE DEF KitInv, SaidInv
  <1>s. KitTypeOK /\ verb' = verb
    BY DEF KitNext, KitStep, kitVars, Dispatch, Fire, Initialize, StartReturns, Finish,
           FinishStop, Ready, Stopping, StopFunction, Unwind, Sigterm, Sigkill, TakeListener
  <1>0. CASE ~Service
    BY <1>0, <1>s DEF Service, SaidBar, ExitBar
  <1>u. CASE UNCHANGED <<frames, code>>
    BY <1>u, <1>s DEF Service, SaidBar, ExitBar
  <1>q. CASE Service /\ ~UNCHANGED <<frames, code>>
    <2> USE <1>q DEF SaysNext, EndsWith, Alive
    <2>w. /\ \A w \in Words : frames' = Append(frames, w) => Said' = w
          /\ frames' = frames => Said' = Said
      BY <1>s, SaidAfter
    <2> SUFFICES ServiceSays
      BY <1>s, ServiceSaysAnnounced
    <2>1. CASE Dispatch
      BY <2>1, <2>w DEF Dispatch, Service, Status, Exit, ServiceSays, Words
    <2>2. CASE Fire
      BY <2>2 DEF Fire
    <2>3. CASE Initialize
      BY <2>3, <2>w DEF Initialize, KGoto, Report, ServiceSays, Words
    <2>5. CASE Finish
      BY <2>5, <2>w DEF Finish, KGoto, Report, ServiceSays, Words
    <2>6. CASE FinishStop
      BY <2>6, <2>w DEF FinishStop, Report, ServiceSays, Words
    <2>7. CASE Ready
      BY <2>7, <2>w DEF Ready, Status, ServiceSays, Words
    <2>8. CASE Stopping
      BY <2>8, <2>w DEF Stopping, Serving, Status, ServiceSays, Words
    <2>9. CASE StopFunction
      BY <2>9, <2>w DEF StopFunction, KGoto, Report, ServiceSays, Words
    <2>10. CASE Unwind
      BY <2>10, <2>w DEF Unwind, Report, ServiceSays, Words
    <2>11. CASE Sigterm
      BY <2>11, <2>w DEF Sigterm, Exit, ServiceSays
    <2>12. CASE Sigkill
      BY <2>12, <2>w DEF Sigkill, Exit, ServiceSays
    <2>13. CASE StartReturns \/ TakeListener \/ UNCHANGED kitVars
      BY <2>13 DEF StartReturns, TakeListener, kitVars
    <2>14. QED
      BY <2>1, <2>2, <2>3, <2>5, <2>6, <2>7, <2>8, <2>9, <2>10, <2>11, <2>12, <2>13
         DEF KitNext, KitStep
  <1>15. QED
    BY <1>0, <1>u, <1>q

\* What a Go service agent announces implements the announcement a supervisor
\* relies on: PENDING, RUNNING, one last word, and the exit code that fits it,
\* for any number of signals at any moment.
THEOREM KitAnnouncesInOrder == KitSpec => AnnouncesInOrder
  <1>1. KitInit => Announced!AnnInit
    BY AnnouncedInit
  <1>2. KitInv /\ [KitNext]_kitVars
        => [Announced!AnnNext]_<<IF ~Service \/ frames = <<>> THEN "silent"
                                 ELSE frames[Len(frames)],
                                 IF Service THEN code ELSE "none">>
    BY AnnouncedStep DEF SaidBar, ExitBar
  <1>3. QED
    BY <1>1, <1>2, KitInvariant, PTL DEF KitSpec, AnnouncesInOrder, Announced!AnnSpec

-----------------------------------------------------------------------------
(* The Python kit.                                                         *)

Activations == {"begin", "fn", "exit"} \cup Leaving

\* Main of a service passes through these places only: it never returns.
ServiceAt ==
    /\ agent.verb \in {"start", "stop", "reload", "restart", "describe"}
    /\ ServicePy => at \in {"load", "start", "starting", "await", "check", "ready", "serve",
                            "gone"}

\* Whatever is about to make the process exit 0 has said STOPPED before.
ExitAfterStopped ==
    ServicePy /\ ~agent.stub =>
      \/ Says("stopped")
      \/ /\ flight # "exit" /\ ended # "0"
         /\ \A i \in 1..Len(calls) : calls[i] # "exit"

\* Once STOPPED is said, main does not take another step of its own.
MainOver ==
    ServicePy /\ ~swallowed /\ Says("stopped") => ~On \/ flight # "none" \/ calls # <<>>

PyKitInv ==
    PyKitTypeOK /\ ServiceAt /\ ExitAfterStopped /\ MainOver /\ PyStopAnnounced

\* What Notify writes: at most the one event, and STOPPED always.
LEMMA Notified ==
  ASSUME sent \in Seq(Published), NEW e, Notify(e)
  PROVE  /\ sent' \in Seq(Published)
         /\ sent' = sent \/ (e \in Published /\ sent' = Append(sent, e))
         /\ e = "stopped" /\ ~agent.stub => sent' = Append(sent, e)
  <1>1. CASE e \notin Published
    BY <1>1 DEF Notify, Published
  <1>2. CASE e \in Published
    <2>1. sent' = SendEvent(e)
      BY <1>2 DEF Notify
    <2>2. sent' = sent \/ sent' = Append(sent, e)
      BY <2>1 DEF SendEvent
    <2>3. Append(sent, e) \in Seq(Published)
      BY <1>2
    <2>4. e = "stopped" /\ ~agent.stub => sent' = Append(sent, e)
      BY <2>1 DEF SendEvent
    <2>5. QED
      BY <1>2, <2>2, <2>3, <2>4
  <1>3. QED
    BY <1>1, <1>2

\* An event that was sent stays sent, and a new one is the last.
LEMMA SaysGrows ==
  ASSUME sent \in Seq(Published)
  PROVE  /\ sent' = sent => (Says("stopped")' <=> Says("stopped"))
         /\ \A e \in Published :
              sent' = Append(sent, e) =>
                /\ Says("stopped") => Says("stopped")'
                /\ e = "stopped" => Says("stopped")'
                /\ e # "stopped" /\ Says("stopped")' => Says("stopped")
  <1>1. sent' = sent => (Says("stopped")' <=> Says("stopped"))
    BY DEF Says
  <1>2. ASSUME NEW e \in Published, sent' = Append(sent, e)
        PROVE  /\ Says("stopped") => Says("stopped")'
               /\ e = "stopped" => Says("stopped")'
               /\ e # "stopped" /\ Says("stopped")' => Says("stopped")
    <2>1. /\ Len(sent') = Len(sent) + 1 /\ Len(sent) \in Nat
          /\ sent'[Len(sent) + 1] = e
          /\ \A i \in 1..Len(sent) : sent'[i] = sent[i]
      BY <1>2
    <2>2. Says("stopped") => Says("stopped")'
      BY <2>1 DEF Says
    <2>3. e = "stopped" => Says("stopped")'
      BY <2>1 DEF Says
    <2>4. e # "stopped" /\ Says("stopped")' => Says("stopped")
      BY <2>1 DEF Says
    <2>5. QED
      BY <2>2, <2>3, <2>4
  <1>3. QED
    BY <1>1, <1>2

\* The stack of activations under a pop and under a change of its top.
LEMMA Stack ==
  ASSUME calls \in Seq(Activations), calls # <<>>, NEW l \in Activations
  PROVE  /\ Front(calls) \in Seq(Activations)
         /\ \A i \in 1..Len(Front(calls)) : i \in 1..Len(calls) /\ Front(calls)[i] = calls[i]
         /\ Append(Front(calls), l) \in Seq(Activations)
         /\ Append(Front(calls), l) # <<>>
         /\ l # "exit" /\ (\A i \in 1..Len(calls) : calls[i] # "exit")
            => \A i \in 1..Len(Append(Front(calls), l)) : Append(Front(calls), l)[i] # "exit"
  <1>0. Len(calls) \in Nat /\ Len(calls) > 0
    OBVIOUS
  <1>1. /\ Front(calls) \in Seq(Activations)
        /\ Len(Front(calls)) = Len(calls) - 1
        /\ \A i \in 1..Len(calls) - 1 : Front(calls)[i] = calls[i]
    <2>1. \A i \in 1..Len(calls) - 1 : calls[i] \in Activations
      BY <1>0
    <2>2. 1 \in Int /\ Len(calls) - 1 \in Int
      BY <1>0
    <2>3. /\ SubSeq(calls, 1, Len(calls) - 1) \in Seq(Activations)
          /\ Len(SubSeq(calls, 1, Len(calls) - 1)) =
                IF 1 <= Len(calls) - 1 THEN (Len(calls) - 1) - 1 + 1 ELSE 0
          /\ \A i \in 1..(Len(calls) - 1) - 1 + 1 :
                SubSeq(calls, 1, Len(calls) - 1)[i] = calls[1 + i - 1]
      BY <2>1, <2>2, SubSeqProperties
    <2>f. Front(calls) = SubSeq(calls, 1, Len(calls) - 1)
      BY DEF Front
    <2>4. Len(Front(calls)) = Len(calls) - 1
      <3>1. (IF 1 <= Len(calls) - 1 THEN (Len(calls) - 1) - 1 + 1 ELSE 0) = Len(calls) - 1
        <4>1. \A n \in Nat : n > 0 => (IF 1 <= n - 1 THEN (n - 1) - 1 + 1 ELSE 0) = n - 1
          OBVIOUS
        <4>2. QED
          BY ONLY <1>0, <4>1, Zenon
      <3>2. QED
        BY <2>3, <2>f, <3>1, Zenon
    <2>5. ASSUME NEW i \in 1..Len(calls) - 1
          PROVE  Front(calls)[i] = calls[i]
      <3>1. i \in 1..(Len(calls) - 1) - 1 + 1 /\ 1 + i - 1 = i
        BY <1>0
      <3>2. QED
        BY <2>3, <2>f, <3>1, Zenon
    <2>6. QED
      BY <2>3, <2>f, <2>4, <2>5, Zenon
  <1>2. \A i \in 1..Len(Front(calls)) : i \in 1..Len(calls) /\ Front(calls)[i] = calls[i]
    BY <1>0, <1>1
  <1>3. /\ Append(Front(calls), l) \in Seq(Activations)
        /\ Append(Front(calls), l) # <<>>
        /\ Len(Append(Front(calls), l)) = Len(Front(calls)) + 1
        /\ Append(Front(calls), l)[Len(Front(calls)) + 1] = l
        /\ \A i \in 1..Len(Front(calls)) : Append(Front(calls), l)[i] = Front(calls)[i]
    BY <1>1
  <1>4. ASSUME l # "exit", \A i \in 1..Len(calls) : calls[i] # "exit",
               NEW i \in 1..Len(Append(Front(calls), l))
        PROVE  Append(Front(calls), l)[i] # "exit"
    BY <1>0, <1>1, <1>2, <1>3, <1>4
  <1>5. QED
    BY <1>1, <1>2, <1>3, <1>4

\* The same stack, pushed.
LEMMA Pushed ==
  ASSUME calls \in Seq(Activations)
  PROVE  /\ Append(calls, "begin") \in Seq(Activations)
         /\ Append(calls, "begin") # <<>>
         /\ (\A i \in 1..Len(calls) : calls[i] # "exit")
            => \A i \in 1..Len(Append(calls, "begin")) : Append(calls, "begin")[i] # "exit"
  <1>1. /\ Append(calls, "begin") \in Seq(Activations)
        /\ Append(calls, "begin") # <<>>
    BY DEF Activations
  <1>2. /\ Len(calls) \in Nat /\ Len(Append(calls, "begin")) = Len(calls) + 1
        /\ Append(calls, "begin")[Len(calls) + 1] = "begin"
        /\ \A i \in 1..Len(calls) : Append(calls, "begin")[i] = calls[i]
    OBVIOUS
  <1>3. ASSUME \A i \in 1..Len(calls) : calls[i] # "exit",
               NEW i \in 1..Len(Append(calls, "begin"))
        PROVE  Append(calls, "begin")[i] # "exit"
    BY <1>2, <1>3
  <1>4. QED
    BY <1>1, <1>3

\* Types, and the places of main.
LEMMA PyTyped ==
  ASSUME PyKitTypeOK, ServiceAt, [PyKitNext]_pyKitVars
  PROVE  PyKitTypeOK' /\ ServiceAt'
  <1> USE DEF PyKitTypeOK, ServiceAt, ServicePy
  <1>n. \A e : Notify(e) => sent' \in Seq(Published)
    BY Notified
  <1>c. /\ calls \in Seq(Activations)
        /\ calls # <<>> => Front(calls) \in Seq(Activations)
        /\ calls # <<>> => \A l \in Activations : Append(Front(calls), l) \in Seq(Activations)
        /\ Append(calls, "begin") \in Seq(Activations)
        /\ <<"begin">> \in Seq(Activations)
    BY Stack, Pushed DEF Activations
  <1>1. CASE Load
    BY <1>1 DEF Load, Main
  <1>2. CASE InitializePy
    BY <1>2 DEF InitializePy, Main
  <1>3. CASE StartPy
    BY <1>3, <1>n DEF StartPy, Main
  <1>4. CASE OneshotBody
    BY <1>4, <1>n DEF OneshotBody, Main
  <1>5. CASE AwaitReady
    BY <1>5, <1>n DEF AwaitReady, Main
  <1>6. CASE CheckError
    BY <1>6 DEF CheckError, Main
  <1>7. CASE SayReady
    BY <1>7, <1>n DEF SayReady, Main
  <1>8. CASE Hook
    BY <1>8, <1>n DEF Hook, Main
  <1>9. CASE StopVerb
    BY <1>9, <1>c DEF StopVerb, Main, Activations
  <1>10. CASE BeginStop
    BY <1>10, <1>n, <1>c DEF BeginStop, Top, Becomes, Activations, Leaving
  <1>11. CASE StopFn
    BY <1>11, <1>c DEF StopFn, Top, Becomes, Activations, Leaving
  <1>12. CASE Finally
    <2>1. sent' \in Seq(Published) /\ UNCHANGED <<agent, at, thread, ended>>
      BY <1>12, <1>n DEF Finally
    <2>2. calls' \in Seq(Activations)
      BY <1>12, <1>c DEF Finally, Becomes, Activations
    <2>3. flight' \in {"none", "exit", "error"}
      BY <1>12 DEF Finally
    <2>4. QED
      BY <2>1, <2>2, <2>3 DEF Activations
  <1>13. CASE StopReturns
    BY <1>13, <1>c DEF StopReturns, Top, IsHandler, Activations
  <1>14. CASE UnwindCall
    <2>1. UNCHANGED <<agent, at, thread, sent, ended>>
      BY <1>14 DEF UnwindCall
    <2>2. calls' \in Seq(Activations)
      <3>1. {"finallyExit", "finallyRaise"} \subseteq Activations
        BY DEF Activations, Leaving
      <3>2. QED
        BY <1>14, <1>c, <3>1 DEF UnwindCall, Becomes
    <2>3. flight' \in {"none", "exit", "error"}
      BY <1>14 DEF UnwindCall
    <2>4. QED
      BY <2>1, <2>2, <2>3 DEF Activations
  <1>15. CASE UnwindMain
    BY <1>15, <1>n DEF UnwindMain
  <1>16. CASE Return
    BY <1>16 DEF Return
  <1>17. CASE ThreadEnds
    BY <1>17 DEF ThreadEnds
  <1>18. CASE ThreadSaysError
    BY <1>18, <1>n DEF ThreadSaysError
  <1>19. CASE WorkersEnd
    BY <1>19 DEF WorkersEnd
  <1>20. CASE SigtermPy
    BY <1>20, <1>c DEF SigtermPy, Activations
  <1>21. CASE SigkillPy
    BY <1>21 DEF SigkillPy
  <1>22. CASE UNCHANGED pyKitVars
    BY <1>22 DEF pyKitVars
  <1>23. QED
    BY <1>1, <1>2, <1>3, <1>4, <1>5, <1>6, <1>7, <1>8, <1>9, <1>10, <1>11, <1>12, <1>13,
       <1>14, <1>15, <1>16, <1>17, <1>18, <1>19, <1>20, <1>21, <1>22
       DEF PyKitNext, PyKitStep

\* What a step says: READY only from main's own step, STOPPED only on the way
\* out of an activation of stop.
LEMMA PySpeaks ==
  ASSUME PyKitTypeOK, [PyKitNext]_pyKitVars
  PROVE  /\ agent' = agent /\ (swallowed => swallowed')
         /\ \/ sent' = sent
            \/ \E e \in Published :
                 /\ sent' = Append(sent, e)
                 /\ e = "ready" => Main("ready")
                 /\ e = "stopped" => calls' # <<>> \/ flight' # "none"
  <1> DEFINE Speaks ==
        \/ sent' = sent
        \/ \E e \in Published :
             /\ sent' = Append(sent, e)
             /\ e = "ready" => Main("ready")
             /\ e = "stopped" => calls' # <<>> \/ flight' # "none"
  <1>n. \A e : Notify(e) => sent' = sent \/ (e \in Published /\ sent' = Append(sent, e))
    BY Notified DEF PyKitTypeOK
  <1>q. \A e : Notify(e) /\ e \notin {"ready", "stopped"} => Speaks
    BY <1>n
  <1>a. agent' = agent /\ (swallowed => swallowed')
    BY DEF PyKitNext, PyKitStep, pyKitVars, Load, InitializePy, StartPy, OneshotBody,
           AwaitReady, CheckError, SayReady, Hook, StopVerb, BeginStop, StopFn, Finally,
           StopReturns, UnwindCall, UnwindMain, Return, ThreadEnds, ThreadSaysError,
           WorkersEnd, SigtermPy, SigkillPy
  <1>1. CASE SayReady
    <2>1. Notify("ready") /\ Main("ready")
      BY <1>1 DEF SayReady
    <2>2. QED
      BY <1>a, <1>n, <2>1
  <1>2. CASE Finally
    <2>1. Notify("stopped")
      BY <1>2 DEF Finally
    <2>2. calls' # <<>> \/ flight' # "none"
      <3>1. calls # <<>> => \A l \in Activations : Append(Front(calls), l) # <<>>
        BY Stack DEF PyKitTypeOK, Activations
      <3>2. QED
        BY <1>2, <3>1 DEF Finally, Becomes, Activations
    <2>3. QED
      BY <1>a, <1>n, <2>1, <2>2
  <1>3. CASE StartPy
    BY <1>3, <1>a, <1>q DEF StartPy
  <1>4. CASE OneshotBody
    BY <1>4, <1>a, <1>q DEF OneshotBody
  <1>5. CASE AwaitReady
    BY <1>5, <1>a, <1>q DEF AwaitReady
  <1>6. CASE Hook
    BY <1>6, <1>a, <1>q DEF Hook
  <1>7. CASE BeginStop
    BY <1>7, <1>a, <1>q DEF BeginStop
  <1>8. CASE UnwindMain
    BY <1>8, <1>a, <1>q DEF UnwindMain
  <1>9. CASE ThreadSaysError
    BY <1>9, <1>a, <1>q DEF ThreadSaysError
  <1>10. CASE sent' = sent
    BY <1>10, <1>a
  <1>11. \/ SayReady \/ Finally \/ StartPy \/ OneshotBody \/ AwaitReady \/ Hook \/ BeginStop
         \/ UnwindMain \/ ThreadSaysError \/ sent' = sent
    BY DEF PyKitNext, PyKitStep, pyKitVars, Load, InitializePy, CheckError, StopVerb, StopFn,
           StopReturns, UnwindCall, Return, ThreadEnds, WorkersEnd, SigtermPy, SigkillPy
  <1>12. QED
    BY <1>1, <1>2, <1>3, <1>4, <1>5, <1>6, <1>7, <1>8, <1>9, <1>10, <1>11

\* Main of a service that said STOPPED gets no further: every activation above
\* it leaves by sys.exit or by an exception.
LEMMA MainStaysOver ==
  ASSUME PyKitInv, [PyKitNext]_pyKitVars
  PROVE  MainOver'
  <1> SUFFICES ASSUME ServicePy, ~swallowed, ~swallowed', Says("stopped")'
               PROVE  ~On' \/ flight' # "none" \/ calls' # <<>>
    BY PySpeaks DEF MainOver, PyKitInv, ServicePy
  <1>t. /\ PyKitTypeOK /\ calls \in Seq(Activations)
        /\ at \in {"load", "start", "starting", "await", "check", "ready", "serve", "gone"}
    BY DEF PyKitInv, PyKitTypeOK, ServiceAt, Activations
  <1>1. CASE ~Says("stopped")
    <2>1. PICK e \in Published : /\ sent' = Append(sent, e)
                                 /\ e = "stopped" => calls' # <<>> \/ flight' # "none"
      BY <1>1, <1>t, PySpeaks, SaysGrows DEF PyKitTypeOK
    <2>2. e = "stopped"
      BY <1>1, <1>t, <2>1, SaysGrows DEF PyKitTypeOK
    <2>3. QED
      BY <2>1, <2>2
  <1>2. CASE Says("stopped")
    <2>0. ~On \/ flight # "none" \/ calls # <<>>
      BY <1>2 DEF PyKitInv, MainOver
    <2>m. \A l : ~Main(l)
      BY <2>0 DEF Main
    <2>c. /\ calls # <<>> => \A l \in Activations : Append(Front(calls), l) # <<>>
          /\ Append(calls, "begin") # <<>>
      BY <1>t, Stack, Pushed
    <2>1. CASE BeginStop \/ StopFn
      BY <2>1, <2>c DEF BeginStop, StopFn, Top, Becomes, Activations, Leaving
    <2>2. CASE Finally
      BY <2>2, <2>c DEF Finally, Becomes, Activations
    <2>3. CASE StopReturns
      BY <2>3, <1>t DEF StopReturns, IsHandler
    <2>4. CASE UnwindCall
      BY <2>4, <2>c DEF UnwindCall, Becomes, Activations, Leaving
    <2>5. CASE UnwindMain
      BY <2>5 DEF UnwindMain
    <2>6. CASE SigtermPy
      BY <2>6, <2>c DEF SigtermPy, On
    <2>7. CASE SigkillPy
      BY <2>7 DEF SigkillPy, On
    <2>8. CASE UNCHANGED <<ended, flight, calls>>
      BY <2>8, <2>0 DEF On
    <2>9. \/ BeginStop \/ StopFn \/ Finally \/ StopReturns \/ UnwindCall \/ UnwindMain
          \/ SigtermPy \/ SigkillPy \/ UNCHANGED <<ended, flight, calls>>
      BY <2>m DEF PyKitNext, PyKitStep, pyKitVars, Load, InitializePy, StartPy, OneshotBody,
           AwaitReady, CheckError, SayReady, Hook, StopVerb, Return, ThreadEnds,
           ThreadSaysError, WorkersEnd
    <2>10. QED
      BY <2>1, <2>2, <2>3, <2>4, <2>5, <2>6, <2>7, <2>8, <2>9
  <1>3. QED
    BY <1>1, <1>2

\* sys.exit is called only after the finally block has said STOPPED.
LEMMA ExitsAfterStopped ==
  ASSUME PyKitInv, [PyKitNext]_pyKitVars
  PROVE  ExitAfterStopped'
  <1> DEFINE Quiet == /\ flight # "exit" /\ ended # "0"
                      /\ \A i \in 1..Len(calls) : calls[i] # "exit"
  <1> SUFFICES ASSUME ServicePy, ~agent.stub
               PROVE  Says("stopped")' \/ Quiet'
    BY PySpeaks DEF ExitAfterStopped, PyKitInv, ServicePy
  <1>t. /\ PyKitTypeOK /\ calls \in Seq(Activations) /\ sent \in Seq(Published)
        /\ at \in {"load", "start", "starting", "await", "check", "ready", "serve", "gone"}
        /\ agent.verb = "start"
    BY DEF PyKitInv, PyKitTypeOK, ServiceAt, ServicePy, Activations
  <1>1. CASE Says("stopped")
    BY <1>1, <1>t, PySpeaks, SaysGrows
  <1>2. CASE Quiet
    <2>1. CASE Finally
      <3>1. sent' = Append(sent, "stopped")
        BY <2>1, <1>t, Notified DEF Finally
      <3>2. QED
        BY <3>1, <1>t, SaysGrows DEF Published
    <2>2. CASE BeginStop \/ StopFn
      <3>1. /\ calls # <<>> /\ UNCHANGED <<flight, ended>>
            /\ \E l \in Activations \ {"exit"} : calls' = Append(Front(calls), l)
        BY <2>2 DEF BeginStop, StopFn, Top, Becomes, Activations, Leaving
      <3>2. QED
        BY <3>1, <1>2, <1>t, Stack
    <2>3. CASE StopReturns
      <3>1. calls # <<>> /\ calls[Len(calls)] = "exit" /\ Len(calls) \in 1..Len(calls)
        BY <2>3, <1>t DEF StopReturns, Top, Last
      <3>2. QED
        BY <3>1, <1>2
    <2>4. CASE UnwindCall
      <3>0. flight' # "exit" /\ ended' = ended
        BY <2>4, <1>2 DEF UnwindCall
      <3>1. /\ calls # <<>>
            /\ \/ \E l \in Activations \ {"exit"} : calls' = Append(Front(calls), l)
               \/ calls' = Front(calls) \/ calls' = calls
        BY <2>4 DEF UnwindCall, Becomes, Activations, Leaving
      <3>2. \A i \in 1..Len(calls') : calls'[i] # "exit"
        <4>1. CASE \E l \in Activations \ {"exit"} : calls' = Append(Front(calls), l)
          BY <4>1, <3>1, <1>2, <1>t, Stack
        <4>2. CASE calls' = Front(calls)
          <5>1. "fn" \in Activations
            BY DEF Activations
          <5>2. \A i \in 1..Len(Front(calls)) :
                   i \in 1..Len(calls) /\ Front(calls)[i] = calls[i]
            BY <5>1, <3>1, <1>t, Stack
          <5>3. QED
            BY <4>2, <5>2, <1>2
        <4>3. CASE calls' = calls
          BY <4>3, <1>2
        <4>4. QED
          BY <3>1, <4>1, <4>2, <4>3
      <3>3. QED
        BY <3>0, <3>2, <1>2
    <2>5. CASE UnwindMain
      BY <2>5, <1>2 DEF UnwindMain
    <2>6. CASE SigtermPy
      BY <2>6, <1>2, <1>t, Pushed DEF SigtermPy
    <2>7. CASE SigkillPy
      BY <2>7, <1>2 DEF SigkillPy
    <2>8. CASE Load \/ Hook \/ InitializePy \/ OneshotBody
      BY <2>8, <1>t, <1>2 DEF Load, Hook, InitializePy, OneshotBody
    <2>9. CASE Return \/ StopVerb
      BY <2>9, <1>t DEF Return, StopVerb, Main
    <2>10. CASE UNCHANGED <<flight, ended, calls>>
      BY <2>10, <1>2
    <2>11. \/ Finally \/ BeginStop \/ StopFn \/ StopReturns \/ UnwindCall \/ UnwindMain
           \/ SigtermPy \/ SigkillPy \/ Load \/ Hook \/ InitializePy \/ OneshotBody \/ Return
           \/ StopVerb \/ UNCHANGED <<flight, ended, calls>>
      BY DEF PyKitNext, PyKitStep, pyKitVars, StartPy, AwaitReady, CheckError, SayReady,
             ThreadEnds, ThreadSaysError, WorkersEnd
    <2>12. QED
      BY <2>1, <2>2, <2>3, <2>4, <2>5, <2>6, <2>7, <2>8, <2>9, <2>10, <2>11
  <1>3. QED
    BY <1>1, <1>2 DEF PyKitInv, ExitAfterStopped

\* No READY after a STOPPED.
LEMMA NoReadyAfterStopped ==
  ASSUME PyKitInv, [PyKitNext]_pyKitVars
  PROVE  PyStopAnnounced'
  <1>t. sent \in Seq(Published) /\ Len(sent) \in Nat
    BY DEF PyKitInv, PyKitTypeOK
  <1>1. (ServicePy /\ ended = "0" /\ ~agent.stub => Says("stopped"))'
    BY ExitsAfterStopped DEF ExitAfterStopped
  <1>2. ASSUME ServicePy', ~swallowed',
               NEW i \in 1..Len(sent'), NEW j \in 1..Len(sent'),
               i < j, sent'[i] = "stopped"
        PROVE  sent'[j] # "ready"
    <2>0. ServicePy /\ ~swallowed
      BY <1>2, PySpeaks DEF PyKitInv, ServicePy
    <2>1. CASE sent' = sent
      BY <2>1, <2>0, <1>2 DEF PyKitInv, PyStopAnnounced
    <2>2. ASSUME NEW e \in Published, sent' = Append(sent, e), e = "ready" => Main("ready")
          PROVE  sent'[j] # "ready"
      <3>1. /\ Len(sent') = Len(sent) + 1 /\ sent'[Len(sent) + 1] = e
            /\ \A k \in 1..Len(sent) : sent'[k] = sent[k]
        BY <2>2, <1>t
      <3>2. i \in 1..Len(sent) /\ sent[i] = "stopped"
        BY <3>1, <1>2, <1>t
      <3>3. CASE j \in 1..Len(sent)
        BY <3>1, <3>2, <3>3, <2>0, <1>2 DEF PyKitInv, PyStopAnnounced
      <3>4. CASE j = Len(sent) + 1
        <4>1. Says("stopped")
          BY <3>2 DEF Says
        <4>2. ~Main("ready")
          BY <4>1, <2>0 DEF PyKitInv, MainOver, Main
        <4>3. QED
          BY <4>2, <2>2, <3>1, <3>4
      <3>5. QED
        BY <3>1, <3>3, <3>4, <1>2, <1>t
    <2>3. QED
      BY <2>1, <2>2, PySpeaks DEF PyKitInv
  <1>3. QED
    BY <1>1, <1>2 DEF PyStopAnnounced

\* The invariant of the Python kit holds at first, also of a process that has
\* ended already.
LEMMA PyKitInvAtFirst ==
  ASSUME PyKitInit \/ (PyKitAt("gone", "0") /\ agent.verb = "describe")
  PROVE  PyKitInv
  <1>1. /\ agent.verb \in {"start", "stop", "reload", "restart", "describe"}
        /\ at \in {"load", "gone"} /\ calls = <<>> /\ flight = "none" /\ thread = "none"
        /\ sent = <<>> /\ ended \in {"none", "0"}
        /\ agent.verb = "start" => ended = "none"
    BY DEF PyKitInit, PyKitAt
  <1>2. PyKitTypeOK
    BY <1>1 DEF PyKitTypeOK
  <1>3. ~Says("stopped")
    BY <1>1 DEF Says
  <1>4. QED
    BY <1>1, <1>2, <1>3
       DEF PyKitInv, ServiceAt, ExitAfterStopped, MainOver, PyStopAnnounced, ServicePy

\* The invariant of the Python kit is kept by every step.
LEMMA PyKitInvKept ==
  ASSUME PyKitInv, [PyKitNext]_pyKitVars
  PROVE  PyKitInv'
  BY PyTyped, MainStaysOver, ExitsAfterStopped, NoReadyAfterStopped DEF PyKitInv

\* A Python service that exits 0 has said STOPPED, and does not say READY after
\* it, for any number of SIGTERMs nested in any way.
THEOREM PyKitStopAnnounced == PyKitSpec => []PyStopAnnounced
  <1>1. PyKitInit => PyKitInv
    BY PyKitInvAtFirst
  <1>2. PyKitInv /\ [PyKitNext]_pyKitVars => PyKitInv'
    BY PyKitInvKept
  <1>3. PyKitInv => PyStopAnnounced
    BY DEF PyKitInv
  <1>4. QED
    BY <1>1, <1>2, <1>3, PTL DEF PyKitSpec
=============================================================================
