------------------------- MODULE CameraPipelineProofs -------------------------
(***************************************************************************)
(* Proofs about CameraPipeline, for every set of cameras and consumers and *)
(* every limit of attempts and frames.                                     *)
(***************************************************************************)
EXTENDS CameraPipeline, FiniteSetTheorems, TLAPS

\* The slot follows the device, and the frames handed out end with the one
\* marked as consumed.
SlotInv ==
    \A k \in Cameras :
        /\ sequence[k] = IF worker[k] = "publish" THEN latest[k] + 1 ELSE latest[k]
        /\ consumed[k] <= latest[k]
        /\ delivered[k] \subseteq 1 .. consumed[k]
        /\ consumed[k] # 0 => consumed[k] \in delivered[k]

\* A worker without a thread that runs, and the steps at which its device may be open.
Ended == {"none", "unborn", "done"}
DeviceLabels == {"streaming", "loop", "read", "publish", "failure", "finally"}

\* What the state of a worker says about its thread and its device.
ModeInv ==
    \A k \in Cameras :
        /\ device[k] => worker[k] \in DeviceLabels
        /\ ~thread[k] => worker[k] \in Ended /\ mode[k] = "closed"
        /\ mode[k] = "closed" => worker[k] \in Ended \cup {"exit"}
        /\ worker[k] \in {"exit", "done"} =>
              mode[k] \in {"closed", "fault"} \/ (mode[k] = "stopping" /\ now = k)

\* The workers a close or a rollback is about; those it has gone through have no
\* thread, as long as none of them raised.
Closing == IF op = "close" THEN Cameras ELSE begun

CloseInv ==
    /\ now # NoCamera => op \in {"close", "rollback"}
    /\ op \in {"close", "rollback"} /\ ~failed =>
          \A k \in Closing \ (todo \cup {now}) : ~thread[k]

CameraInv ==
    /\ TypeOK
    /\ SlotInv
    /\ FramesAccounted
    /\ ModeInv
    /\ CloseInv
    /\ NoLostWakeup

\* Waking the consumers of a camera leaves none of them waiting and the others alone.
LEMMA NotifyWakes ==
    ASSUME ask \in [Consumers -> Asks], NEW k \in Cameras, Notify(k)
    PROVE  /\ ask' \in [Consumers -> Asks]
           /\ \A c \in Consumers :
                 ask'[c].at = "wait" => ask'[c] = ask[c] /\ ask[c].camera # k
<1> SUFFICES ASSUME NEW c \in Consumers
             PROVE  /\ ask'[c] \in Asks
                    /\ ask'[c].at = "wait" => ask'[c] = ask[c] /\ ask[c].camera # k
  BY DEF Notify
<1>1. CASE ask[c].at = "wait" /\ ask[c].camera = k
  <2>1. ask[c] \in [at : {"look", "wait"}, camera : Cameras, after : Nat]
    BY <1>1 DEF Asks, NoAsk
  <2>2. ask'[c] = [ask[c] EXCEPT !.at = "look"]
    BY <1>1 DEF Notify
  <2> QED
    BY <2>1, <2>2 DEF Asks
<1>2. CASE ~(ask[c].at = "wait" /\ ask[c].camera = k)
  BY <1>2 DEF Notify, Asks
<1> QED
  BY <1>1, <1>2

\* The frames handed out are finitely many, the last of them the one consumed.
LEMMA DeliveredFinite ==
    ASSUME TypeOK, NEW k \in Cameras
    PROVE  IsFiniteSet(delivered[k])
<1>1. IsFiniteSet(1 .. FrameLimit)
  BY BoundsAssumption, FS_Interval
<1> QED
  BY <1>1, FS_Subset DEF TypeOK

\* Every step of a worker thread preserves the invariant.
LEMMA RunKeeps ==
    ASSUME CameraInv, NEW k \in Cameras, Run(k)
    PROVE  CameraInv'
<1> USE DEF CameraInv
<1>1. CASE CheckStop(k)
  <2>1. ask' = ask
    BY <1>1 DEF CheckStop
  <2>2. TypeOK'
    BY <1>1, <2>1, BoundsAssumption DEF CheckStop, TypeOK, SlotInv, Goto,
        Modes, WorkerLabels, slotVars, sessionVars
  <2>3. SlotInv'
    BY <1>1 DEF CheckStop, TypeOK, SlotInv, Goto, slotVars
  <2>4. FramesAccounted'
    BY <1>1 DEF CheckStop, TypeOK, SlotInv, FramesAccounted, slotVars
  <2>5. ModeInv'
    BY <1>1 DEF CheckStop, TypeOK, ModeInv, Ended, DeviceLabels, Goto,
        sessionVars
  <2>6. CloseInv'
    BY <1>1 DEF CheckStop, CloseInv, Closing, sessionVars
  <2>7. NoLostWakeup'
    BY <1>1, <2>1 DEF CheckStop, TypeOK, NoLostWakeup, Asks, NoAsk, slotVars
  <2> QED
    BY <2>2, <2>3, <2>4, <2>5, <2>6, <2>7
<1>2. CASE EnterOpening(k)
  <2>1. /\ ask' \in [Consumers -> Asks]
        /\ \A c \in Consumers :
              ask'[c].at = "wait" => ask'[c] = ask[c] /\ ask[c].camera # k
    BY <1>2, NotifyWakes DEF EnterOpening, SetState, TypeOK
  <2>2. TypeOK'
    BY <1>2, <2>1, BoundsAssumption DEF EnterOpening, SetState, TypeOK,
        SlotInv, Goto, Modes, WorkerLabels, slotVars, sessionVars
  <2>3. SlotInv'
    BY <1>2 DEF EnterOpening, SetState, TypeOK, SlotInv, Goto, slotVars
  <2>4. FramesAccounted'
    BY <1>2 DEF EnterOpening, TypeOK, SlotInv, FramesAccounted, slotVars
  <2>5. ModeInv'
    BY <1>2 DEF EnterOpening, SetState, TypeOK, ModeInv, Ended, DeviceLabels,
        Goto, sessionVars
  <2>6. CloseInv'
    BY <1>2 DEF EnterOpening, CloseInv, Closing, sessionVars
  <2>7. NoLostWakeup'
    BY <1>2, <2>1 DEF EnterOpening, SetState, TypeOK, NoLostWakeup, Asks,
        NoAsk, slotVars
  <2> QED
    BY <2>2, <2>3, <2>4, <2>5, <2>6, <2>7
<1>3. CASE OpenDevice(k)
  <2>1. ask' = ask
    BY <1>3 DEF OpenDevice
  <2>2. TypeOK'
    BY <1>3, <2>1, BoundsAssumption DEF OpenDevice, TypeOK, SlotInv, Goto,
        Modes, WorkerLabels, slotVars, sessionVars
  <2>3. SlotInv'
    BY <1>3 DEF OpenDevice, TypeOK, SlotInv, Goto, slotVars
  <2>4. FramesAccounted'
    BY <1>3 DEF OpenDevice, TypeOK, SlotInv, FramesAccounted, slotVars
  <2>5. ModeInv'
    <3>1. \A j \in Cameras : device'[j] => worker'[j] \in DeviceLabels
      BY <1>3 DEF OpenDevice, TypeOK, ModeInv, DeviceLabels, Goto
    <3>2. \A j \in Cameras \ {k} : worker'[j] = worker[j]
      BY <1>3 DEF OpenDevice, TypeOK, Goto
    <3>3. /\ worker[k] = "open" /\ worker'[k] \in {"streaming", "failure"}
          /\ mode' = mode /\ thread' = thread /\ now' = now
      BY <1>3 DEF OpenDevice, TypeOK, Goto, sessionVars
    <3> QED
      BY <3>1, <3>2, <3>3 DEF ModeInv, Ended
  <2>6. CloseInv'
    BY <1>3 DEF OpenDevice, CloseInv, Closing, sessionVars
  <2>7. NoLostWakeup'
    BY <1>3, <2>1 DEF OpenDevice, TypeOK, NoLostWakeup, Asks, NoAsk, slotVars
  <2> QED
    BY <2>2, <2>3, <2>4, <2>5, <2>6, <2>7
<1>4. CASE EnterStreaming(k)
  <2>1. /\ ask' \in [Consumers -> Asks]
        /\ \A c \in Consumers :
              ask'[c].at = "wait" => ask'[c] = ask[c] /\ ask[c].camera # k
    BY <1>4, NotifyWakes DEF EnterStreaming, SetState, TypeOK
  <2>2. TypeOK'
    BY <1>4, <2>1, BoundsAssumption DEF EnterStreaming, SetState, TypeOK,
        SlotInv, Goto, Modes, WorkerLabels, slotVars, sessionVars
  <2>3. SlotInv'
    BY <1>4 DEF EnterStreaming, SetState, TypeOK, SlotInv, Goto, slotVars
  <2>4. FramesAccounted'
    BY <1>4 DEF EnterStreaming, TypeOK, SlotInv, FramesAccounted, slotVars
  <2>5. ModeInv'
    BY <1>4 DEF EnterStreaming, SetState, TypeOK, ModeInv, Ended,
        DeviceLabels, Goto, sessionVars
  <2>6. CloseInv'
    BY <1>4 DEF EnterStreaming, CloseInv, Closing, sessionVars
  <2>7. NoLostWakeup'
    BY <1>4, <2>1 DEF EnterStreaming, SetState, TypeOK, NoLostWakeup, Asks,
        NoAsk, slotVars
  <2> QED
    BY <2>2, <2>3, <2>4, <2>5, <2>6, <2>7
<1>5. CASE CheckLoop(k)
  <2>1. ask' = ask
    BY <1>5 DEF CheckLoop
  <2>2. TypeOK'
    BY <1>5, <2>1, BoundsAssumption DEF CheckLoop, TypeOK, SlotInv, Goto,
        Modes, WorkerLabels, slotVars, sessionVars
  <2>3. SlotInv'
    BY <1>5 DEF CheckLoop, TypeOK, SlotInv, Goto, slotVars
  <2>4. FramesAccounted'
    BY <1>5 DEF CheckLoop, TypeOK, SlotInv, FramesAccounted, slotVars
  <2>5. ModeInv'
    BY <1>5 DEF CheckLoop, TypeOK, ModeInv, Ended, DeviceLabels, Goto,
        sessionVars
  <2>6. CloseInv'
    BY <1>5 DEF CheckLoop, CloseInv, Closing, sessionVars
  <2>7. NoLostWakeup'
    BY <1>5, <2>1 DEF CheckLoop, TypeOK, NoLostWakeup, Asks, NoAsk, slotVars
  <2> QED
    BY <2>2, <2>3, <2>4, <2>5, <2>6, <2>7
<1>6. CASE ReadFrame(k)
  <2>1. ask' = ask
    BY <1>6 DEF ReadFrame
  <2>2. TypeOK'
    <3>1. worker' \in [Cameras -> WorkerLabels]
      BY <1>6 DEF ReadFrame, TypeOK, Goto, WorkerLabels
    <3>2. sequence' \in [Cameras -> 0 .. FrameLimit]
      BY <1>6, BoundsAssumption DEF ReadFrame, TypeOK
    <3> QED
      BY <1>6, <2>1, <3>1, <3>2 DEF ReadFrame, TypeOK, slotVars, sessionVars
  <2>3. SlotInv'
    BY <1>6 DEF ReadFrame, TypeOK, SlotInv, Goto, slotVars
  <2>4. FramesAccounted'
    BY <1>6 DEF ReadFrame, TypeOK, SlotInv, FramesAccounted, slotVars
  <2>5. ModeInv'
    BY <1>6 DEF ReadFrame, TypeOK, ModeInv, Ended, DeviceLabels, Goto,
        sessionVars
  <2>6. CloseInv'
    BY <1>6 DEF ReadFrame, CloseInv, Closing, sessionVars
  <2>7. NoLostWakeup'
    BY <1>6, <2>1 DEF ReadFrame, TypeOK, NoLostWakeup, Asks, NoAsk, slotVars
  <2> QED
    BY <2>2, <2>3, <2>4, <2>5, <2>6, <2>7
<1>7. CASE Publish(k)
  <2>1. /\ ask' \in [Consumers -> Asks]
        /\ \A c \in Consumers :
              ask'[c].at = "wait" => ask'[c] = ask[c] /\ ask[c].camera # k
    BY <1>7, NotifyWakes DEF Publish, TypeOK
  <2>2. TypeOK'
    BY <1>7, <2>1, BoundsAssumption DEF Publish, TypeOK, SlotInv, Goto, Modes,
        WorkerLabels, slotVars, sessionVars
  <2>3. SlotInv'
    BY <1>7 DEF Publish, TypeOK, SlotInv, Goto, slotVars
  <2>4. FramesAccounted'
    <3>1. \A j \in Cameras \ {k} :
              /\ captured'[j] = captured[j] /\ overflow'[j] = overflow[j]
              /\ latest'[j] = latest[j]
      BY <1>7 DEF Publish, TypeOK
    <3>2. /\ captured'[k] = captured[k] + 1 /\ latest'[k] > consumed[k]
          /\ overflow'[k] = IF latest[k] > consumed[k] THEN overflow[k] + 1 ELSE overflow[k]
      BY <1>7 DEF Publish, TypeOK, SlotInv
    <3>3. Cardinality(delivered[k]) \in Nat /\ overflow[k] \in Nat
      BY DeliveredFinite, FS_CardinalityType DEF TypeOK
    <3>4. captured'[k] = Cardinality(delivered[k]) + overflow'[k]
                           + (IF latest'[k] > consumed[k] THEN 1 ELSE 0)
      BY <3>2, <3>3 DEF FramesAccounted
    <3> QED
      BY <1>7, <3>1, <3>4 DEF Publish, FramesAccounted
  <2>5. ModeInv'
    BY <1>7 DEF Publish, TypeOK, ModeInv, Ended, DeviceLabels, Goto,
        sessionVars
  <2>6. CloseInv'
    BY <1>7 DEF Publish, CloseInv, Closing, sessionVars
  <2>7. NoLostWakeup'
    BY <1>7, <2>1 DEF Publish, TypeOK, NoLostWakeup, Asks, NoAsk, slotVars
  <2> QED
    BY <2>2, <2>3, <2>4, <2>5, <2>6, <2>7
<1>8. CASE CaptureFailure(k)
  <2>1. /\ ask' \in [Consumers -> Asks]
        /\ \A c \in Consumers :
              ask'[c].at = "wait" => ask'[c] = ask[c] /\ ask[c].camera # k
    BY <1>8, NotifyWakes DEF CaptureFailure, TypeOK
  <2>2. TypeOK'
    BY <1>8, <2>1, BoundsAssumption DEF CaptureFailure, TypeOK, SlotInv, Goto,
        Modes, WorkerLabels, slotVars, sessionVars
  <2>3. SlotInv'
    BY <1>8 DEF CaptureFailure, TypeOK, SlotInv, Goto, slotVars
  <2>4. FramesAccounted'
    BY <1>8 DEF CaptureFailure, TypeOK, SlotInv, FramesAccounted, slotVars
  <2>5. ModeInv'
    BY <1>8 DEF CaptureFailure, TypeOK, ModeInv, Ended, DeviceLabels, Goto,
        sessionVars
  <2>6. CloseInv'
    BY <1>8 DEF CaptureFailure, CloseInv, Closing, sessionVars
  <2>7. NoLostWakeup'
    BY <1>8, <2>1 DEF CaptureFailure, TypeOK, NoLostWakeup, Asks, NoAsk,
        slotVars
  <2> QED
    BY <2>2, <2>3, <2>4, <2>5, <2>6, <2>7
<1>9. CASE Release(k)
  <2>1. ask' = ask
    BY <1>9 DEF Release
  <2>2. TypeOK'
    BY <1>9, <2>1, BoundsAssumption DEF Release, TypeOK, SlotInv, Goto, Modes,
        WorkerLabels, slotVars, sessionVars
  <2>3. SlotInv'
    BY <1>9 DEF Release, TypeOK, SlotInv, Goto, slotVars
  <2>4. FramesAccounted'
    BY <1>9 DEF Release, TypeOK, SlotInv, FramesAccounted, slotVars
  <2>5. ModeInv'
    BY <1>9 DEF Release, TypeOK, ModeInv, Ended, DeviceLabels, Goto,
        sessionVars
  <2>6. CloseInv'
    BY <1>9 DEF Release, CloseInv, Closing, sessionVars
  <2>7. NoLostWakeup'
    BY <1>9, <2>1 DEF Release, TypeOK, NoLostWakeup, Asks, NoAsk, slotVars
  <2> QED
    BY <2>2, <2>3, <2>4, <2>5, <2>6, <2>7
<1>10. CASE CountAttempt(k)
  <2>1. ask' = ask
    BY <1>10 DEF CountAttempt
  <2>2. TypeOK'
    <3>1. attempts' \in [Cameras -> 0 .. MaximumAttempts + 1]
      BY <1>10, BoundsAssumption DEF CountAttempt, TypeOK
    <3>2. \E label \in {"closed", "exhausted", "backoff"} : Goto(k, label)
      BY <1>10 DEF CountAttempt
    <3>3. worker' \in [Cameras -> WorkerLabels]
      BY <3>2 DEF TypeOK, Goto, WorkerLabels
    <3> QED
      BY <1>10, <3>1, <3>3 DEF CountAttempt, TypeOK, slotVars, sessionVars
  <2>3. SlotInv'
    BY <1>10 DEF CountAttempt, TypeOK, SlotInv, Goto, slotVars
  <2>4. FramesAccounted'
    BY <1>10, SMTT(30) DEF CountAttempt, TypeOK, SlotInv, FramesAccounted, slotVars
  <2>5. ModeInv'
    BY <1>10, SMTT(30) DEF CountAttempt, TypeOK, ModeInv, Ended, DeviceLabels, Goto,
        sessionVars
  <2>6. CloseInv'
    BY <1>10 DEF CountAttempt, CloseInv, Closing, sessionVars
  <2>7. NoLostWakeup'
    BY <1>10, <2>1 DEF CountAttempt, TypeOK, NoLostWakeup, Asks, NoAsk,
        slotVars
  <2> QED
    BY <2>2, <2>3, <2>4, <2>5, <2>6, <2>7
<1>11. CASE EnterFault(k)
  <2>1. /\ ask' \in [Consumers -> Asks]
        /\ \A c \in Consumers :
              ask'[c].at = "wait" => ask'[c] = ask[c] /\ ask[c].camera # k
    BY <1>11, NotifyWakes DEF EnterFault, SetState, TypeOK
  <2>2. TypeOK'
    BY <1>11, <2>1, BoundsAssumption DEF EnterFault, SetState, TypeOK,
        SlotInv, Goto, Modes, WorkerLabels, slotVars, sessionVars
  <2>3. SlotInv'
    BY <1>11 DEF EnterFault, SetState, TypeOK, SlotInv, Goto, slotVars
  <2>4. FramesAccounted'
    BY <1>11 DEF EnterFault, TypeOK, SlotInv, FramesAccounted, slotVars
  <2>5. ModeInv'
    BY <1>11 DEF EnterFault, SetState, TypeOK, ModeInv, Ended, DeviceLabels,
        Goto, sessionVars
  <2>6. CloseInv'
    BY <1>11 DEF EnterFault, CloseInv, Closing, sessionVars
  <2>7. NoLostWakeup'
    BY <1>11, <2>1 DEF EnterFault, SetState, TypeOK, NoLostWakeup, Asks,
        NoAsk, slotVars
  <2> QED
    BY <2>2, <2>3, <2>4, <2>5, <2>6, <2>7
<1>12. CASE EnterBackoff(k)
  <2>1. /\ ask' \in [Consumers -> Asks]
        /\ \A c \in Consumers :
              ask'[c].at = "wait" => ask'[c] = ask[c] /\ ask[c].camera # k
    BY <1>12, NotifyWakes DEF EnterBackoff, SetState, TypeOK
  <2>2. TypeOK'
    BY <1>12, <2>1, BoundsAssumption DEF EnterBackoff, SetState, TypeOK,
        SlotInv, Goto, Modes, WorkerLabels, slotVars, sessionVars
  <2>3. SlotInv'
    BY <1>12 DEF EnterBackoff, SetState, TypeOK, SlotInv, Goto, slotVars
  <2>4. FramesAccounted'
    BY <1>12 DEF EnterBackoff, TypeOK, SlotInv, FramesAccounted, slotVars
  <2>5. ModeInv'
    BY <1>12 DEF EnterBackoff, SetState, TypeOK, ModeInv, Ended, DeviceLabels,
        Goto, sessionVars
  <2>6. CloseInv'
    BY <1>12 DEF EnterBackoff, CloseInv, Closing, sessionVars
  <2>7. NoLostWakeup'
    BY <1>12, <2>1 DEF EnterBackoff, SetState, TypeOK, NoLostWakeup, Asks,
        NoAsk, slotVars
  <2> QED
    BY <2>2, <2>3, <2>4, <2>5, <2>6, <2>7
<1>13. CASE EnterClosed(k)
  <2>1. /\ ask' \in [Consumers -> Asks]
        /\ \A c \in Consumers :
              ask'[c].at = "wait" => ask'[c] = ask[c] /\ ask[c].camera # k
    BY <1>13, NotifyWakes DEF EnterClosed, SetState, TypeOK
  <2>2. TypeOK'
    BY <1>13, <2>1, BoundsAssumption DEF EnterClosed, SetState, TypeOK,
        SlotInv, Goto, Modes, WorkerLabels, slotVars, sessionVars
  <2>3. SlotInv'
    BY <1>13 DEF EnterClosed, SetState, TypeOK, SlotInv, Goto, slotVars
  <2>4. FramesAccounted'
    BY <1>13 DEF EnterClosed, TypeOK, SlotInv, FramesAccounted, slotVars
  <2>5. ModeInv'
    BY <1>13 DEF EnterClosed, SetState, TypeOK, ModeInv, Ended, DeviceLabels,
        Goto, sessionVars
  <2>6. CloseInv'
    BY <1>13 DEF EnterClosed, CloseInv, Closing, sessionVars
  <2>7. NoLostWakeup'
    BY <1>13, <2>1 DEF EnterClosed, SetState, TypeOK, NoLostWakeup, Asks,
        NoAsk, slotVars
  <2> QED
    BY <2>2, <2>3, <2>4, <2>5, <2>6, <2>7
<1>14. CASE Exit(k)
  <2>1. ask' = ask
    BY <1>14 DEF Exit
  <2>2. TypeOK'
    BY <1>14, <2>1, BoundsAssumption DEF Exit, TypeOK, SlotInv, Goto, Modes,
        WorkerLabels, slotVars, sessionVars
  <2>3. SlotInv'
    BY <1>14 DEF Exit, TypeOK, SlotInv, Goto, slotVars
  <2>4. FramesAccounted'
    BY <1>14 DEF Exit, TypeOK, SlotInv, FramesAccounted, slotVars
  <2>5. ModeInv'
    BY <1>14 DEF Exit, TypeOK, ModeInv, Ended, DeviceLabels, Goto, sessionVars
  <2>6. CloseInv'
    BY <1>14 DEF Exit, CloseInv, Closing, sessionVars
  <2>7. NoLostWakeup'
    BY <1>14, <2>1 DEF Exit, TypeOK, NoLostWakeup, Asks, NoAsk, slotVars
  <2> QED
    BY <2>2, <2>3, <2>4, <2>5, <2>6, <2>7
<1> QED
  BY <1>1, <1>2, <1>3, <1>4, <1>5, <1>6, <1>7, <1>8, <1>9, <1>10, <1>11,
      <1>12, <1>13, <1>14 DEF Run

\* Every step of a consumer preserves the invariant.
LEMMA ConsumeKeeps ==
    ASSUME CameraInv, NEW c \in Consumers, Consume(c)
    PROVE  CameraInv'
<1> USE DEF CameraInv
<1>1. CASE Ask(c)
  <2>1. ask' \in [Consumers -> Asks] /\ \A d \in Consumers : ask'[d].at = "wait" => ask'[d] = ask[d]
    <3>1. PICK k \in Cameras : \E after \in {0} \cup delivered[k] :
              ask' = [ask EXCEPT ![c] = [at |-> "look", camera |-> k, after |-> after]]
      BY <1>1 DEF Ask
    <3>2. PICK after \in {0} \cup delivered[k] :
              ask' = [ask EXCEPT ![c] = [at |-> "look", camera |-> k, after |-> after]]
      BY <3>1
    <3>3. after \in Nat
      BY BoundsAssumption DEF TypeOK
    <3> QED
      BY <3>2, <3>3 DEF Asks, TypeOK
  <2>2. UNCHANGED <<mode, thread, stopEvent, device, runVars, slotVars, sessionVars>>
    BY <1>1 DEF Ask
  <2> QED
    BY <2>1, <2>2 DEF runVars, slotVars, sessionVars, TypeOK, SlotInv, FramesAccounted, ModeInv,
        CloseInv, Closing, NoLostWakeup
<1>2. CASE WaitEnds(c)
  <2>1. ask' \in [Consumers -> Asks] /\ \A d \in Consumers : ask'[d].at = "wait" => ask'[d] = ask[d]
    <3>1. ask[c] \in [at : {"look", "wait"}, camera : Cameras, after : Nat]
      BY <1>2 DEF WaitEnds, Asks, NoAsk, TypeOK
    <3>2. [ask[c] EXCEPT !.at = "look"] \in Asks
      BY <3>1 DEF Asks
    <3>3. /\ ask' = [ask EXCEPT ![c] = [ask[c] EXCEPT !.at = "look"]]
          /\ ask \in [Consumers -> Asks]
      BY <1>2 DEF WaitEnds, TypeOK
    <3>4. [ask[c] EXCEPT !.at = "look"].at # "wait"
      BY <3>1
    <3> QED
      BY <3>2, <3>3, <3>4
  <2>2. UNCHANGED <<mode, thread, stopEvent, device, runVars, slotVars, sessionVars>>
    BY <1>2 DEF WaitEnds
  <2> QED
    BY <2>1, <2>2 DEF runVars, slotVars, sessionVars, TypeOK, SlotInv, FramesAccounted, ModeInv,
        CloseInv, Closing, NoLostWakeup
<1>3. CASE Look(c)
  <2> DEFINE k == ask[c].camera
  <2>1. ask[c] \in [at : {"look", "wait"}, camera : Cameras, after : Nat]
    BY <1>3 DEF Look, TypeOK, Asks, NoAsk
  <2>2. UNCHANGED <<mode, thread, stopEvent, device, runVars, latest, captured, overflow, sessionVars>>
    BY <1>3 DEF Look
  <2>3. CASE latest[k] > ask[c].after
    <3>1. /\ consumed' = [consumed EXCEPT ![k] = latest[k]]
          /\ delivered' = [delivered EXCEPT ![k] = @ \cup {latest[k]}]
          /\ ask' = [ask EXCEPT ![c] = NoAsk]
          /\ k \in Cameras /\ latest[k] \in 1 .. FrameLimit
      BY <1>3, <2>1, <2>3, BoundsAssumption DEF Look, TypeOK
    <3>2. TypeOK'
      BY <2>2, <3>1 DEF TypeOK, Asks, runVars, sessionVars
    <3>3. SlotInv'
      BY <2>2, <3>1 DEF SlotInv, TypeOK, runVars
    <3>4. FramesAccounted'
      <4>1. \A j \in Cameras \ {k} : consumed'[j] = consumed[j] /\ delivered'[j] = delivered[j]
        BY <3>1 DEF TypeOK
      <4>2. consumed'[k] = latest[k] /\ delivered'[k] = delivered[k] \cup {latest[k]}
        BY <3>1 DEF TypeOK
      <4>3. Cardinality(delivered'[k]) = IF latest[k] \in delivered[k]
                                           THEN Cardinality(delivered[k])
                                           ELSE Cardinality(delivered[k]) + 1
        BY <3>1, <4>2, DeliveredFinite, FS_AddElement
      <4>4. latest[k] \in delivered[k] <=> ~(latest[k] > consumed[k])
        <5>1. /\ consumed[k] \in Nat /\ latest[k] \in Nat \ {0} /\ consumed[k] <= latest[k]
              /\ \A s \in delivered[k] : s \in Nat /\ s <= consumed[k]
              /\ consumed[k] # 0 => consumed[k] \in delivered[k]
          BY <3>1 DEF SlotInv, TypeOK
        <5>2. latest[k] > consumed[k] => latest[k] \notin delivered[k]
          BY <5>1
        <5>3. ~(latest[k] > consumed[k]) => latest[k] = consumed[k] /\ consumed[k] # 0
          BY <5>1
        <5> QED
          BY <5>1, <5>2, <5>3
      <4>5. Cardinality(delivered[k]) \in Nat /\ overflow[k] \in Nat
        BY <3>1, DeliveredFinite, FS_CardinalityType DEF TypeOK
      <4>6. captured[k] = Cardinality(delivered'[k]) + overflow[k]
        <5>1. captured[k] = Cardinality(delivered[k]) + overflow[k]
                              + (IF latest[k] > consumed[k] THEN 1 ELSE 0)
          BY <3>1 DEF FramesAccounted
        <5> QED
          BY <4>3, <4>4, <4>5, <5>1
      <4>7. ~(latest[k] > consumed'[k])
        BY <3>1, <4>2 DEF TypeOK
      <4>8. captured[k] = Cardinality(delivered'[k]) + overflow[k]
                            + (IF latest[k] > consumed'[k] THEN 1 ELSE 0)
        <5>1. captured[k] \in Nat
          BY <3>1 DEF TypeOK
        <5> QED
          BY <4>5, <4>6, <4>7, <5>1
      <4> QED
        BY <2>2, <4>1, <4>8 DEF FramesAccounted
    <3>5. ModeInv' /\ CloseInv'
      BY <2>2 DEF ModeInv, CloseInv, Closing, runVars, sessionVars
    <3>6. NoLostWakeup'
      BY <2>2, <3>1 DEF NoLostWakeup, NoAsk, TypeOK
    <3> QED
      BY <3>2, <3>3, <3>4, <3>5, <3>6
  <2>4. CASE ~(latest[k] > ask[c].after)
    <3>1. UNCHANGED <<consumed, delivered>>
      BY <1>3, <2>4 DEF Look
    <3>2. \/ ask' = [ask EXCEPT ![c] = NoAsk]
          \/ ask' = [ask EXCEPT ![c].at = "wait"] /\ mode[k] # "closed" /\ latest[k] <= ask[c].after
      BY <1>3, <2>4 DEF Look
    <3>3. ask' \in [Consumers -> Asks]
      BY <2>1, <3>2 DEF TypeOK, Asks
    <3>4. TypeOK' /\ SlotInv' /\ FramesAccounted' /\ ModeInv' /\ CloseInv'
      BY <2>2, <3>1, <3>3 DEF runVars, sessionVars, TypeOK, SlotInv, FramesAccounted, ModeInv,
          CloseInv, Closing
    <3>5. NoLostWakeup'
      <4>1. CASE ask' = [ask EXCEPT ![c] = NoAsk]
        BY <2>2, <4>1 DEF NoLostWakeup, NoAsk, TypeOK
      <4>2. CASE /\ ask' = [ask EXCEPT ![c].at = "wait"]
                 /\ mode[k] # "closed" /\ latest[k] <= ask[c].after
        <5>1. /\ ask'[c].camera = k /\ ask'[c].after = ask[c].after
              /\ \A d \in Consumers \ {c} : ask'[d] = ask[d]
          BY <2>1, <4>2 DEF TypeOK
        <5> QED
          BY <2>2, <4>2, <5>1 DEF NoLostWakeup
      <4> QED
        BY <3>2, <4>1, <4>2
    <3> QED
      BY <3>4, <3>5
  <2> QED
    BY <2>3, <2>4
<1> QED
  BY <1>1, <1>2, <1>3 DEF Consume

\* Every step of start and close preserves the invariant.
LEMMA SessionKeeps ==
    ASSUME CameraInv, NEW k \in Cameras,
           \/ BeginStart \/ BeginClose \/ CloseDevice \/ Join
           \/ StartWorker(k) \/ SpawnFails(k) \/ CloseWorker(k)
    PROVE  CameraInv'
<1> USE DEF CameraInv
<1>1. CASE BeginStart
  <2>1. ask' = ask
    BY <1>1 DEF BeginStart
  <2>2. TypeOK'
    BY <1>1, <2>1, BoundsAssumption DEF BeginStart, TypeOK, Modes,
        WorkerLabels, runVars, slotVars, sessionVars
  <2>3. SlotInv'
    BY <1>1 DEF BeginStart, TypeOK, SlotInv, runVars, slotVars
  <2>4. FramesAccounted'
    BY <1>1 DEF BeginStart, FramesAccounted, slotVars
  <2>5. ModeInv'
    BY <1>1, NoCameraAssumption DEF BeginStart, TypeOK, ModeInv, Ended,
        DeviceLabels, WorkerLabels, runVars, sessionVars
  <2>6. CloseInv'
    BY <1>1, NoCameraAssumption DEF BeginStart, TypeOK, CloseInv, Closing
  <2>7. NoLostWakeup'
    BY <1>1, <2>1 DEF BeginStart, TypeOK, NoLostWakeup, Asks, NoAsk, slotVars
  <2> QED
    BY <2>2, <2>3, <2>4, <2>5, <2>6, <2>7
<1>2. CASE BeginClose
  <2>1. ask' = ask
    BY <1>2 DEF BeginClose
  <2>2. TypeOK'
    BY <1>2, <2>1, BoundsAssumption DEF BeginClose, TypeOK, Modes,
        WorkerLabels, runVars, slotVars, sessionVars
  <2>3. SlotInv'
    BY <1>2 DEF BeginClose, TypeOK, SlotInv, runVars, slotVars
  <2>4. FramesAccounted'
    BY <1>2 DEF BeginClose, FramesAccounted, slotVars
  <2>5. ModeInv'
    BY <1>2, NoCameraAssumption DEF BeginClose, TypeOK, ModeInv, Ended,
        DeviceLabels, WorkerLabels, runVars, sessionVars
  <2>6. CloseInv'
    BY <1>2, NoCameraAssumption DEF BeginClose, TypeOK, CloseInv, Closing
  <2>7. NoLostWakeup'
    BY <1>2, <2>1 DEF BeginClose, TypeOK, NoLostWakeup, Asks, NoAsk, slotVars
  <2> QED
    BY <2>2, <2>3, <2>4, <2>5, <2>6, <2>7
<1>3. CASE CloseDevice
  <2>1. ask' = ask
    BY <1>3 DEF CloseDevice
  <2>2. TypeOK'
    BY <1>3, <2>1, BoundsAssumption DEF CloseDevice, TypeOK, Modes,
        WorkerLabels, runVars, slotVars, sessionVars
  <2>3. SlotInv'
    BY <1>3 DEF CloseDevice, TypeOK, SlotInv, runVars, slotVars
  <2>4. FramesAccounted'
    BY <1>3 DEF CloseDevice, FramesAccounted, slotVars
  <2>5. ModeInv'
    BY <1>3, NoCameraAssumption DEF CloseDevice, TypeOK, ModeInv, Ended,
        DeviceLabels, WorkerLabels, runVars, sessionVars
  <2>6. CloseInv'
    BY <1>3, NoCameraAssumption DEF CloseDevice, TypeOK, CloseInv, Closing
  <2>7. NoLostWakeup'
    BY <1>3, <2>1 DEF CloseDevice, TypeOK, NoLostWakeup, Asks, NoAsk, slotVars
  <2> QED
    BY <2>2, <2>3, <2>4, <2>5, <2>6, <2>7
<1>4. CASE Join
  <2>1. /\ ask' \in [Consumers -> Asks]
        /\ \A c \in Consumers : ask'[c].at = "wait" =>
              /\ ask'[c] = ask[c]
              /\ mode'[ask[c].camera] = "closed" => mode[ask[c].camera] = "closed"
    BY <1>4, NotifyWakes DEF Join, EndOne, TypeOK, ModeInv, NoLostWakeup,
        Asks, NoAsk
  <2>2. TypeOK'
    <3>1. mode' \in [Cameras -> Modes] /\ thread' \in [Cameras -> BOOLEAN]
      BY <1>4 DEF Join, TypeOK, Modes
    <3>2. /\ op' \in {"none", "start", "rollback", "close"} /\ started' \in BOOLEAN
          /\ todo' \in SUBSET Cameras /\ now' \in Cameras \cup {NoCamera}
          /\ failed' \in BOOLEAN /\ begun' \in SUBSET Cameras
      BY <1>4 DEF Join, EndOne, TypeOK
    <3> QED
      BY <1>4, <2>1, <3>1, <3>2 DEF Join, TypeOK, runVars, slotVars
  <2>3. SlotInv'
    BY <1>4 DEF Join, EndOne, Alive, TypeOK, SlotInv, runVars, slotVars
  <2>4. FramesAccounted'
    BY <1>4 DEF Join, FramesAccounted, slotVars
  <2>5. ModeInv'
    BY <1>4, NoCameraAssumption DEF Join, EndOne, Alive, TypeOK, ModeInv,
        Ended, DeviceLabels, WorkerLabels, runVars, sessionVars
  <2>6. CloseInv'
    BY <1>4, NoCameraAssumption DEF Join, EndOne, Alive, TypeOK, CloseInv, Closing
  <2>7. NoLostWakeup'
    BY <1>4, <2>1 DEF Join, EndOne, Alive, TypeOK, NoLostWakeup, Asks, NoAsk,
        slotVars
  <2> QED
    BY <2>2, <2>3, <2>4, <2>5, <2>6, <2>7
<1>5. CASE StartWorker(k)
  <2>1. ask' = ask
    BY <1>5 DEF StartWorker
  <2>2. TypeOK'
    <3>1. /\ mode' \in [Cameras -> Modes]
          /\ worker' \in [Cameras -> WorkerLabels]
      BY <1>5 DEF StartWorker, Reset, Goto, TypeOK, Modes, WorkerLabels
    <3>2. /\ thread' \in [Cameras -> BOOLEAN]
          /\ stopEvent' \in [Cameras -> BOOLEAN]
          /\ attempts' \in [Cameras -> 0 .. MaximumAttempts + 1]
      <4>1. CASE Alive(k)
        BY <1>5, <4>1 DEF StartWorker, TypeOK
      <4>2. CASE ~Alive(k)
        <5>1. Reset(k)
          BY <1>5, <4>2 DEF StartWorker
        <5>2. thread' \in [Cameras -> BOOLEAN]
          BY <5>1 DEF Reset, TypeOK
        <5>3. stopEvent' \in [Cameras -> BOOLEAN]
          BY <5>1 DEF Reset, TypeOK
        <5>4. attempts' \in [Cameras -> 0 .. MaximumAttempts + 1]
          <6>1. 0 \in 0 .. MaximumAttempts + 1
            BY BoundsAssumption
          <6> QED
            BY <5>1, <6>1 DEF Reset, TypeOK
        <5> QED
          BY <5>2, <5>3, <5>4
      <4> QED
        BY <4>1, <4>2
    <3>3. /\ op' \in {"none", "start", "rollback", "close"} /\ started' \in BOOLEAN
          /\ todo' \in SUBSET Cameras /\ begun' \in SUBSET Cameras
      <4>1. todo' \in SUBSET Cameras
        BY <1>5 DEF StartWorker, TypeOK
      <4>2. CASE todo = {k}
        <5>1. op' = "none" /\ started' = TRUE /\ begun' = {}
          BY <1>5, <4>2 DEF StartWorker
        <5> QED
          BY <4>1, <5>1
      <4>3. CASE todo # {k}
        <5>1. begun' = begun \cup {k} /\ op' = op /\ started' = started
          BY <1>5, <4>3 DEF StartWorker
        <5> QED
          BY <4>1, <5>1 DEF TypeOK
      <4> QED
        BY <4>2, <4>3
    <3> QED
      BY <1>5, <3>1, <3>2, <3>3 DEF StartWorker, TypeOK, slotVars
  <2>3. SlotInv'
    BY <1>5 DEF StartWorker, Reset, Goto, Alive, TypeOK, SlotInv, runVars,
        slotVars
  <2>4. FramesAccounted'
    BY <1>5 DEF StartWorker, FramesAccounted, slotVars
  <2>5. ModeInv'
    BY <1>5, NoCameraAssumption DEF StartWorker, Reset, Goto, Alive, TypeOK,
        ModeInv, Ended, DeviceLabels, WorkerLabels, runVars, sessionVars
  <2>6. CloseInv'
    BY <1>5, NoCameraAssumption DEF StartWorker, Reset, Goto, Alive, TypeOK,
        CloseInv, Closing
  <2>7. NoLostWakeup'
    BY <1>5, <2>1 DEF StartWorker, Reset, Goto, Alive, TypeOK, NoLostWakeup,
        Asks, NoAsk, slotVars
  <2> QED
    BY <2>2, <2>3, <2>4, <2>5, <2>6, <2>7
<1>6. CASE SpawnFails(k)
  <2>1. ask' = ask
    BY <1>6 DEF SpawnFails
  <2>2. TypeOK'
    BY <1>6, <2>1, BoundsAssumption DEF SpawnFails, Reset, Goto, Alive,
        TypeOK, Modes, WorkerLabels, runVars, slotVars, sessionVars
  <2>3. SlotInv'
    BY <1>6 DEF SpawnFails, Reset, Goto, Alive, TypeOK, SlotInv, runVars,
        slotVars
  <2>4. FramesAccounted'
    BY <1>6 DEF SpawnFails, FramesAccounted, slotVars
  <2>5. ModeInv'
    BY <1>6, NoCameraAssumption DEF SpawnFails, Reset, Goto, Alive, TypeOK,
        ModeInv, Ended, DeviceLabels, WorkerLabels, runVars, sessionVars
  <2>6. CloseInv'
    BY <1>6, NoCameraAssumption DEF SpawnFails, Reset, Goto, Alive, TypeOK,
        CloseInv, Closing
  <2>7. NoLostWakeup'
    BY <1>6, <2>1 DEF SpawnFails, Reset, Goto, Alive, TypeOK, NoLostWakeup,
        Asks, NoAsk, slotVars
  <2> QED
    BY <2>2, <2>3, <2>4, <2>5, <2>6, <2>7
<1>7. CASE CloseWorker(k)
  <2>1. /\ ask' \in [Consumers -> Asks]
        /\ \A c \in Consumers : ask'[c].at = "wait" =>
              /\ ask'[c] = ask[c]
              /\ mode'[ask[c].camera] = "closed" => mode[ask[c].camera] = "closed"
    BY <1>7, NotifyWakes DEF CloseWorker, EndOne, TypeOK, ModeInv,
        NoLostWakeup, Asks, NoAsk
  <2>2. TypeOK'
    <3>1. /\ mode' \in [Cameras -> Modes]
          /\ device' \in [Cameras -> BOOLEAN] /\ stopEvent' \in [Cameras -> BOOLEAN]
      BY <1>7 DEF CloseWorker, TypeOK, Modes
    <3>2. /\ op' \in {"none", "start", "rollback", "close"} /\ started' \in BOOLEAN
          /\ todo' \in SUBSET Cameras /\ now' \in Cameras \cup {NoCamera}
          /\ begun' \in SUBSET Cameras
      BY <1>7 DEF CloseWorker, EndOne, TypeOK
    <3> QED
      BY <1>7, <2>1, <3>1, <3>2 DEF CloseWorker, TypeOK, runVars, slotVars
  <2>3. SlotInv'
    BY <1>7 DEF CloseWorker, EndOne, TypeOK, SlotInv, runVars, slotVars
  <2>4. FramesAccounted'
    BY <1>7 DEF CloseWorker, FramesAccounted, slotVars
  <2>5. ModeInv'
    BY <1>7, NoCameraAssumption DEF CloseWorker, EndOne, TypeOK, ModeInv,
        Ended, DeviceLabels, WorkerLabels, runVars, sessionVars
  <2>6. CloseInv'
    BY <1>7, NoCameraAssumption DEF CloseWorker, EndOne, TypeOK, CloseInv, Closing
  <2>7. NoLostWakeup'
    BY <1>7, <2>1 DEF CloseWorker, EndOne, TypeOK, NoLostWakeup, Asks, NoAsk,
        slotVars
  <2> QED
    BY <2>2, <2>3, <2>4, <2>5, <2>6, <2>7
<1> QED
  BY <1>1, <1>2, <1>3, <1>4, <1>5, <1>6, <1>7

\* The invariant holds at the start, when no frame has been handed out.
LEMMA CameraInit == Init => CameraInv
<1> SUFFICES ASSUME Init PROVE CameraInv
  OBVIOUS
<1>1. TypeOK
  <2>1. 0 \in 0 .. MaximumAttempts + 1 /\ 0 \in 0 .. FrameLimit
    BY BoundsAssumption
  <2> QED
    BY <2>1 DEF Init, TypeOK, Modes, WorkerLabels, Asks
<1>2. SlotInv
  BY DEF Init, SlotInv
<1>3. FramesAccounted
  BY FS_EmptySet DEF Init, FramesAccounted
<1>4. ModeInv
  BY DEF Init, ModeInv, Ended, DeviceLabels
<1>5. CloseInv
  BY DEF Init, CloseInv, Closing
<1>6. NoLostWakeup
  BY DEF Init, NoLostWakeup, NoAsk
<1> QED
  BY <1>1, <1>2, <1>3, <1>4, <1>5, <1>6 DEF CameraInv

\* The invariant is inductive.
LEMMA CameraNext == CameraInv /\ [Next]_vars => CameraInv'
<1> SUFFICES ASSUME CameraInv, [Next]_vars PROVE CameraInv'
  OBVIOUS
<1>1. CASE \E k \in Cameras : Run(k)
  BY <1>1, RunKeeps
<1>2. CASE \E c \in Consumers : Consume(c)
  BY <1>2, ConsumeKeeps
<1>3. CASE Session
  <2>1. PICK k \in Cameras :
           \/ BeginStart \/ BeginClose \/ CloseDevice \/ Join
           \/ StartWorker(k) \/ SpawnFails(k) \/ CloseWorker(k)
    BY <1>3, CamerasAssumption DEF Session
  <2> QED
    BY <2>1, SessionKeeps
<1>4. CASE UNCHANGED vars
  BY <1>4 DEF CameraInv, TypeOK, SlotInv, FramesAccounted, ModeInv, CloseInv, Closing,
      NoLostWakeup, vars, runVars, slotVars, sessionVars
<1> QED
  BY <1>1, <1>2, <1>3, <1>4 DEF Next

THEOREM CameraInvariant == Spec => []CameraInv
<1> QED
  BY CameraInit, CameraNext, PTL DEF Spec

\* Every variable of the cameras keeps its type.
THEOREM CamerasTyped == Spec => []TypeOK
<1> QED
  BY CameraInvariant, PTL DEF CameraInv

\* Every frame captured is handed out, counted as overflow or in the slot.
THEOREM FramesAreAccounted == Spec => []FramesAccounted
<1> QED
  BY CameraInvariant, PTL DEF CameraInv

\* No consumer sleeps over a frame it asked for or over the end of its camera.
THEOREM WakeupsAreKept == Spec => []NoLostWakeup
<1> QED
  BY CameraInvariant, PTL DEF CameraInv

\* A camera that says CLOSED has released its device and cannot open it again.
THEOREM ClosedMeansReleased == Spec => []ClosedIsReleased
<1>1. CameraInv => ClosedIsReleased
  BY DEF CameraInv, ModeInv, ClosedIsReleased, Ended, DeviceLabels
<1> QED
  BY <1>1, CameraInvariant, PTL

\* A worker whose thread has ended says CLOSED or FAULT.
THEOREM DeadSettles == Spec => []DeadIsSettled
<1>1. CameraInv => DeadIsSettled
  BY DEF CameraInv, ModeInv, DeadIsSettled
<1> QED
  BY <1>1, CameraInvariant, PTL

\* A close that raises nothing has ended every thread and released every device,
\* and so has a rollback for the workers that were started.
THEOREM CloseDoesRelease == Spec => CloseReleases
<1> DEFINE Ends == op # "none" /\ op' = "none" /\ ~started' /\ ~failed'
           Closed == \A k \in (IF op = "close" THEN Cameras ELSE begun) :
                        ~Alive(k)' /\ ~device'[k] /\ mode'[k] = "closed"
<1>1. CameraInv /\ CameraInv' /\ [Next]_vars => [Ends => Closed]_vars
  <2> SUFFICES ASSUME CameraInv, CameraInv', Next, Ends
               PROVE  Closed
    BY DEF vars, runVars, slotVars, sessionVars
  <2>1. \A k \in Closing : k \in Cameras /\ ~thread'[k]
    <3>1. Closing \subseteq Cameras
      BY DEF Closing, CameraInv, TypeOK
    <3>2. CASE \E k \in Cameras : CloseWorker(k)
      <4>1. PICK k \in Cameras : CloseWorker(k)
        BY <3>2
      <4>2. /\ ~thread[k] /\ todo = {k} /\ now = NoCamera /\ thread' = thread
            /\ op \in {"close", "rollback"} /\ ~failed
        BY <4>1 DEF CloseWorker, EndOne
      <4>3. \A j \in Closing \ (todo \cup {now}) : ~thread[j]
        BY <4>2 DEF CameraInv, CloseInv
      <4> QED
        BY <3>1, <4>2, <4>3, NoCameraAssumption
    <3>3. CASE Join
      <4>1. /\ thread' = [thread EXCEPT ![now] = FALSE]
            /\ todo = {} /\ now # NoCamera /\ ~failed
        BY <3>3 DEF Join, EndOne
      <4>2. op \in {"close", "rollback"}
        BY <4>1 DEF CameraInv, CloseInv
      <4>3. \A j \in Closing \ (todo \cup {now}) : ~thread[j]
        BY <4>1, <4>2 DEF CameraInv, CloseInv
      <4> QED
        BY <3>1, <4>1, <4>3 DEF CameraInv, TypeOK
    <3>4. CASE \E k \in Cameras : SpawnFails(k)
      <4>1. op = "start" /\ begun = {}
        BY <3>4 DEF SpawnFails
      <4> QED
        BY <4>1 DEF Closing
    <3>5. CASE /\ ~Join
               /\ ~\E k \in Cameras : CloseWorker(k)
               /\ ~\E k \in Cameras : SpawnFails(k)
      <4>1. CASE \E k \in Cameras : Run(k)
        BY <4>1 DEF Run, CheckStop, EnterOpening, OpenDevice, EnterStreaming,
            CheckLoop, ReadFrame, Publish, CaptureFailure, Release,
            CountAttempt, EnterFault, EnterBackoff, EnterClosed, Exit, sessionVars
      <4>2. CASE \E c \in Consumers : Consume(c)
        BY <4>2 DEF Consume, Ask, Look, WaitEnds, sessionVars
      <4>3. CASE Session
        BY <3>5, <4>3 DEF Session, BeginStart, BeginClose, CloseDevice, StartWorker
      <4> QED
        BY <4>1, <4>2, <4>3 DEF Next
    <3> QED
      BY <3>2, <3>3, <3>4, <3>5
  <2> QED
    BY <2>1 DEF CameraInv, ModeInv, Ended, DeviceLabels, Alive, Closing
<1> QED
  BY <1>1, CameraInvariant, PTL DEF Spec, CloseReleases

=============================================================================
