-------------------------- MODULE TalonClientProofs --------------------------
(* Theorems about can_talon_srx_node, for every set of topics, parameters  *)
(* and status frames, every queue length and any amount of traffic.        *)
EXTENDS TalonClient, SequenceTheorems, TLAPS

USE DEF Received, Configs, Asks, Response, Control1, NoParam, Unknown, Junk

-----------------------------------------------------------------------------
(* Queues.                                                                 *)

LEMMA TopicsApart == Topic \cap {Received, Configs, Asks} = {}
BY TopicAssumption DEF Writes

(* A bounded queue keeps its type.                                         *)
LEMMA PushType ==
  ASSUME NEW S, NEW q \in Seq(S), NEW m \in S, q # <<>>
  PROVE  Append(Tail(q), m) \in Seq(S)
OBVIOUS

LEMMA AppendType ==
  ASSUME NEW S, NEW q \in Seq(S), NEW m \in S
  PROVE  Append(q, m) \in Seq(S)
OBVIOUS

LEMMA ArriveType ==
  ASSUME NEW t \in Queue, NEW msg \in Message(t), RosTypeOK, Arrive(t, msg)
  PROVE  /\ callbacks' \in Seq(Queue)
         /\ waiting' = [u \in Queue |-> waiting'[u]]
         /\ \A u \in Queue : waiting'[u] \in Seq(Message(u))
<1> USE DEF RosTypeOK
<1>1. CASE Full(t)
  <2>1. Length[t] \in Nat \ {0}
    BY <1>1, LengthAssumption DEF Full, Queue
  <2>2. waiting[t] \in Seq(Message(t)) /\ waiting[t] # <<>>
    BY <1>1, <2>1 DEF Full
  <2>3. Append(Tail(waiting[t]), msg) \in Seq(Message(t))
    BY <2>2, PushType
  <2>4. waiting' = [waiting EXCEPT ![t] = Append(Tail(waiting[t]), msg)]
    BY <1>1 DEF Arrive
  <2>5. \A u \in Queue : waiting'[u] \in Seq(Message(u))
    BY <2>3, <2>4
  <2>6. waiting' = [u \in Queue |-> waiting'[u]]
    BY <2>4
  <2>7. callbacks' \in Seq(Queue)
    BY <1>1 DEF Arrive
  <2> QED BY <2>5, <2>6, <2>7
<1>2. CASE ~Full(t)
  <2>1. Append(waiting[t], msg) \in Seq(Message(t))
    OBVIOUS
  <2>2. waiting' = [waiting EXCEPT ![t] = Append(waiting[t], msg)]
    BY <1>2 DEF Arrive
  <2>5. \A u \in Queue : waiting'[u] \in Seq(Message(u))
    BY <2>1, <2>2
  <2>6. waiting' = [u \in Queue |-> waiting'[u]]
    BY <2>2
  <2>7. callbacks' \in Seq(Queue)
    <3>1. callbacks \in Seq(Queue) /\ callbacks' = Append(callbacks, t)
      BY <1>2 DEF Arrive
    <3> HIDE DEF RosTypeOK
    <3> QED BY <3>1, AppendType
  <2> QED BY <2>5, <2>6, <2>7
<1> QED BY <1>1, <1>2

LEMMA TakesType ==
  ASSUME NEW t \in Queue, RosTypeOK, Takes(t)
  PROVE  /\ Head(waiting[t]) \in Message(t)
         /\ callbacks' \in Seq(Queue)
         /\ waiting' = [u \in Queue |-> waiting'[u]]
         /\ \A u \in Queue : waiting'[u] \in Seq(Message(u))
<1> USE DEF RosTypeOK, Takes
<1>1. waiting[t] \in Seq(Message(t)) /\ waiting[t] # <<>>
  OBVIOUS
<1>2. Head(waiting[t]) \in Message(t) /\ Tail(waiting[t]) \in Seq(Message(t))
  BY <1>1
<1>3. callbacks' \in Seq(Queue)
  OBVIOUS
<1> QED BY <1>2, <1>3

LEMMA PublishType ==
  ASSUME NEW msg \in Packet, RosTypeOK, Publish(msg)
  PROVE  out' \in Seq(Packet) /\ missed' \subseteq StatusId \cup {Response, Control1}
<1>1. out' \in Seq(Packet)
  BY BoundAssumption DEF RosTypeOK, Publish, Sent
<1>2. missed' \subseteq StatusId \cup {Response, Control1}
  BY DEF RosTypeOK, Publish
<1> QED BY <1>1, <1>2

LEMMA FrameArrivesType ==
  ASSUME NEW f \in CanFrame, RosTypeOK, FrameArrives(f)
  PROVE  /\ callbacks' \in Seq(Queue)
         /\ waiting' = [u \in Queue |-> waiting'[u]]
         /\ \A u \in Queue : waiting'[u] \in Seq(Message(u))
         /\ missed' \subseteq StatusId \cup {Response, Control1}
<1>1. Received \in Queue /\ Message(Received) = CanFrame
  BY TopicsApart DEF Queue, Message
<1>2. /\ callbacks' \in Seq(Queue)
      /\ waiting' = [u \in Queue |-> waiting'[u]]
      /\ \A u \in Queue : waiting'[u] \in Seq(Message(u))
  <2>1. f \in Message(Received)
    BY <1>1
  <2>2. Arrive(Received, f)
    BY DEF FrameArrives
  <2> QED BY <1>1, <2>1, <2>2, ArriveType
<1>3. waiting[Received] \in Seq(CanFrame)
  BY <1>1 DEF RosTypeOK
<1>4. Full(Received) => Head(waiting[Received]).id \in StatusId \cup {Response}
  <2>1. HAVE Full(Received)
  <2>2. waiting[Received] # <<>>
    BY <1>3, <2>1, LengthAssumption DEF Full
  <2>3. Head(waiting[Received]) \in CanFrame
    BY <1>3, <2>2
  <2> QED BY <2>3 DEF CanFrame
<1>5. missed' \subseteq StatusId \cup {Response, Control1}
  BY <1>4 DEF FrameArrives, RosTypeOK
<1> QED BY <1>2, <1>5

-----------------------------------------------------------------------------
(* Types.                                                                  *)

LEMMA QuietGroups ==
  /\ RosTypeOK /\ UNCHANGED <<rosVars, sendVars, missed>> => RosTypeOK'
  /\ SpinnerTypeOK /\ UNCHANGED <<spinVars, storeVars, objVars>> => SpinnerTypeOK'
  /\ MainTypeOK /\ UNCHANGED <<mainVars, silent, alive>> => MainTypeOK'
  /\ TalonTypeOK /\ UNCHANGED talonVars => TalonTypeOK'
<1>1. RosTypeOK /\ UNCHANGED <<rosVars, sendVars, missed>> => RosTypeOK'
  BY DEF RosTypeOK, rosVars, sendVars
<1>2. SpinnerTypeOK /\ UNCHANGED <<spinVars, storeVars, objVars>> => SpinnerTypeOK'
  BY DEF SpinnerTypeOK, spinVars, storeVars, objVars
<1>3. MainTypeOK /\ UNCHANGED <<mainVars, silent, alive>> => MainTypeOK'
  BY DEF MainTypeOK, mainVars
<1>4. TalonTypeOK /\ UNCHANGED talonVars => TalonTypeOK'
  BY DEF TalonTypeOK, talonVars
<1> QED BY <1>1, <1>2, <1>3, <1>4

LEMMA WritersType == Blank \in Frame /\ Defaults \in Frame
BY DEF Blank, Defaults, Frame, Nobody, Ctor, Field

LEMMA FilledType ==
  ASSUME NEW frame \in Frame, NEW cmd \in [topic : Topic, no : Nat]
  PROVE  Filled(frame, cmd) \in Frame
BY DEF Filled, Frame

LEMMA ReadingType == MainTypeOK => /\ Reading \in StatusId
                                   /\ After \in 1..Len(Getters)
<1> SUFFICES ASSUME MainTypeOK PROVE Reading \in StatusId /\ After \in 1..Len(Getters)
  OBVIOUS
<1>1. Len(Getters) \in Nat \ {0} /\ getter \in 1..Len(Getters)
  BY GetterAssumption DEF MainTypeOK
<1>2. Reading \in StatusId
  BY <1>1, GetterAssumption DEF Reading
<1>3. After \in 1..Len(Getters)
  BY <1>1 DEF After
<1> QED BY <1>2, <1>3

LEMMA InitTypes == Init => ClientTypeOK
<1> SUFFICES ASSUME Init PROVE ClientTypeOK
  OBVIOUS
<1>1. RosTypeOK
  <2>1. Control(Blank) \in Packet /\ Control(Defaults) \in Packet
    BY WritersType DEF Control, Packet
  <2>2. out \in Seq(Packet)
    BY <2>1, BoundAssumption DEF Init, Sent
  <2>3. waiting = [t \in Queue |-> waiting[t]]
    BY DEF Init
  <2>4. \A t \in Queue : waiting[t] \in Seq(Message(t))
    BY DEF Init
  <2>5. count \in [Topic -> Nat] /\ callbacks \in Seq(Queue)
    BY DEF Init
  <2> QED BY <2>2, <2>3, <2>4, <2>5 DEF Init, RosTypeOK
<1>2. SpinnerTypeOK
  <2>1. msgBuff \in [id : {Response}, param : Param \cup {NoParam}, no : Value]
    BY DEF Init, ParamFrame, Value
  <2> QED BY <2>1, WritersType DEF Init, SpinnerTypeOK, ParamFrame, Value
<1>3. MainTypeOK
  <2>1. Len(Getters) \in Nat \ {0} /\ Getters[1] \in StatusId
    BY GetterAssumption
  <2> QED BY <2>1, BoundAssumption DEF Init, MainTypeOK
<1>4. TalonTypeOK
  BY WritersType DEF Init, TalonTypeOK
<1> QED BY <1>1, <1>2, <1>3, <1>4 DEF ClientTypeOK

(* What main holds on to while it runs a getter.                           *)
LEMMA GetterType ==
  ASSUME MainTypeOK, SpinnerTypeOK, Main
  PROVE  MainTypeOK'
<1> USE DEF MainTypeOK
<1>1. Reading \in StatusId /\ After \in 1..Len(Getters)
  BY ReadingType
<1>2. received[Reading] \in Nat \X Nat
  BY <1>1 DEF SpinnerTypeOK
<1>3. CASE FindFrame
  BY <1>2, <1>3 DEF FindFrame
<1>4. CASE CopyFrame
  <2>1. received[Reading][2] \in Nat /\ half \in Nat
    BY <1>2
  <2>2. events' \in [StatusId -> [known : BOOLEAN, first : Nat, second : Nat,
                                  age : 0..(Stale + 1)]]
    BY <1>1, <1>4, <2>1, BoundAssumption DEF CopyFrame
  <2>3. got' \in [id : StatusId, first : Nat, second : Nat,
                  err : {"CTR_OKAY", "CTR_RxTimeout"}]
    BY <1>1, <1>4, <2>1 DEF CopyFrame, Return
  <2>4. /\ getter' = After /\ half' = 0 /\ mpc' = "find"
        /\ alive' = alive /\ silent' = silent
    BY <1>4 DEF CopyFrame, Return
  <2> QED BY <1>1, <2>2, <2>3, <2>4
<1>5. CASE MissFrame
  BY <1>1, <1>5 DEF MissFrame, Return
<1> QED BY <1>3, <1>4, <1>5 DEF Main

LEMMA ProcessType ==
  ASSUME SpinnerTypeOK, Process
  PROVE  /\ msgBuff' \in [id : {Response}, param : Param \cup {NoParam}, no : Value]
         /\ sigs' \in [Param -> Value]
BY DEF SpinnerTypeOK, Process, Value

(* Overwriting one half of a stored frame.                                 *)
LEMMA HalfType ==
  ASSUME NEW r \in [StatusId -> Nat \X Nat], NEW i \in StatusId,
         NEW n \in Nat, NEW k \in {1, 2}
  PROVE  [r EXCEPT ![i][k] = n] \in [StatusId -> Nat \X Nat]
<1>1. r[i] = <<r[i][1], r[i][2]>> /\ r[i][1] \in Nat /\ r[i][2] \in Nat
  OBVIOUS
<1>2. [r[i] EXCEPT ![k] = n] \in Nat \X Nat
  <2>1. CASE k = 1
    BY <1>1, <2>1
  <2>2. CASE k = 2
    BY <1>1, <2>2
  <2> QED BY <2>1, <2>2
<1> QED BY <1>2

(* The steps of the other nodes and of the Talon.                          *)
LEMMA OthersType ==
  ASSUME ClientTypeOK, Publishers \/ Connect \/ Talon
  PROVE  ClientTypeOK'
<1> USE DEF ClientTypeOK
<1>1. ASSUME NEW t \in Topic, Command(t) PROVE ClientTypeOK'
  <2>1. t \in Queue /\ NewCommand(t) \in [topic : {t}, no : Nat]
    BY DEF Queue, NewCommand, RosTypeOK
  <2>2. NewCommand(t) \in Message(t)
    BY <2>1, TopicsApart DEF Message
  <2>3. /\ callbacks' \in Seq(Queue)
        /\ waiting' = [u \in Queue |-> waiting'[u]]
        /\ \A u \in Queue : waiting'[u] \in Seq(Message(u))
    BY <1>1, <2>1, <2>2, ArriveType DEF Command
  <2>4. RosTypeOK'
    BY <1>1, <2>3 DEF RosTypeOK, Command, sendVars
  <2> QED BY <1>1, <2>4, QuietGroups DEF Command, nodeVars
<1>2. ASSUME NEW p \in Param, Configure(p) PROVE ClientTypeOK'
  <2>1. Configs \in Queue /\ [param |-> p, no |-> sets + 1] \in Message(Configs)
    BY TopicsApart DEF Queue, Message, RosTypeOK
  <2>2. RosTypeOK'
    BY <1>2, <2>1, ArriveType DEF RosTypeOK, Configure, sendVars
  <2> QED BY <1>2, <2>2, QuietGroups DEF Configure, nodeVars
<1>3. ASSUME NEW p \in Param, Ask(p) PROVE ClientTypeOK'
  <2>1. Asks \in Queue /\ [param |-> p] \in Message(Asks)
    BY TopicsApart DEF Queue, Message
  <2>2. RosTypeOK'
    BY <1>3, <2>1, ArriveType, SMTT(30) DEF RosTypeOK, Ask, sendVars
  <2> QED BY <1>3, <2>2, QuietGroups DEF Ask, nodeVars
<1>4. ASSUME Connect PROVE ClientTypeOK'
  <2>1. RosTypeOK'
    BY <1>4 DEF Connect, RosTypeOK, rosVars
  <2> QED BY <1>4, <2>1, QuietGroups DEF Connect, nodeVars
<1>5. ASSUME NEW i \in StatusId, TalonReports(i) PROVE ClientTypeOK'
  <2>1. StatusFrame(i) \in CanFrame
    BY DEF StatusFrame, CanFrame, TalonTypeOK
  <2>2. RosTypeOK'
    BY <1>5, <2>1, FrameArrivesType DEF RosTypeOK, TalonReports, sendVars
  <2>3. TalonTypeOK'
    BY <1>5 DEF TalonReports, TalonTypeOK
  <2> QED BY <1>5, <2>2, <2>3, QuietGroups DEF TalonReports, nodeVars
<1>6. ASSUME TalonObeys PROVE ClientTypeOK'
  <2>1. Head(out) \in Packet /\ Tail(out) \in Seq(Packet)
    BY <1>6 DEF TalonObeys, RosTypeOK
  <2>2. Head(out).frame \in Frame
    BY <1>6, <2>1 DEF TalonObeys, Packet
  <2>3. RosTypeOK'
    BY <1>6, <2>1 DEF TalonObeys, RosTypeOK, rosVars
  <2>4. TalonTypeOK'
    BY <1>6, <2>2 DEF TalonObeys, TalonTypeOK
  <2> QED BY <1>6, <2>3, <2>4, QuietGroups DEF TalonObeys, nodeVars
<1>7. ASSUME TalonAnswers PROVE ClientTypeOK'
  <2> DEFINE p == Head(out).param
             v == IF Head(out).kind = "set" THEN Head(out).no ELSE talonParam[p]
  <2>1. Head(out) \in Packet /\ Tail(out) \in Seq(Packet)
    BY <1>7 DEF TalonAnswers, RosTypeOK
  <2>2. p \in Param /\ v \in Nat
    BY <1>7, <2>1 DEF TalonAnswers, Packet, TalonTypeOK
  <2>3. ParamFrame(p, v) \in CanFrame
    BY <2>2 DEF ParamFrame, CanFrame
  <2>4. FrameArrives(ParamFrame(p, v)) /\ talonParam' = [talonParam EXCEPT ![p] = v]
    BY <1>7 DEF TalonAnswers
  <2>5. RosTypeOK'
    BY <1>7, <2>1, <2>3, <2>4, FrameArrivesType DEF TalonAnswers, RosTypeOK
  <2>6. TalonTypeOK'
    BY <1>7, <2>2, <2>4 DEF TalonAnswers, TalonTypeOK
  <2> QED BY <1>7, <2>5, <2>6, QuietGroups DEF TalonAnswers, nodeVars
<1> QED BY <1>1, <1>2, <1>3, <1>4, <1>5, <1>6, <1>7 DEF Publishers, Talon

(* The steps of the spinner.                                               *)
LEMMA SpinnerStepType ==
  ASSUME ClientTypeOK, Spinner
  PROVE  ClientTypeOK'
<1> USE DEF ClientTypeOK
<1>1. ASSUME NEW t \in Topic, RunSetter(t) PROVE ClientTypeOK'
  <2>1. t \in Queue /\ Takes(t)
    BY <1>1 DEF Queue, RunSetter
  <2>2. Head(waiting[t]) \in [topic : Topic, no : Nat]
    BY <2>1, TakesType, TopicsApart DEF Message
  <2>3. toSend' \in Frame
    BY <1>1, <2>2, FilledType DEF RunSetter, SpinnerTypeOK
  <2>4. Control(toSend') \in Packet /\ Publish(Control(toSend'))
    BY <1>1, <2>3 DEF RunSetter, Control, Packet
  <2>5. out' \in Seq(Packet) /\ missed' \subseteq StatusId \cup {Response, Control1}
    BY <2>4, PublishType
  <2>6. RosTypeOK'
    BY <1>1, <2>1, <2>5, TakesType DEF RunSetter, RosTypeOK
  <2>7. SpinnerTypeOK'
    BY <1>1, <2>3 DEF RunSetter, SpinnerTypeOK, spinVars, storeVars
  <2> QED BY <1>1, <2>6, <2>7, QuietGroups DEF RunSetter
<1>2. ASSUME RunConfigure PROVE ClientTypeOK'
  <2> DEFINE m == Head(waiting[Configs])
  <2>1. Configs \in Queue /\ Takes(Configs)
    BY <1>2 DEF Queue, RunConfigure
  <2>2. m \in [param : Param, no : Nat]
    BY <2>1, TakesType, TopicsApart DEF Message
  <2>3. ParamSet(m.param, m.no) \in Packet /\ Publish(ParamSet(m.param, m.no))
    BY <1>2, <2>2 DEF RunConfigure, ParamSet, Packet
  <2>4. out' \in Seq(Packet) /\ missed' \subseteq StatusId \cup {Response, Control1}
    BY <2>3, PublishType
  <2>5. RosTypeOK'
    BY <1>2, <2>1, <2>4, TakesType DEF RunConfigure, RosTypeOK
  <2> QED BY <1>2, <2>5, QuietGroups DEF RunConfigure, nodeVars
<1>3. ASSUME RunAsk PROVE ClientTypeOK'
  <2> DEFINE p == Head(waiting[Asks]).param
  <2>1. Asks \in Queue /\ Takes(Asks)
    BY <1>3 DEF Queue, RunAsk
  <2>2. p \in Param
    BY <2>1, TakesType, TopicsApart DEF Message
  <2>3. ParamRequest(p) \in Packet /\ Publish(ParamRequest(p))
    BY <1>3, <2>2 DEF RunAsk, ParamRequest, Packet
  <2>4. out' \in Seq(Packet) /\ missed' \subseteq StatusId \cup {Response, Control1}
    BY <2>3, PublishType
  <2>5. RosTypeOK'
    BY <1>3, <2>1, <2>4, TakesType DEF RunAsk, RosTypeOK
  <2>6. spc' = "asleep" /\ sarg' \in [id : {Asks}, param : Param, no : {0}]
    BY <1>3, <2>2 DEF RunAsk
  <2>7. SpinnerTypeOK'
    BY <1>3, <2>6, ProcessType DEF RunAsk, SpinnerTypeOK, storeVars
  <2> QED BY <1>3, <2>5, <2>7, QuietGroups DEF RunAsk
<1>4. ASSUME AnswerAsk PROVE ClientTypeOK'
  <2>1. SpinnerTypeOK'
    BY <1>4, ProcessType DEF AnswerAsk, Finishes, SpinnerTypeOK, storeVars
  <2> QED BY <1>4, <2>1, QuietGroups DEF AnswerAsk
<1>5. ASSUME RunReceive PROVE ClientTypeOK'
  <2>1. Received \in Queue /\ Takes(Received)
    BY <1>5 DEF Queue, RunReceive
  <2>2. Head(waiting[Received]) \in CanFrame
    BY <2>1, TakesType, TopicsApart DEF Message
  <2>3. RosTypeOK'
    BY <1>5, <2>1, TakesType DEF RunReceive, RosTypeOK, sendVars
  <2>4. SpinnerTypeOK'
    BY <1>5, <2>2 DEF RunReceive, SpinnerTypeOK, storeVars, objVars
  <2> QED BY <1>5, <2>3, <2>4, QuietGroups DEF RunReceive
<1>6. ASSUME StoreResponse PROVE ClientTypeOK'
  <2>1. sarg \in CanFrame /\ sarg.id = Response
    BY <1>6 DEF StoreResponse, SpinnerTypeOK
  <2>2. sarg \in [id : {Response}, param : Param \cup {NoParam}, no : Nat]
    BY <2>1, StatusAssumption DEF CanFrame
  <2>3. SpinnerTypeOK'
    BY <1>6, <2>2 DEF StoreResponse, Finishes, SpinnerTypeOK, objVars
  <2> QED BY <1>6, <2>3, QuietGroups DEF StoreResponse
<1>7. ASSUME StoreFirst PROVE ClientTypeOK'
  <2>1. sarg \in CanFrame /\ sarg.id \in StatusId /\ sarg.no \in Nat
    BY <1>7 DEF StoreFirst, SpinnerTypeOK, CanFrame
  <2>2. received' \in [StatusId -> Nat \X Nat]
    BY <1>7, <2>1, HalfType DEF StoreFirst, SpinnerTypeOK
  <2>3. SpinnerTypeOK'
    BY <1>7, <2>1, <2>2 DEF StoreFirst, SpinnerTypeOK, objVars
  <2> QED BY <1>7, <2>3, QuietGroups DEF StoreFirst
<1>8. ASSUME StoreSecond PROVE ClientTypeOK'
  <2>1. sarg.id \in StatusId /\ sarg.no \in Nat
    BY <1>8 DEF StoreSecond, SpinnerTypeOK, CanFrame
  <2>2. received' \in [StatusId -> Nat \X Nat]
    BY <1>8, <2>1, HalfType DEF StoreSecond, SpinnerTypeOK
  <2>3. SpinnerTypeOK'
    BY <1>8, <2>2 DEF StoreSecond, Finishes, SpinnerTypeOK, objVars
  <2>4. silent' = [silent EXCEPT ![sarg.id] = 0]
    BY <1>8, Zenon DEF StoreSecond
  <2>5. silent' \in [StatusId -> 0..(Stale + 1)]
    <3>1. silent \in [StatusId -> 0..(Stale + 1)]
      BY Zenon DEF MainTypeOK
    <3>2. 0 \in 0..(Stale + 1)
      BY BoundAssumption
    <3> QED BY <2>4, <3>1, <3>2
  <2>6. MainTypeOK'
    BY <1>8, <2>5 DEF StoreSecond, MainTypeOK, mainVars
  <2> QED BY <1>8, <2>3, <2>6, QuietGroups DEF StoreSecond
<1> QED BY <1>1, <1>2, <1>3, <1>4, <1>5, <1>6, <1>7, <1>8 DEF Spinner

LEMMA StepTypes == ClientTypeOK /\ [Next]_vars => ClientTypeOK'
<1> SUFFICES ASSUME ClientTypeOK, [Next]_vars PROVE ClientTypeOK'
  OBVIOUS
<1>1. CASE Main
  <2>1. UNCHANGED <<rosVars, spinVars, storeVars, objVars, sendVars, talonVars, missed>>
    BY <1>1 DEF Main, FindFrame, CopyFrame, MissFrame
  <2> QED BY <1>1, <2>1, GetterType, QuietGroups DEF ClientTypeOK
<1>2. CASE Fault
  <2>1. MainTypeOK'
    BY <1>2 DEF Fault, ClientTypeOK, MainTypeOK, nodeVars, mainVars
  <2> QED BY <1>2, <2>1, QuietGroups DEF Fault, ClientTypeOK, nodeVars
<1>3. CASE Tick
  <2>1. \A n \in 0..(Stale + 1) : Older(n) \in 0..(Stale + 1)
    BY BoundAssumption DEF Older
  <2>2. MainTypeOK
    BY DEF ClientTypeOK
  <2>3. silent' \in [StatusId -> 0..(Stale + 1)]
    BY <1>3, <2>1, <2>2 DEF Tick, MainTypeOK
  <2>4. events' \in [StatusId -> [known : BOOLEAN, first : Nat, second : Nat,
                                  age : 0..(Stale + 1)]]
    <3>1. CASE UNCHANGED events
      BY <2>2, <3>1 DEF MainTypeOK
    <3>2. CASE events' = [i \in StatusId |->
                           [events[i] EXCEPT !.age =
                              IF events[i].known THEN Older(@) ELSE @]]
      BY <2>1, <2>2, <3>2, ZenonT(60) DEF MainTypeOK
    <3> QED BY <1>3, <3>1, <3>2 DEF Tick
  <2>5. MainTypeOK'
    BY <1>3, <2>2, <2>3, <2>4 DEF Tick, MainTypeOK
  <2> QED BY <1>3, <2>5, QuietGroups DEF Tick, ClientTypeOK
<1>4. CASE UNCHANGED vars
  BY <1>4, QuietGroups DEF ClientTypeOK, vars, nodeVars
<1> QED BY <1>1, <1>2, <1>3, <1>4, OthersType, SpinnerStepType DEF Next

(* Every variable keeps its type, whatever the traffic.                    *)
THEOREM ClientTypeCorrect == Spec => []ClientTypeOK
BY InitTypes, StepTypes, PTL DEF Spec

-----------------------------------------------------------------------------
(* Mode and demand.                                                        *)

LEMMA FilledTogether ==
  ASSUME NEW frame \in Frame, Together(frame), NEW cmd \in [topic : Topic, no : Nat]
  PROVE  Together(Filled(frame, cmd))
<1> DEFINE g == Filled(frame, cmd)
<1>1. cmd.topic \in DOMAIN Writes
  BY TopicAssumption
<1>2. /\ g["ModeSelect"] = IF "ModeSelect" \in Writes[cmd.topic]
                           THEN <<cmd.topic, cmd.no>> ELSE frame["ModeSelect"]
      /\ g["Demand"] = IF "Demand" \in Writes[cmd.topic]
                       THEN <<cmd.topic, cmd.no>> ELSE frame["Demand"]
  <2>1. "ModeSelect" \in Field /\ "Demand" \in Field
    BY DEF Field
  <2> QED BY <2>1 DEF Filled
<1> SUFFICES Together(g)
  OBVIOUS
<1> HIDE DEF g
<1>3. CASE cmd.topic = "setModeSelectAndDemand"
  <2>1. g["ModeSelect"] = <<cmd.topic, cmd.no>> /\ g["Demand"] = <<cmd.topic, cmd.no>>
    BY <1>2, <1>3 DEF Writes
  <2> QED BY <1>3, <2>1 DEF Together, Nobody
<1>4. CASE cmd.topic = "setModeSelect"
  <2>1. g["ModeSelect"] = <<cmd.topic, cmd.no>>
    BY <1>2, <1>4 DEF Writes
  <2> QED BY <1>4, <2>1 DEF Together
<1>5. CASE cmd.topic \in {"set", "setDemand"}
  <2>1. g["ModeSelect"] = frame["ModeSelect"] /\ g["Demand"] = <<cmd.topic, cmd.no>>
    BY <1>2, <1>5 DEF Writes
  <2> QED BY <1>5, <2>1 DEF Together, Nobody
<1>6. CASE cmd.topic \notin {"setModeSelectAndDemand", "setModeSelect", "set", "setDemand"}
  <2>1. "ModeSelect" \notin Writes[cmd.topic] /\ "Demand" \notin Writes[cmd.topic]
    BY <1>1, <1>6 DEF Writes
  <2>2. g["ModeSelect"] = frame["ModeSelect"] /\ g["Demand"] = frame["Demand"]
    BY <1>2, <2>1
  <2> QED BY <2>2 DEF Together
<1> QED BY <1>3, <1>4, <1>5, <1>6

(* What is under way after a message was handed to CANSend.                *)
LEMMA SentHolds ==
  ASSUME NEW q \in Seq(Packet), NEW msg \in Packet
  PROVE  \A k \in DOMAIN Sent(q, msg) :
           Sent(q, msg)[k] = msg \/ \E j \in DOMAIN q : Sent(q, msg)[k] = q[j]
<1>1. CASE ~connected
  BY <1>1 DEF Sent
<1>2. CASE connected /\ Len(q) = OutCap
  <2>1. q # <<>>
    BY <1>2, BoundAssumption
  <2>2. Sent(q, msg) = Append(Tail(q), msg)
    BY <1>2 DEF Sent
  <2> QED BY <2>1, <2>2
<1>3. CASE connected /\ Len(q) # OutCap
  <2>1. Sent(q, msg) = Append(q, msg)
    BY <1>3 DEF Sent
  <2> QED BY <2>1
<1> QED BY <1>1, <1>2, <1>3

(* The frame in memory, from which the next command is built, is whole too.*)
Whole == Together(toSend) /\ NoHalfCommand

LEMMA InitWhole == Init => Whole
<1> SUFFICES ASSUME Init PROVE Whole
  OBVIOUS
<1>1. Together(Blank) /\ Together(Defaults)
  BY DEF Together, Blank, Defaults, Field, Nobody, Ctor
<1>2. Control(Blank) \in Packet /\ Control(Defaults) \in Packet
  BY WritersType DEF Control, Packet
<1>3. \A k \in DOMAIN Sent(<<>>, Control(Blank)) :
        Sent(<<>>, Control(Blank))[k] = Control(Blank)
  <2>1. <<>> \in Seq(Packet) /\ DOMAIN <<>> = {}
    OBVIOUS
  <2> QED BY <1>2, <2>1, SentHolds
<1>4. Sent(<<>>, Control(Blank)) \in Seq(Packet)
  BY <1>2, BoundAssumption DEF Sent
<1>5. \A k \in DOMAIN out : out[k] \in {Control(Blank), Control(Defaults)}
  BY <1>2, <1>3, <1>4, SentHolds DEF Init
<1>6. \A k \in DOMAIN out : Together(out[k].frame)
  BY <1>1, <1>5 DEF Control
<1> QED BY <1>1, <1>6 DEF Init, Whole, NoHalfCommand

(* Publishing a whole frame, or a message that is no control frame, leaves *)
(* no half command under way.                                              *)
LEMMA PublishWhole ==
  ASSUME RosTypeOK, NoHalfCommand, NEW msg \in Packet, Publish(msg),
         msg.kind = "control" => Together(msg.frame)
  PROVE  \A k \in DOMAIN out' : out'[k].kind = "control" => Together(out'[k].frame)
<1>1. out \in Seq(Packet) /\ out' = Sent(out, msg)
  BY DEF RosTypeOK, Publish
<1> QED BY <1>1, SentHolds DEF NoHalfCommand

LEMMA StepWhole == ClientTypeOK /\ Whole /\ [Next]_vars => Whole'
<1> SUFFICES ASSUME ClientTypeOK, Whole, [Next]_vars PROVE Whole'
  OBVIOUS
<1>0. RosTypeOK /\ SpinnerTypeOK /\ NoHalfCommand
  BY DEF ClientTypeOK, Whole
<1>1. ASSUME UNCHANGED <<toSend, out, control>> PROVE Whole'
  BY <1>1 DEF Whole, NoHalfCommand
<1>2. ASSUME NEW t \in Topic, RunSetter(t) PROVE Whole'
  <2>1. Head(waiting[t]) \in [topic : Topic, no : Nat]
    BY <1>0, <1>2, TakesType, TopicsApart DEF RunSetter, Queue, Message
  <2>2. Together(toSend') /\ toSend' \in Frame
    BY <1>0, <1>2, <2>1, FilledTogether, FilledType DEF RunSetter, Whole, SpinnerTypeOK
  <2>3. /\ Control(toSend') \in Packet /\ Publish(Control(toSend'))
        /\ Control(toSend').frame = toSend'
    BY <1>2, <2>2 DEF RunSetter, Control, Packet
  <2>4. \A k \in DOMAIN out' : out'[k].kind = "control" => Together(out'[k].frame)
    BY <1>0, <2>2, <2>3, PublishWhole
  <2>5. control' = control
    BY <1>2 DEF RunSetter, talonVars
  <2> QED BY <2>2, <2>4, <2>5 DEF Whole, NoHalfCommand
<1>3. ASSUME RunConfigure PROVE Whole'
  <2> DEFINE m == Head(waiting[Configs])
             msg == ParamSet(m.param, m.no)
  <2>1. m \in [param : Param, no : Nat]
    BY <1>0, <1>3, TakesType, TopicsApart DEF RunConfigure, Queue, Message
  <2>2. msg \in Packet /\ Publish(msg) /\ msg.kind # "control"
    BY <1>3, <2>1 DEF RunConfigure, ParamSet, Packet
  <2>3. \A k \in DOMAIN out' : out'[k].kind = "control" => Together(out'[k].frame)
    BY <1>0, <2>2, PublishWhole
  <2>4. control' = control /\ toSend' = toSend
    BY <1>3 DEF RunConfigure, nodeVars, objVars, talonVars
  <2> QED BY <2>3, <2>4 DEF Whole, NoHalfCommand
<1>4. ASSUME RunAsk PROVE Whole'
  <2> DEFINE p == Head(waiting[Asks]).param
             msg == ParamRequest(p)
  <2>1. p \in Param
    BY <1>0, <1>4, TakesType, TopicsApart DEF RunAsk, Queue, Message
  <2>2. msg \in Packet /\ Publish(msg) /\ msg.kind # "control"
    BY <1>4, <2>1 DEF RunAsk, ParamRequest, Packet
  <2>3. \A k \in DOMAIN out' : out'[k].kind = "control" => Together(out'[k].frame)
    BY <1>0, <2>2, PublishWhole
  <2>4. control' = control /\ toSend' = toSend
    BY <1>4 DEF RunAsk, talonVars
  <2> QED BY <2>3, <2>4 DEF Whole, NoHalfCommand
<1>5. ASSUME TalonObeys PROVE Whole'
  <2>1. out \in Seq(Packet) /\ out # <<>> /\ Head(out) = out[1] /\ 1 \in DOMAIN out
    BY <1>0, <1>5 DEF TalonObeys, RosTypeOK
  <2>2. Together(control')
    BY <1>0, <1>5, <2>1 DEF TalonObeys, NoHalfCommand
  <2>3. \A k \in DOMAIN out' : \E j \in DOMAIN out : out'[k] = out[j]
    BY <1>5, <2>1 DEF TalonObeys
  <2>4. toSend' = toSend
    BY <1>5 DEF TalonObeys, nodeVars, objVars
  <2> QED BY <1>0, <2>2, <2>3, <2>4 DEF Whole, NoHalfCommand
<1>6. ASSUME TalonAnswers PROVE Whole'
  <2>1. out \in Seq(Packet) /\ out # <<>>
    BY <1>0, <1>6 DEF TalonAnswers, RosTypeOK
  <2>3. \A k \in DOMAIN out' : \E j \in DOMAIN out : out'[k] = out[j]
    BY <1>6, <2>1 DEF TalonAnswers
  <2>4. toSend' = toSend /\ control' = control
    BY <1>6 DEF TalonAnswers, nodeVars, objVars
  <2> QED BY <1>0, <2>3, <2>4 DEF Whole, NoHalfCommand
<1>7. CASE Publishers \/ Connect \/ \E i \in StatusId : TalonReports(i)
  BY <1>1, <1>7 DEF Publishers, Command, Configure, Ask, Connect, TalonReports,
                    nodeVars, objVars, sendVars, talonVars
<1>8. CASE Main \/ Fault \/ Tick \/ UNCHANGED vars
  BY <1>1, <1>8 DEF Main, FindFrame, CopyFrame, MissFrame, Fault, Tick, vars,
                    nodeVars, objVars, sendVars, talonVars
<1>9. CASE AnswerAsk \/ RunReceive \/ StoreResponse \/ StoreFirst \/ StoreSecond
  BY <1>1, <1>9 DEF AnswerAsk, RunReceive, StoreResponse, StoreFirst, StoreSecond,
                    objVars, sendVars, talonVars
<1> QED BY <1>2, <1>3, <1>4, <1>5, <1>6, <1>7, <1>8, <1>9 DEF Next, Talon, Spinner

(* No control frame under way or in force mixes the mode of one atomic     *)
(* command with the demand of another (CanTalonSRX.cpp:1064).              *)
THEOREM NoHalfCommandCorrect == Spec => []NoHalfCommand
<1>1. Whole => NoHalfCommand
  BY DEF Whole
<1> QED BY <1>1, InitTypes, StepTypes, InitWhole, StepWhole, PTL DEF Spec

-----------------------------------------------------------------------------
(* The order of the frames of one status message, from the Talon through   *)
(* the subscription and the map to what main has read: newer is never      *)
(* behind older.                                                           *)

InLine(q, i, low, high) ==
  /\ \A k \in DOMAIN q : q[k].id = i => low <= q[k].no /\ q[k].no <= high
  /\ \A j, k \in DOMAIN q :
       j <= k /\ q[j].id = i /\ q[k].id = i => q[j].no <= q[k].no

Newest(i) == IF spc = "storing" /\ sarg.id = i THEN sarg.no ELSE received[i][1]

Reached(i) ==
  /\ events[i].first <= received[i][1] /\ events[i].second <= received[i][2]
  /\ received[i][2] <= received[i][1] /\ received[i][1] <= Newest(i)
  /\ Newest(i) <= reports[i]
  /\ spc = "stored half" /\ sarg.id = i => sarg.no = received[i][1]
  /\ mpc = "copy" /\ Reading = i => events[i].first <= half /\ half <= received[i][1]

Behind(i) == Reached(i) /\ InLine(waiting[Received], i, Newest(i), reports[i])

Ordered == \A i \in StatusId : Behind(i)

LEMMA InLineTail ==
  ASSUME NEW q \in Seq(CanFrame), q # <<>>, NEW i, NEW low \in Nat, NEW high \in Nat,
         InLine(q, i, low, high)
  PROVE  /\ InLine(Tail(q), i, low, high)
         /\ Head(q).id = i => /\ low <= Head(q).no /\ Head(q).no <= high
                              /\ InLine(Tail(q), i, Head(q).no, high)
<1>1. \A k \in DOMAIN Tail(q) : k + 1 \in DOMAIN q /\ Tail(q)[k] = q[k + 1]
  OBVIOUS
<1>2. 1 \in DOMAIN q /\ Head(q) = q[1] /\ \A k \in DOMAIN Tail(q) : k \in Nat /\ 1 <= k + 1
  OBVIOUS
<1> QED BY <1>1, <1>2 DEF InLine

LEMMA InLineAppend ==
  ASSUME NEW q \in Seq(CanFrame), NEW f \in CanFrame, NEW i, NEW low \in Nat,
         NEW high \in Nat, NEW top \in Nat,
         InLine(q, i, low, high), low <= high, high <= top,
         f.id = i => high <= f.no /\ f.no <= top
  PROVE  InLine(Append(q, f), i, low, top)
<1> DEFINE w == Append(q, f)
<1>1. /\ DOMAIN w = 1..(Len(q) + 1) /\ DOMAIN q = 1..Len(q) /\ Len(q) \in Nat
      /\ w[Len(q) + 1] = f /\ \A k \in DOMAIN q : w[k] = q[k]
  OBVIOUS
<1>2. \A k \in DOMAIN q : q[k].no \in Nat
  BY DEF CanFrame
<1>3. f.no \in Nat
  BY DEF CanFrame
<1> HIDE DEF w
<1>4. \A k \in DOMAIN w : w[k].id = i => low <= w[k].no /\ w[k].no <= top
  BY <1>1, <1>2, <1>3 DEF InLine
<1>5. ASSUME NEW j \in DOMAIN w, NEW k \in DOMAIN w, j <= k, w[j].id = i, w[k].id = i
      PROVE  w[j].no <= w[k].no
  <2>1. CASE k \in DOMAIN q
    BY <1>1, <1>5, <2>1 DEF InLine
  <2>2. CASE k = Len(q) + 1 /\ j \in DOMAIN q
    BY <1>1, <1>2, <1>3, <1>5, <2>2 DEF InLine
  <2>3. CASE k = Len(q) + 1 /\ j = k
    BY <1>1, <1>3, <2>3
  <2> QED BY <1>1, <2>1, <2>2, <2>3
<1>6. InLine(w, i, low, top)
  BY <1>4, <1>5 DEF InLine
<1> QED BY <1>6 DEF w

LEMMA InitOrdered == Init => Ordered
BY DEF Init, Ordered, Behind, Reached, InLine, Newest, NoWork, Queue

(* What Behind(i) compares are numbers.                                    *)
LEMMA Numbers ==
  ASSUME ClientTypeOK, NEW i \in StatusId
  PROVE  /\ received[i][1] \in Nat /\ received[i][2] \in Nat /\ reports[i] \in Nat
         /\ Newest(i) \in Nat /\ events[i].first \in Nat /\ events[i].second \in Nat
         /\ half \in Nat /\ waiting[Received] \in Seq(CanFrame)
<1>1. received[i][1] \in Nat /\ received[i][2] \in Nat
  BY DEF ClientTypeOK, SpinnerTypeOK
<1>2. spc = "storing" => sarg.no \in Nat
  BY DEF ClientTypeOK, SpinnerTypeOK, CanFrame
<1>3. Newest(i) \in Nat
  BY <1>1, <1>2 DEF Newest
<1>4. reports[i] \in Nat
  BY DEF ClientTypeOK, TalonTypeOK
<1>5. events[i].first \in Nat /\ events[i].second \in Nat /\ half \in Nat
  BY DEF ClientTypeOK, MainTypeOK
<1>6. waiting[Received] \in Seq(CanFrame)
  BY TopicsApart DEF ClientTypeOK, RosTypeOK, Message, Queue
<1> QED BY <1>1, <1>3, <1>4, <1>5, <1>6

(* A frame arrives: it is the newest of its message or of another one.     *)
LEMMA ArrivalOrdered ==
  ASSUME ClientTypeOK, NEW i \in StatusId, Behind(i), NEW f \in CanFrame,
         FrameArrives(f), NEW top \in Nat, reports[i] <= top,
         f.id = i => reports[i] <= f.no /\ f.no <= top
  PROVE  InLine(waiting'[Received], i, Newest(i), top)
<1> DEFINE w == waiting[Received]
<1>1. /\ w \in Seq(CanFrame) /\ Newest(i) \in Nat /\ reports[i] \in Nat
      /\ Newest(i) <= reports[i] /\ InLine(w, i, Newest(i), reports[i])
  BY Numbers DEF Behind, Reached
<1>2. Received \in DOMAIN waiting
  BY DEF ClientTypeOK, RosTypeOK, Queue
<1>3. CASE Full(Received)
  <2>1. w # <<>>
    BY <1>1, <1>3, LengthAssumption DEF Full
  <2>2. waiting'[Received] = Append(Tail(w), f)
    BY <1>2, <1>3 DEF FrameArrives, Arrive
  <2>3. Tail(w) \in Seq(CanFrame) /\ InLine(Tail(w), i, Newest(i), reports[i])
    BY <1>1, <2>1, InLineTail
  <2> HIDE DEF w
  <2> QED BY <1>1, <2>2, <2>3, InLineAppend
<1>4. CASE ~Full(Received)
  <2>1. waiting'[Received] = Append(w, f)
    BY <1>2, <1>4 DEF FrameArrives, Arrive
  <2> HIDE DEF w
  <2> QED BY <1>1, <2>1, InLineAppend
<1> QED BY <1>3, <1>4

(* Arrivals and callbacks of the other topics.                             *)
LEMMA OtherQueues ==
  ASSUME NEW t \in Queue \ {Received}, RosTypeOK,
         Takes(t) \/ \E msg : Arrive(t, msg)
  PROVE  waiting'[Received] = waiting[Received]
BY DEF RosTypeOK, Queue, Takes, Arrive

(* One half of an entry of receivedCAN is overwritten.                     *)
LEMMA HalfStored ==
  ASSUME NEW r \in [StatusId -> Nat \X Nat], NEW i \in StatusId, NEW j \in StatusId,
         NEW n \in Nat
  PROVE  /\ [r EXCEPT ![j][1] = n][i][1] = IF j = i THEN n ELSE r[i][1]
         /\ [r EXCEPT ![j][1] = n][i][2] = r[i][2]
         /\ [r EXCEPT ![j][2] = n][i][1] = r[i][1]
         /\ [r EXCEPT ![j][2] = n][i][2] = IF j = i THEN n ELSE r[i][2]
<1>1. r[i] = <<r[i][1], r[i][2]>> /\ r[i][1] \in Nat /\ r[i][2] \in Nat
  OBVIOUS
<1> QED BY <1>1

(* Steps that touch neither what the spinner stores nor what main reads.   *)
LEMMA QuietOrdered ==
  ASSUME NEW i \in StatusId, Behind(i),
         UNCHANGED <<spc, sarg, received, mainVars, reports>>,
         waiting'[Received] = waiting[Received]
  PROVE  Behind(i)'
BY DEF Behind, Reached, Newest, Reading, mainVars

LEMMA OthersOrdered ==
  ASSUME ClientTypeOK, NEW i \in StatusId, Behind(i), Publishers \/ Connect \/ Talon
  PROVE  Behind(i)'
<1>0. RosTypeOK
  BY DEF ClientTypeOK
<1>n. /\ received[i][1] \in Nat /\ received[i][2] \in Nat /\ reports[i] \in Nat
      /\ Newest(i) \in Nat /\ events[i].first \in Nat /\ events[i].second \in Nat
      /\ half \in Nat
  BY Numbers
<1>1. CASE Publishers
  <2>1. PICK t \in Queue \ {Received} : \E msg : Arrive(t, msg)
    BY <1>1, TopicsApart DEF Publishers, Command, Configure, Ask, Queue
  <2>2. waiting'[Received] = waiting[Received]
    BY <1>0, <2>1, OtherQueues
  <2> QED BY <1>1, <2>2, QuietOrdered
          DEF Publishers, Command, Configure, Ask, nodeVars, spinVars, storeVars, talonVars
<1>2. CASE Connect
  BY <1>2, QuietOrdered DEF Connect, rosVars, nodeVars, spinVars, storeVars, talonVars
<1>3. CASE TalonObeys
  BY <1>3, QuietOrdered DEF TalonObeys, rosVars, nodeVars, spinVars, storeVars
<1>4. ASSUME NEW n \in StatusId, TalonReports(n) PROVE Behind(i)'
  <2>1. StatusFrame(n) \in CanFrame /\ FrameArrives(StatusFrame(n))
    BY <1>4 DEF TalonReports, StatusFrame, CanFrame, ClientTypeOK, TalonTypeOK
  <2>2. /\ reports' = [reports EXCEPT ![n] = @ + 1]
        /\ UNCHANGED <<spc, sarg, received, mainVars>>
    BY <1>4 DEF TalonReports, nodeVars, spinVars, storeVars
  <2>3. reports[i] \in Nat /\ reports'[i] \in Nat /\ reports[i] <= reports'[i]
    BY <2>2 DEF ClientTypeOK, TalonTypeOK
  <2>4. StatusFrame(n).id = i => StatusFrame(n).no = reports[i] + 1 /\ reports'[i] = reports[i] + 1
    BY <2>2 DEF StatusFrame, ClientTypeOK, TalonTypeOK
  <2>5. InLine(waiting'[Received], i, Newest(i), reports'[i])
    BY <2>1, <2>3, <2>4, ArrivalOrdered
  <2>6. Newest(i)' = Newest(i) /\ Reading' = Reading
    BY <2>2 DEF Newest, Reading, mainVars
  <2>7. Newest(i) <= reports'[i]
    <3>1. Newest(i) <= reports[i]
      BY DEF Behind, Reached
    <3> QED BY <1>n, <2>3, <3>1
  <2> QED BY <2>2, <2>5, <2>6, <2>7 DEF Behind, Reached, mainVars
<1>5. CASE TalonAnswers
  <2> DEFINE p == Head(out).param
             v == IF Head(out).kind = "set" THEN Head(out).no ELSE talonParam[p]
             f == ParamFrame(p, v)
  <2>1. Head(out) \in Packet
    BY <1>5 DEF TalonAnswers, ClientTypeOK, RosTypeOK
  <2>2. p \in Param /\ v \in Nat
    BY <1>5, <2>1 DEF TalonAnswers, Packet, ClientTypeOK, TalonTypeOK
  <2>3. f \in CanFrame /\ f.id # i
    BY <2>2, StatusAssumption DEF ParamFrame, CanFrame
  <2>4. FrameArrives(f)
    BY <1>5 DEF TalonAnswers
  <2>5. InLine(waiting'[Received], i, Newest(i), reports[i])
    BY <2>3, <2>4, Numbers, ArrivalOrdered
  <2>6. UNCHANGED <<spc, sarg, received, mainVars, reports>>
    BY <1>5 DEF TalonAnswers, nodeVars, spinVars, storeVars
  <2>7. Newest(i)' = Newest(i) /\ Reading' = Reading
    BY <2>6 DEF Newest, Reading, mainVars
  <2> QED BY <2>5, <2>6, <2>7 DEF Behind, Reached, mainVars
<1> QED BY <1>1, <1>2, <1>3, <1>4, <1>5 DEF Talon

LEMMA SpinnerOrdered ==
  ASSUME ClientTypeOK, NEW i \in StatusId, Behind(i), Spinner
  PROVE  Behind(i)'
<1>0. RosTypeOK /\ SpinnerTypeOK
  BY DEF ClientTypeOK
<1>r. Reached(i) /\ InLine(waiting[Received], i, Newest(i), reports[i])
  BY DEF Behind
<1>n. /\ received[i][1] \in Nat /\ received[i][2] \in Nat /\ reports[i] \in Nat
      /\ Newest(i) \in Nat /\ events[i].first \in Nat /\ events[i].second \in Nat
      /\ half \in Nat
  BY Numbers
<1>1. CASE (\E t \in Topic : RunSetter(t)) \/ RunConfigure
  <2>1. PICK t \in Queue \ {Received} : Takes(t)
    BY <1>1, TopicsApart DEF RunSetter, RunConfigure, Queue
  <2>2. waiting'[Received] = waiting[Received]
    BY <1>0, <2>1, OtherQueues
  <2> QED BY <1>1, <2>2, QuietOrdered
          DEF RunSetter, RunConfigure, nodeVars, spinVars, storeVars, talonVars
<1>2. CASE RunAsk
  <2>1. waiting'[Received] = waiting[Received]
    BY <1>0, <1>2, OtherQueues DEF RunAsk, Queue
  <2>2. /\ spc = "idle" /\ spc' = "asleep"
        /\ UNCHANGED <<received, mainVars, reports>>
    BY <1>2 DEF RunAsk, Takes, storeVars, talonVars
  <2>3. Newest(i)' = Newest(i) /\ Reading' = Reading
    BY <2>2 DEF Newest, Reading, mainVars
  <2> QED BY <2>1, <2>2, <2>3 DEF Behind, Reached, mainVars
<1>3. CASE AnswerAsk \/ StoreResponse
  <2>1. spc = "storing" => sarg.id # i
    BY <1>3, StatusAssumption DEF AnswerAsk, StoreResponse
  <2>2. spc' = "idle" /\ UNCHANGED <<waiting, received, mainVars, reports>>
    BY <1>3 DEF AnswerAsk, StoreResponse, Finishes, rosVars, storeVars, talonVars
  <2>3. Newest(i)' = Newest(i) /\ Reading' = Reading
    BY <2>1, <2>2 DEF Newest, Reading, mainVars
  <2> QED BY <2>2, <2>3 DEF Behind, Reached, mainVars
<1>4. CASE RunReceive
  <2> DEFINE w == waiting[Received]
  <2>1. /\ w # <<>> /\ spc = "idle" /\ spc' = "storing" /\ sarg' = Head(w)
        /\ waiting'[Received] = Tail(w)
        /\ UNCHANGED <<received, mainVars, reports>>
    BY <1>0, <1>4 DEF RunReceive, Takes, storeVars, talonVars, RosTypeOK, Queue
  <2>2. /\ w \in Seq(CanFrame) /\ Newest(i) \in Nat /\ reports[i] \in Nat
        /\ InLine(w, i, Newest(i), reports[i])
    BY Numbers DEF Behind, Reached
  <2> HIDE DEF w
  <2>3. /\ InLine(Tail(w), i, Newest(i), reports[i])
        /\ Head(w).id = i => /\ Newest(i) <= Head(w).no /\ Head(w).no <= reports[i]
                             /\ InLine(Tail(w), i, Head(w).no, reports[i])
    BY <2>1, <2>2, InLineTail
  <2>4. Newest(i) = received[i][1] /\ Reading' = Reading
    BY <2>1 DEF Newest, Reading, mainVars
  <2>5. Newest(i)' = IF Head(w).id = i THEN Head(w).no ELSE received[i][1]
    BY <2>1 DEF Newest
  <2> QED BY <2>1, <2>3, <2>4, <2>5 DEF Behind, Reached, mainVars
<1>5. CASE StoreFirst
  <2>1. /\ spc = "storing" /\ spc' = "stored half" /\ sarg' = sarg
        /\ UNCHANGED <<waiting, mainVars, reports>>
    BY <1>5 DEF StoreFirst, rosVars, talonVars
  <2>2. /\ sarg.id \in StatusId /\ sarg.no \in Nat
        /\ received \in [StatusId -> Nat \X Nat]
    BY <1>0, <1>5 DEF StoreFirst, SpinnerTypeOK, CanFrame
  <2>3. received' = [received EXCEPT ![sarg.id][1] = sarg.no]
    BY <1>5 DEF StoreFirst
  <2>4. /\ received'[i][1] = IF sarg.id = i THEN sarg.no ELSE received[i][1]
        /\ received'[i][2] = received[i][2]
    BY <2>2, <2>3, HalfStored
  <2>5. Newest(i) = IF sarg.id = i THEN sarg.no ELSE received[i][1]
    BY <2>1 DEF Newest
  <2>6. Newest(i)' = received'[i][1]
    BY <2>1 DEF Newest
  <2>7. Reading' = Reading
    BY <2>1 DEF Reading, mainVars
  <2>8. Reached(i)'
    <3>1. /\ events[i].first <= received[i][1] /\ events[i].second <= received[i][2]
          /\ received[i][2] <= received[i][1] /\ received[i][1] <= Newest(i)
          /\ Newest(i) <= reports[i]
          /\ mpc = "copy" /\ Reading = i => events[i].first <= half /\ half <= received[i][1]
      BY <1>r DEF Reached
    <3>2. received'[i][1] = Newest(i) /\ received'[i][2] = received[i][2]
      BY <2>4, <2>5
    <3>3. /\ events[i].first <= received'[i][1] /\ events[i].second <= received'[i][2]
          /\ received'[i][2] <= received'[i][1] /\ Newest(i)' <= reports[i]
          /\ received'[i][1] <= Newest(i)'
      BY <1>n, <2>6, <3>1, <3>2
    <3>4. mpc = "copy" /\ Reading = i => events[i].first <= half /\ half <= received'[i][1]
      BY <1>n, <3>1, <3>2
    <3>5. sarg.id = i => sarg.no = received'[i][1]
      BY <2>4
    <3> QED BY <2>1, <2>7, <3>3, <3>4, <3>5 DEF Reached, mainVars
  <2>9. Newest(i)' = Newest(i)
    BY <2>4, <2>5, <2>6
  <2> QED BY <1>r, <2>1, <2>8, <2>9 DEF Behind
<1>6. CASE StoreSecond
  <2>1. spc = "stored half" /\ spc' = "idle" /\ UNCHANGED <<waiting, mainVars, reports>>
    BY <1>6 DEF StoreSecond, Finishes, rosVars, talonVars
  <2>2. /\ sarg.id \in StatusId /\ sarg.no \in Nat
        /\ received \in [StatusId -> Nat \X Nat]
    BY <1>0, <1>6 DEF StoreSecond, SpinnerTypeOK, CanFrame
  <2>3. received' = [received EXCEPT ![sarg.id][2] = sarg.no]
    BY <1>6 DEF StoreSecond
  <2>4. /\ received'[i][1] = received[i][1]
        /\ received'[i][2] = IF sarg.id = i THEN sarg.no ELSE received[i][2]
    BY <2>2, <2>3, HalfStored
  <2>5. Newest(i) = received[i][1] /\ Newest(i)' = received'[i][1]
    BY <2>1 DEF Newest
  <2>6. Reading' = Reading
    BY <2>1 DEF Reading, mainVars
  <2>7. sarg.id = i => received[i][1] = sarg.no
    BY <2>1 DEF Behind, Reached
  <2>8. Reached(i)'
    <3>1. /\ events[i].first <= received[i][1] /\ events[i].second <= received[i][2]
          /\ received[i][2] <= received[i][1] /\ received[i][1] <= Newest(i)
          /\ Newest(i) <= reports[i]
          /\ mpc = "copy" /\ Reading = i => events[i].first <= half /\ half <= received[i][1]
      BY <1>r DEF Reached
    <3>2. events[i].second <= received'[i][2] /\ received'[i][2] <= received'[i][1]
      BY <1>n, <2>2, <2>4, <2>7, <3>1
    <3>3. /\ events[i].first <= received'[i][1] /\ Newest(i)' = Newest(i)
          /\ mpc = "copy" /\ Reading = i => events[i].first <= half /\ half <= received'[i][1]
      BY <2>4, <2>5, <3>1
    <3>4. received'[i][1] <= Newest(i)' /\ Newest(i)' <= reports[i]
      BY <2>4, <2>5, <3>1
    <3> QED BY <2>1, <2>6, <3>2, <3>3, <3>4 DEF Reached, mainVars
  <2>9. Newest(i)' = Newest(i)
    BY <2>4, <2>5
  <2> QED BY <1>r, <2>1, <2>8, <2>9 DEF Behind
<1> QED BY <1>1, <1>2, <1>3, <1>4, <1>5, <1>6 DEF Spinner

LEMMA MainOrdered ==
  ASSUME ClientTypeOK, NEW i \in StatusId, Behind(i), Main \/ Fault \/ Tick
  PROVE  Behind(i)'
<1>0. MainTypeOK
  BY DEF ClientTypeOK
<1>r. Reached(i) /\ InLine(waiting[Received], i, Newest(i), reports[i])
  BY DEF Behind
<1>n. /\ received[i][1] \in Nat /\ received[i][2] \in Nat /\ reports[i] \in Nat
      /\ Newest(i) \in Nat /\ events[i].first \in Nat /\ events[i].second \in Nat
      /\ half \in Nat
  BY Numbers
<1>1. UNCHANGED <<spc, sarg, received, reports>> /\ waiting' = waiting
  BY DEF Main, FindFrame, CopyFrame, MissFrame, Fault, Tick, rosVars, nodeVars,
         spinVars, storeVars, talonVars
<1>2. Newest(i)' = Newest(i)
  BY <1>1 DEF Newest
<1>3. CASE FindFrame
  <2>1. /\ Reading' = Reading /\ events' = events
        /\ half' = received[Reading][1] /\ mpc' = "copy"
    BY <1>3 DEF FindFrame, Reading
  <2>2. Reached(i)'
    <3>1. events[i].first <= received[i][1]
      BY <1>r DEF Reached
    <3>2. Reading = i => events[i].first <= half' /\ half' <= received[i][1]
      BY <1>n, <2>1, <3>1
    <3> QED BY <1>r, <1>1, <1>2, <2>1, <3>2 DEF Reached
  <2> QED BY <1>r, <1>1, <1>2, <2>2 DEF Behind
<1>4. CASE CopyFrame
  <2>1. mpc = "copy" /\ mpc' = "find"
    BY <1>4 DEF CopyFrame
  <2>2. events'[i] = IF Reading = i
                     THEN [known |-> TRUE, first |-> half, second |-> received[i][2], age |-> 0]
                     ELSE events[i]
    BY <1>0, <1>4 DEF CopyFrame, MainTypeOK
  <2>3. /\ events'[i].first <= received[i][1]
        /\ events'[i].second <= received[i][2]
    <3>1. CASE Reading = i
      <4>1. half <= received[i][1]
        BY <1>r, <2>1, <3>1 DEF Reached
      <4>2. events'[i].first = half /\ events'[i].second = received[i][2]
        BY <2>2, <3>1
      <4> QED BY <1>n, <4>1, <4>2
    <3>2. CASE Reading # i
      <4>1. events[i].first <= received[i][1] /\ events[i].second <= received[i][2]
        BY <1>r DEF Reached
      <4> QED BY <2>2, <3>2, <4>1
    <3> QED BY <3>1, <3>2
  <2> QED BY <1>1, <1>2, <2>1, <2>3 DEF Behind, Reached
<1>5. CASE MissFrame \/ Tick
  <2>1. mpc = "find" /\ mpc' = "find"
    BY <1>5 DEF MissFrame, Tick
  <2>2. events'[i].first = events[i].first /\ events'[i].second = events[i].second
    <3>1. CASE MissFrame
      BY <3>1 DEF MissFrame
    <3>2. CASE Tick
      <4>1. \/ events'[i] = events[i]
            \/ events'[i] = [events[i] EXCEPT !.age =
                               IF events[i].known THEN Older(@) ELSE @]
        BY <3>2 DEF Tick
      <4>2. events[i] \in [known : BOOLEAN, first : Nat, second : Nat,
                           age : 0..(Stale + 1)]
        BY <1>0 DEF MainTypeOK
      <4> QED BY <4>1, <4>2
    <3> QED BY <1>5, <3>1, <3>2
  <2> QED BY <1>1, <1>2, <2>1, <2>2 DEF Behind, Reached
<1>6. CASE Fault
  BY <1>1, <1>6, QuietOrdered DEF Fault, nodeVars
<1> QED BY <1>3, <1>4, <1>5, <1>6 DEF Main

LEMMA StepOrdered == ClientTypeOK /\ Ordered /\ [Next]_vars => Ordered'
<1> SUFFICES ASSUME ClientTypeOK, Ordered, [Next]_vars, NEW i \in StatusId
             PROVE  Behind(i)'
  BY DEF Ordered
<1>1. Behind(i)
  BY DEF Ordered
<1>2. CASE UNCHANGED vars
  BY <1>1, <1>2, QuietOrdered DEF vars, rosVars, nodeVars, spinVars, storeVars, talonVars
<1> QED BY <1>1, <1>2, OthersOrdered, SpinnerOrdered, MainOrdered DEF Next

LEMMA ReturnsNewer ==
  ClientTypeOK /\ Ordered /\ [Next]_vars =>
    [GetterReturns => LET e == events[got'.id]
                      IN got'.first >= e.first /\ got'.second >= e.second]_vars
<1> SUFFICES ASSUME ClientTypeOK, Ordered, GetterReturns
             PROVE  LET e == events[got'.id]
                    IN got'.first >= e.first /\ got'.second >= e.second
  OBVIOUS
<1>1. Reading \in StatusId
  BY ReadingType DEF ClientTypeOK
<1>2. Behind(Reading)
  BY <1>1 DEF Ordered
<1>3. CASE CopyFrame
  <2>1. /\ mpc = "copy" /\ got'.id = Reading
        /\ got'.first = half /\ got'.second = received[Reading][2]
    BY <1>3 DEF CopyFrame, Return
  <2> QED BY <1>1, <1>2, <2>1, Numbers DEF Behind, Reached
<1>4. CASE MissFrame
  <2>1. /\ got'.id = Reading /\ got'.first = events[Reading].first
        /\ got'.second = events[Reading].second
    BY <1>4 DEF MissFrame, Return
  <2> QED BY <1>1, <2>1, Numbers
<1> QED BY <1>3, <1>4 DEF GetterReturns

(* No getter goes back to an older piece of a status frame, for any number *)
(* of frames and any queue lengths.                                        *)
THEOREM StatusNeverOlderCorrect == Spec => StatusNeverOlder
BY InitTypes, StepTypes, InitOrdered, StepOrdered, ReturnsNewer, PTL
   DEF Spec, StatusNeverOlder

-----------------------------------------------------------------------------
(* The control frame in force.  What each topic still has waiting ends with*)
(* its last command (Backlog); each field in memory is the constructor's,  *)
(* or a command's that is the last of its topic unless more are waiting    *)
(* (Held); the last control frame under way, or the one in force if none   *)
(* is, equals the one in memory (Channel).                                 *)

Backlog(t) ==
  waiting[t] # <<>> => count[t] > 0 /\ waiting[t][Len(waiting[t])].no = count[t]

Writer(f, t) ==
  /\ f \in Writes[t] /\ count[t] > 0 /\ toSend[f][1] = t
  /\ waiting[t] = <<>> => toSend[f] = <<t, count[t]>>

Held(f) ==
  /\ toSend[f] = Defaults[f] \/ \E t \in Topic : Writer(f, t)
  /\ \A t \in Topic : waiting[t] = <<>> /\ count[t] > 0 /\ f \in Writes[t] =>
       toSend[f] # Defaults[f]

LastIs(q, frame) ==
  \E k \in DOMAIN q : /\ q[k].kind = "control" /\ q[k].frame = frame
                      /\ \A j \in DOMAIN q : j > k => q[j].kind # "control"

Channel ==
  /\ ~connected => out = <<>> /\ control = Blank
  /\ Control1 \notin missed =>
       IF Carries(out) THEN LastIs(out, toSend) ELSE control \in {toSend, Blank}

Upheld == /\ \A t \in Topic : Backlog(t)
          /\ \A f \in Field : Held(f)
          /\ Channel

LEMMA LastTail ==
  ASSUME NEW q \in Seq(Packet), q # <<>>
  PROVE  /\ ~Carries(q) => ~Carries(Tail(q))
         /\ \A frame : LastIs(q, frame) =>
              IF Carries(Tail(q)) THEN LastIs(Tail(q), frame)
              ELSE Head(q).kind = "control" /\ Head(q).frame = frame
<1>1. /\ DOMAIN q = 1..Len(q) /\ Len(q) \in Nat \ {0} /\ Head(q) = q[1]
      /\ DOMAIN Tail(q) = 1..(Len(q) - 1)
      /\ \A k \in DOMAIN Tail(q) : Tail(q)[k] = q[k + 1]
  OBVIOUS
<1>2. ~Carries(q) => ~Carries(Tail(q))
  BY <1>1 DEF Carries
<1>3. ASSUME NEW frame, LastIs(q, frame)
      PROVE  IF Carries(Tail(q)) THEN LastIs(Tail(q), frame)
             ELSE Head(q).kind = "control" /\ Head(q).frame = frame
  <2>1. PICK k \in DOMAIN q : /\ q[k].kind = "control" /\ q[k].frame = frame
                              /\ \A j \in DOMAIN q : j > k => q[j].kind # "control"
    BY <1>3 DEF LastIs
  <2>2. CASE k = 1
    <3>1. ~Carries(Tail(q))
      BY <1>1, <2>1, <2>2 DEF Carries
    <3> QED BY <1>1, <2>1, <2>2, <3>1
  <2>3. CASE k # 1
    <3>1. k - 1 \in DOMAIN Tail(q) /\ Tail(q)[k - 1] = q[k]
      BY <1>1, <2>3
    <3>2. \A j \in DOMAIN Tail(q) : j > k - 1 => Tail(q)[j].kind # "control"
      BY <1>1, <2>1
    <3>3. Carries(Tail(q)) /\ LastIs(Tail(q), frame)
      BY <2>1, <3>1, <3>2 DEF Carries, LastIs
    <3> QED BY <3>3
  <2> QED BY <2>2, <2>3
<1> QED BY <1>2, <1>3

LEMMA LastAppend ==
  ASSUME NEW q \in Seq(Packet), NEW msg \in Packet
  PROVE  /\ msg.kind = "control" => /\ Carries(Append(q, msg))
                                    /\ LastIs(Append(q, msg), msg.frame)
         /\ msg.kind # "control" =>
              /\ Carries(Append(q, msg)) = Carries(q)
              /\ \A frame : LastIs(q, frame) => LastIs(Append(q, msg), frame)
<1> DEFINE w == Append(q, msg)
<1>1. /\ DOMAIN q = 1..Len(q) /\ Len(q) \in Nat /\ DOMAIN w = 1..(Len(q) + 1)
      /\ w[Len(q) + 1] = msg /\ \A k \in DOMAIN q : w[k] = q[k]
  OBVIOUS
<1> HIDE DEF w
<1>2. msg.kind = "control" => Carries(w) /\ LastIs(w, msg.frame)
  <2>1. Len(q) + 1 \in DOMAIN w /\ ~\E j \in DOMAIN w : j > Len(q) + 1
    BY <1>1
  <2> QED BY <1>1, <2>1 DEF Carries, LastIs
<1>3. ASSUME msg.kind # "control" PROVE Carries(w) = Carries(q)
  <2>1. Carries(q) => Carries(w)
    BY <1>1 DEF Carries
  <2>2. Carries(w) => Carries(q)
    BY <1>1, <1>3 DEF Carries
  <2>3. Carries(w) \in BOOLEAN /\ Carries(q) \in BOOLEAN
    BY DEF Carries
  <2> QED BY <2>1, <2>2, <2>3
<1>4. ASSUME msg.kind # "control", NEW frame, LastIs(q, frame) PROVE LastIs(w, frame)
  <2>1. PICK k \in DOMAIN q : /\ q[k].kind = "control" /\ q[k].frame = frame
                              /\ \A j \in DOMAIN q : j > k => q[j].kind # "control"
    BY <1>4 DEF LastIs
  <2>2. k \in DOMAIN w /\ w[k] = q[k]
    BY <1>1
  <2>3. \A j \in DOMAIN w : j > k => w[j].kind # "control"
    BY <1>1, <1>4, <2>1
  <2> QED BY <2>1, <2>2, <2>3 DEF LastIs
<1> QED BY <1>2, <1>3, <1>4 DEF w

(* A message handed to CANSend after the bridge has subscribed.            *)
LEMMA SentLast ==
  ASSUME connected, NEW q \in Seq(Packet), NEW msg \in Packet
  PROVE  /\ msg.kind = "control" => /\ Carries(Sent(q, msg))
                                    /\ LastIs(Sent(q, msg), msg.frame)
         /\ msg.kind # "control" =>
              /\ ~Carries(q) => ~Carries(Sent(q, msg))
              /\ \A frame : LastIs(q, frame) /\ Carries(Sent(q, msg)) =>
                                                  LastIs(Sent(q, msg), frame)
<1>1. CASE Len(q) = OutCap
  <2>1. Sent(q, msg) = Append(Tail(q), msg)
    BY <1>1 DEF Sent
  <2>2. q # <<>> /\ Tail(q) \in Seq(Packet)
    BY <1>1, BoundAssumption
  <2>3. msg.kind = "control" => Carries(Sent(q, msg)) /\ LastIs(Sent(q, msg), msg.frame)
    BY <2>1, <2>2, LastAppend
  <2>4. msg.kind # "control" /\ ~Carries(q) => ~Carries(Sent(q, msg))
    BY <2>1, <2>2, LastTail, LastAppend
  <2>5. ASSUME msg.kind # "control", NEW frame, LastIs(q, frame), Carries(Sent(q, msg))
        PROVE  LastIs(Sent(q, msg), frame)
    <3>1. Carries(Tail(q))
      BY <2>1, <2>2, <2>5, LastAppend
    <3>2. LastIs(Tail(q), frame)
      BY <2>2, <2>5, <3>1, LastTail
    <3> QED BY <2>1, <2>2, <2>5, <3>2, LastAppend
  <2> QED BY <2>3, <2>4, <2>5
<1>2. CASE Len(q) # OutCap
  <2>1. Sent(q, msg) = Append(q, msg)
    BY <1>2 DEF Sent
  <2> QED BY <2>1, LastAppend
<1> QED BY <1>1, <1>2

LEMMA Ends ==
  ASSUME NEW S, NEW q \in Seq(S)
  PROVE  /\ \A m \in S : /\ Append(q, m) # <<>>
                         /\ Append(q, m)[Len(Append(q, m))] = m
         /\ q # <<>> => IF Tail(q) = <<>> THEN Head(q) = q[Len(q)]
                        ELSE Tail(q)[Len(Tail(q))] = q[Len(q)]
<1>1. ASSUME NEW m \in S
      PROVE  Append(q, m) # <<>> /\ Append(q, m)[Len(Append(q, m))] = m
  BY AppendProperties
<1>2. ASSUME q # <<>>
      PROVE  IF Tail(q) = <<>> THEN Head(q) = q[Len(q)]
             ELSE Tail(q)[Len(Tail(q))] = q[Len(q)]
  <2>1. Len(Tail(q)) = Len(q) - 1 /\ Len(q) \in Nat \ {0} /\ Tail(q) \in Seq(S)
    BY <1>2
  <2>2. CASE Tail(q) = <<>>
    BY <2>1, <2>2
  <2>3. CASE Tail(q) # <<>>
    <3>1. Len(q) - 1 \in 1..Len(Tail(q))
      BY <2>1, <2>3
    <3>2. Tail(q)[Len(q) - 1] = q[Len(q) - 1 + 1]
      BY <1>2, <2>1, <3>1
    <3> QED BY <2>1, <2>3, <3>2
  <2> QED BY <2>2, <2>3
<1> QED BY <1>1, <1>2

(* The queue of a topic after an arrival and after a callback.             *)
LEMMA ArriveLast ==
  ASSUME RosTypeOK, NEW t \in Queue, NEW msg \in Message(t), Arrive(t, msg)
  PROVE  /\ waiting'[t] # <<>> /\ waiting'[t][Len(waiting'[t])] = msg
         /\ \A u \in Queue \ {t} : waiting'[u] = waiting[u]
<1>1. waiting[t] \in Seq(Message(t)) /\ t \in DOMAIN waiting
  BY DEF RosTypeOK
<1>2. CASE Full(t)
  <2>1. waiting[t] # <<>>
    BY <1>1, <1>2, LengthAssumption DEF Full, Queue
  <2>2. waiting' = [waiting EXCEPT ![t] = Append(Tail(waiting[t]), msg)]
    BY <1>2 DEF Arrive
  <2>3. waiting'[t] = Append(Tail(waiting[t]), msg) /\ Tail(waiting[t]) \in Seq(Message(t))
    BY <1>1, <2>1, <2>2
  <2>4. \A u \in Queue \ {t} : waiting'[u] = waiting[u]
    BY <2>2 DEF RosTypeOK
  <2> QED BY <2>3, <2>4, Ends
<1>3. CASE ~Full(t)
  <2>1. waiting' = [waiting EXCEPT ![t] = Append(waiting[t], msg)]
    BY <1>3 DEF Arrive
  <2>2. waiting'[t] = Append(waiting[t], msg)
    BY <1>1, <2>1
  <2>3. \A u \in Queue \ {t} : waiting'[u] = waiting[u]
    BY <2>1 DEF RosTypeOK
  <2> QED BY <1>1, <2>2, <2>3, Ends
<1> QED BY <1>2, <1>3

LEMMA TakesRest ==
  ASSUME RosTypeOK, NEW t \in Queue, Takes(t)
  PROVE  /\ waiting[t] # <<>>
         /\ \A u \in Queue \ {t} : waiting'[u] = waiting[u]
         /\ IF waiting'[t] = <<>>
            THEN Head(waiting[t]) = waiting[t][Len(waiting[t])]
            ELSE waiting'[t][Len(waiting'[t])] = waiting[t][Len(waiting[t])]
<1>1. waiting[t] \in Seq(Message(t)) /\ t \in DOMAIN waiting /\ waiting[t] # <<>>
  BY DEF RosTypeOK, Takes
<1>2. waiting' = [waiting EXCEPT ![t] = Tail(@)]
  BY DEF Takes
<1>3. \A u \in Queue \ {t} : waiting'[u] = waiting[u]
  BY <1>2 DEF RosTypeOK
<1>4. waiting'[t] = Tail(waiting[t])
  BY <1>1, <1>2
<1> QED BY <1>1, <1>3, <1>4, Ends

LEMMA InitUpheld == Init => Upheld
<1> SUFFICES ASSUME Init PROVE Upheld
  OBVIOUS
<1>1. (\A t \in Topic : Backlog(t)) /\ (\A f \in Field : Held(f))
  BY DEF Init, Backlog, Held, Queue
<1>2. /\ Control(Blank) \in Packet /\ Control(Defaults) \in Packet
      /\ Control(Defaults).kind = "control" /\ Control(Defaults).frame = Defaults
  BY WritersType DEF Control, Packet
<1>3. CASE ~connected
  <2>1. out = <<>> /\ ~Carries(out)
    BY <1>3 DEF Init, Sent, Carries
  <2> QED BY <1>1, <2>1 DEF Init, Channel, Upheld
<1>4. CASE connected
  <2>1. Sent(<<>>, Control(Blank)) \in Seq(Packet)
    BY <1>2, BoundAssumption DEF Sent
  <2>2. Carries(out) /\ LastIs(out, Defaults)
    BY <1>2, <1>4, <2>1, SentLast DEF Init
  <2> QED BY <1>1, <1>4, <2>2 DEF Init, Channel, Upheld
<1> QED BY <1>3, <1>4

LEMMA PublishChannel ==
  ASSUME RosTypeOK, Channel, NEW msg \in Packet, Publish(msg),
         UNCHANGED <<connected, control>>,
         IF msg.kind = "control" THEN msg.frame = toSend' ELSE toSend' = toSend
  PROVE  Channel'
<1>1. out \in Seq(Packet) /\ out' = Sent(out, msg)
  BY DEF RosTypeOK, Publish
<1>2. CASE ~connected
  <2>1. out' = <<>> /\ control' = Blank
    BY <1>1, <1>2 DEF Sent, Channel
  <2>2. ~Carries(out')
    BY <2>1 DEF Carries
  <2> QED BY <1>2, <2>1, <2>2 DEF Channel
<1>3. CASE connected /\ msg.kind = "control"
  <2>1. Carries(out') /\ LastIs(out', toSend')
    BY <1>1, <1>3, SentLast
  <2> QED BY <1>3, <2>1 DEF Channel
<1>4. CASE connected /\ msg.kind # "control"
  <2>1. SUFFICES ASSUME Control1 \notin missed'
                 PROVE  IF Carries(out') THEN LastIs(out', toSend') ELSE control' \in {toSend', Blank}
    BY <1>4 DEF Channel
  <2>2. ~(Carries(out) /\ ~Carries(out')) /\ Control1 \notin missed
    BY <1>4, <2>1 DEF Publish
  <2>3. CASE Carries(out')
    <3>1. Carries(out) /\ LastIs(out, toSend)
      BY <1>1, <1>4, <2>2, <2>3, SentLast DEF Channel
    <3>2. LastIs(out', toSend)
      BY <1>1, <1>4, <2>3, <3>1, SentLast
    <3> QED BY <1>4, <2>3, <3>2
  <2>4. CASE ~Carries(out')
    BY <1>4, <2>2, <2>4 DEF Channel
  <2> QED BY <2>3, <2>4
<1> QED BY <1>2, <1>3, <1>4

(* Frames that arrive do not touch what is known of the control frame.     *)
LEMMA ArrivalMisses ==
  ASSUME RosTypeOK, NEW f \in CanFrame, FrameArrives(f)
  PROVE  Control1 \in missed' <=> Control1 \in missed
<1>1. waiting[Received] \in Seq(CanFrame)
  BY TopicsApart DEF RosTypeOK, Message, Queue
<1>2. \A g \in CanFrame : g.id # Control1
  BY StatusAssumption DEF CanFrame
<1>3. Full(Received) => Head(waiting[Received]).id # Control1
  <2>1. HAVE Full(Received)
  <2>2. waiting[Received] # <<>>
    BY <1>1, <2>1, LengthAssumption DEF Full
  <2> QED BY <1>1, <1>2, <2>2
<1> QED BY <1>2, <1>3 DEF FrameArrives

LEMMA OtherQueue ==
  ASSUME NEW t \in Queue, NEW u \in Queue, t # u, RosTypeOK,
         Takes(t) \/ \E msg : Arrive(t, msg)
  PROVE  waiting'[u] = waiting[u]
BY DEF RosTypeOK, Takes, Arrive

(* Steps that leave the commands and the frame in memory alone.            *)
LEMMA QuietUpheld ==
  ASSUME Upheld, UNCHANGED <<count, toSend>>,
         \A t \in Topic : waiting'[t] = waiting[t]
  PROVE  (\A t \in Topic : Backlog(t)') /\ (\A f \in Field : Held(f)')
BY DEF Upheld, Backlog, Held, Writer

LEMMA CommandUpheld ==
  ASSUME ClientTypeOK, Upheld, NEW t \in Topic, Command(t)
  PROVE  Upheld'
<1>0. RosTypeOK /\ t \in Queue
  BY DEF ClientTypeOK, Queue
<1>1. /\ count' = [count EXCEPT ![t] = @ + 1] /\ Arrive(t, NewCommand(t))
      /\ UNCHANGED <<toSend, connected, out, control, missed>>
  BY DEF Command, nodeVars, objVars, sendVars, talonVars
<1>2. NewCommand(t) \in Message(t) /\ NewCommand(t).no = count[t] + 1
  <2>1. NewCommand(t) \in [topic : {t}, no : Nat]
    BY <1>0 DEF NewCommand, RosTypeOK
  <2> QED BY <2>1, TopicsApart DEF Message, NewCommand
<1>3. /\ waiting'[t] # <<>> /\ waiting'[t][Len(waiting'[t])] = NewCommand(t)
      /\ \A u \in Topic \ {t} : waiting'[u] = waiting[u]
  BY <1>0, <1>1, <1>2, ArriveLast DEF Queue
<1>4. /\ count[t] \in Nat /\ count'[t] = count[t] + 1
      /\ \A u \in Topic \ {t} : count'[u] = count[u]
  BY <1>0, <1>1 DEF RosTypeOK
<1>5. ASSUME NEW u \in Topic PROVE Backlog(u)'
  BY <1>2, <1>3, <1>4 DEF Upheld, Backlog
<1>6. ASSUME NEW f \in Field PROVE Held(f)'
  <2>1. Held(f)
    BY DEF Upheld
  <2>2. \A u \in Topic : Writer(f, u) => Writer(f, u)'
    BY <1>1, <1>3, <1>4 DEF Writer
  <2> QED BY <1>1, <1>3, <1>4, <2>1, <2>2 DEF Held
<1>7. Channel'
  BY <1>1 DEF Upheld, Channel
<1> QED BY <1>5, <1>6, <1>7 DEF Upheld

LEMMA SetterUpheld ==
  ASSUME ClientTypeOK, Upheld, NEW t \in Topic, RunSetter(t)
  PROVE  Upheld'
<1> DEFINE cmd == Head(waiting[t])
<1>0. RosTypeOK /\ t \in Queue /\ Takes(t)
  BY DEF ClientTypeOK, Queue, RunSetter
<1>1. cmd \in [topic : {t}, no : Nat]
  BY <1>0, TakesType, TopicsApart DEF Message
<1>2. /\ toSend' = Filled(toSend, cmd) /\ Publish(Control(toSend'))
      /\ UNCHANGED <<count, connected, control>>
  BY DEF RunSetter, talonVars
<1>3. /\ waiting[t] # <<>>
      /\ \A u \in Topic \ {t} : waiting'[u] = waiting[u]
      /\ IF waiting'[t] = <<>> THEN cmd = waiting[t][Len(waiting[t])]
         ELSE waiting'[t][Len(waiting'[t])] = waiting[t][Len(waiting[t])]
  BY <1>0, TakesRest DEF Queue
<1>4. count[t] > 0 /\ waiting[t][Len(waiting[t])].no = count[t]
  BY <1>3 DEF Upheld, Backlog
<1> HIDE DEF cmd
<1>5. ASSUME NEW u \in Topic PROVE Backlog(u)'
  BY <1>2, <1>3, <1>4 DEF Upheld, Backlog
<1>6. ASSUME NEW f \in Field PROVE Held(f)'
  <2>1. Held(f)
    BY DEF Upheld
  <2>2. toSend'[f] = IF f \in Writes[t] THEN <<t, cmd.no>> ELSE toSend[f]
    BY <1>1, <1>2 DEF Filled
  <2>3. t \notin {"none", "constructor"}
    BY TopicAssumption DEF Writes
  <2>4. Defaults[f] \in {<<"none", 0>>, <<"constructor", 0>>}
    BY DEF Defaults, Blank, Nobody, Ctor
  <2>5. CASE f \in Writes[t]
    <3>1. toSend'[f] = <<t, cmd.no>> /\ toSend'[f] # Defaults[f]
      BY <2>2, <2>3, <2>4, <2>5
    <3>2. waiting'[t] = <<>> => cmd.no = count[t]
      BY <1>3, <1>4
    <3>3. Writer(f, t)'
      BY <1>2, <1>4, <2>5, <3>1, <3>2 DEF Writer
    <3> QED BY <3>1, <3>3 DEF Held
  <2>6. CASE f \notin Writes[t]
    <3>1. \A u \in Topic : Writer(f, u) => Writer(f, u)'
      BY <1>2, <1>3, <2>2, <2>6 DEF Writer
    <3> QED BY <1>2, <1>3, <2>1, <2>2, <2>6, <3>1 DEF Held
  <2> QED BY <2>5, <2>6
<1>7. Channel'
  <2>1. toSend' \in Frame
    BY <1>1, <1>2, FilledType DEF ClientTypeOK, SpinnerTypeOK
  <2>2. /\ Control(toSend') \in Packet /\ Control(toSend').kind = "control"
        /\ Control(toSend').frame = toSend'
    BY <2>1 DEF Control, Packet
  <2> QED BY <1>0, <1>2, <2>2, PublishChannel DEF Upheld
<1> QED BY <1>5, <1>6, <1>7 DEF Upheld

LEMMA StepUpheld == ClientTypeOK /\ Upheld /\ [Next]_vars => Upheld'
<1> SUFFICES ASSUME ClientTypeOK, Upheld, [Next]_vars PROVE Upheld'
  OBVIOUS
<1>0. RosTypeOK /\ Channel /\ Topic \subseteq Queue
  BY DEF ClientTypeOK, Upheld, Queue
<1>1. ASSUME UNCHANGED <<count, toSend>>, \A t \in Topic : waiting'[t] = waiting[t],
             Channel'
      PROVE  Upheld'
  BY <1>1, QuietUpheld DEF Upheld
<1>2. ASSUME UNCHANGED <<toSend, connected, out, control>>,
             Control1 \in missed' <=> Control1 \in missed
      PROVE  Channel'
  BY <1>0, <1>2 DEF Channel
<1>3. ASSUME NEW u \in Queue \ Topic, Takes(u) \/ \E msg : Arrive(u, msg)
      PROVE  \A t \in Topic : waiting'[t] = waiting[t]
  BY <1>0, <1>3, OtherQueue
<1>4. {Received, Configs, Asks} \subseteq Queue \ Topic
  BY TopicsApart DEF Queue
<1>5. ASSUME NEW p \in Param, Configure(p) \/ Ask(p) PROVE Upheld'
  <2>1. \A t \in Topic : waiting'[t] = waiting[t]
    BY <1>3, <1>4, <1>5 DEF Configure, Ask
  <2>2. UNCHANGED <<count, toSend, connected, out, control, missed>>
    BY <1>5 DEF Configure, Ask, nodeVars, objVars, sendVars, talonVars
  <2> QED BY <1>1, <1>2, <2>1, <2>2
<1>6. CASE Connect
  <2>1. UNCHANGED <<waiting, count, toSend, out, control, missed>> /\ connected' = TRUE
    BY <1>6 DEF Connect, rosVars, nodeVars, objVars, talonVars
  <2>2. Channel'
    BY <1>0, <2>1 DEF Channel
  <2> QED BY <1>1, <2>1, <2>2
<1>7. ASSUME NEW f \in CanFrame, FrameArrives(f), UNCHANGED <<count, toSend, connected, control>>,
             out' = out \/ /\ out # <<>> /\ Head(out).kind # "control" /\ out' = Tail(out)
                            /\ connected
      PROVE  Upheld'
  <2>1. \A t \in Topic : waiting'[t] = waiting[t]
    BY <1>3, <1>4, <1>7 DEF FrameArrives
  <2>2. Control1 \in missed' <=> Control1 \in missed
    BY <1>0, <1>7, ArrivalMisses
  <2>3. CASE out' = out
    BY <1>1, <1>2, <1>7, <2>1, <2>2, <2>3
  <2>4. CASE out # <<>> /\ Head(out).kind # "control" /\ out' = Tail(out) /\ connected
    <3>1. out \in Seq(Packet)
      BY <1>0 DEF RosTypeOK
    <3>2. ~Carries(out) => ~Carries(out')
      BY <2>4, <3>1, LastTail
    <3>3. LastIs(out, toSend) => Carries(out') /\ LastIs(out', toSend)
      BY <2>4, <3>1, LastTail
    <3>4. Channel'
      BY <1>0, <1>7, <2>2, <2>4, <3>2, <3>3 DEF Channel
    <3> QED BY <1>1, <1>7, <2>1, <3>4
  <2> QED BY <1>7, <2>3, <2>4
<1>8. ASSUME NEW i \in StatusId, TalonReports(i) PROVE Upheld'
  <2>1. StatusFrame(i) \in CanFrame /\ FrameArrives(StatusFrame(i))
    BY <1>8 DEF TalonReports, StatusFrame, CanFrame, ClientTypeOK, TalonTypeOK
  <2>2. UNCHANGED <<count, toSend, connected, out, control>>
    BY <1>8 DEF TalonReports, nodeVars, objVars, sendVars
  <2> QED BY <1>7, <2>1, <2>2
<1>9. CASE TalonAnswers
  <2> DEFINE p == Head(out).param
             v == IF Head(out).kind = "set" THEN Head(out).no ELSE talonParam[p]
  <2>1. Head(out) \in Packet /\ out # <<>> /\ Head(out).kind \in {"set", "request"}
    BY <1>0, <1>9 DEF TalonAnswers, RosTypeOK
  <2>2. p \in Param /\ v \in Nat
    BY <2>1 DEF Packet, ClientTypeOK, TalonTypeOK
  <2>3. ParamFrame(p, v) \in CanFrame /\ FrameArrives(ParamFrame(p, v))
    BY <1>9, <2>2 DEF TalonAnswers, ParamFrame, CanFrame
  <2>4. UNCHANGED <<count, toSend, connected, control>> /\ out' = Tail(out)
    BY <1>9 DEF TalonAnswers, nodeVars, objVars
  <2>5. connected
    BY <1>0, <2>1 DEF Channel, RosTypeOK
  <2> QED BY <1>7, <2>1, <2>3, <2>4, <2>5
<1>10. CASE TalonObeys
  <2>1. /\ out # <<>> /\ control' = Head(out).frame /\ out' = Tail(out)
        /\ UNCHANGED <<waiting, count, toSend, connected, missed>>
    BY <1>10 DEF TalonObeys, rosVars, nodeVars, objVars
  <2>2. Head(out).kind = "control" /\ Head(out) = out[1] /\ 1 \in DOMAIN out /\ out \in Seq(Packet)
    BY <1>0, <1>10, <2>1 DEF TalonObeys, RosTypeOK
  <2>3. Carries(out) /\ connected
    BY <1>0, <2>1, <2>2 DEF Carries, Channel
  <2>4. \A frame : LastIs(out, frame) =>
          IF Carries(Tail(out)) THEN LastIs(Tail(out), frame) ELSE Head(out).frame = frame
    BY <2>1, <2>2, LastTail
  <2>5. Channel'
    BY <1>0, <2>1, <2>3, <2>4 DEF Channel
  <2> QED BY <1>1, <2>1, <2>5
<1>11. CASE RunConfigure
  <2> DEFINE m == Head(waiting[Configs])
             msg == ParamSet(m.param, m.no)
  <2>1. m \in [param : Param, no : Nat]
    BY <1>0, <1>11, TakesType, TopicsApart DEF RunConfigure, Queue, Message
  <2>2. msg \in Packet /\ Publish(msg) /\ msg.kind # "control"
    BY <1>11, <2>1 DEF RunConfigure, ParamSet, Packet
  <2>3. UNCHANGED <<count, toSend, connected, control>>
    BY <1>11 DEF RunConfigure, nodeVars, objVars, talonVars
  <2>4. Channel'
    BY <1>0, <2>2, <2>3, PublishChannel
  <2>5. \A t \in Topic : waiting'[t] = waiting[t]
    BY <1>3, <1>4, <1>11 DEF RunConfigure
  <2> QED BY <1>1, <2>3, <2>4, <2>5
<1>12. CASE RunAsk
  <2> DEFINE p == Head(waiting[Asks]).param
             msg == ParamRequest(p)
  <2>1. p \in Param
    BY <1>0, <1>12, TakesType, TopicsApart DEF RunAsk, Queue, Message
  <2>2. msg \in Packet /\ Publish(msg) /\ msg.kind # "control"
    BY <1>12, <2>1 DEF RunAsk, ParamRequest, Packet
  <2>3. UNCHANGED <<count, toSend, connected, control>>
    BY <1>12 DEF RunAsk, talonVars
  <2>4. Channel'
    BY <1>0, <2>2, <2>3, PublishChannel
  <2>5. \A t \in Topic : waiting'[t] = waiting[t]
    BY <1>3, <1>4, <1>12 DEF RunAsk
  <2> QED BY <1>1, <2>3, <2>4, <2>5
<1>13. CASE RunReceive
  <2>1. \A t \in Topic : waiting'[t] = waiting[t]
    BY <1>3, <1>4, <1>13 DEF RunReceive
  <2>2. UNCHANGED <<count, toSend, connected, out, control, missed>>
    BY <1>13 DEF RunReceive, objVars, sendVars, talonVars
  <2> QED BY <1>1, <1>2, <2>1, <2>2
<1>14. CASE AnswerAsk \/ StoreResponse \/ StoreFirst \/ StoreSecond \/ Main \/ Fault \/ Tick
            \/ UNCHANGED vars
  <2>1. UNCHANGED <<waiting, count, toSend, connected, out, control, missed>>
    BY <1>14 DEF AnswerAsk, StoreResponse, StoreFirst, StoreSecond, Main, FindFrame,
                 CopyFrame, MissFrame, Fault, Tick, vars, rosVars, nodeVars, objVars,
                 sendVars, talonVars
  <2> QED BY <1>1, <1>2, <2>1
<1> QED BY <1>5, <1>6, <1>8, <1>9, <1>10, <1>11, <1>12, <1>13, <1>14,
           CommandUpheld, SetterUpheld DEF Next, Publishers, Talon, Spinner

(* However the queues drop and reorder the commands, and whenever the      *)
(* bridge subscribes, the Talon ends up with the last command of a topic   *)
(* in every field that one writes.                                         *)
THEOREM LastOfTopicWinsCorrect == Spec => []LastOfTopicWins
<1>1. ClientTypeOK /\ Upheld => LastOfTopicWins
  <2> SUFFICES ASSUME ClientTypeOK, Upheld, Quiet, control # Blank, Control1 \notin missed,
                      NEW f \in Field
               PROVE  IF Latest(f) = {} THEN control[f] = Defaults[f]
                      ELSE control[f] \in Latest(f)
    BY DEF LastOfTopicWins
  <2>1. ~Carries(out)
    BY DEF Quiet, Carries
  <2>2. control = toSend
    BY <2>1 DEF Upheld, Channel
  <2>3. Held(f) /\ \A t \in Topic : waiting[t] = <<>>
    BY DEF Upheld, Quiet
  <2>4. \A t \in Topic : Writer(f, t) => toSend[f] \in Latest(f)
    BY <2>3 DEF Writer, Latest
  <2>5. CASE Latest(f) = {}
    BY <2>2, <2>3, <2>4, <2>5 DEF Held
  <2>6. CASE Latest(f) # {}
    <3>1. PICK t \in Topic : f \in Writes[t] /\ count[t] > 0
      BY <2>6 DEF Latest
    <3>2. toSend[f] # Defaults[f]
      BY <2>3, <3>1 DEF Held
    <3> QED BY <2>2, <2>3, <2>4, <2>6, <3>2 DEF Held
  <2> QED BY <2>5, <2>6
<1> QED BY <1>1, InitTypes, StepTypes, InitUpheld, StepUpheld, PTL DEF Spec

-----------------------------------------------------------------------------
(* Parameters.  The newest PARAM_RESPONSE on its way to GetParamResponse,  *)
(* in the subscription, in CANRecvCallback or already in the map, carries  *)
(* the value the Talon holds, unless the subscription has dropped it.      *)

Answered(f, held) == f.param \in Param => f.no = held[f.param]

NoAnswer(q) == \A k \in DOMAIN q : q[k].id # Response

LastAnswered(q, held) ==
  \E k \in DOMAIN q : /\ q[k].id = Response /\ Answered(q[k], held)
                      /\ \A j \in DOMAIN q : j > k => q[j].id # Response

Stored == IF spc = "storing" /\ sarg.id = Response THEN sarg ELSE response

Settled ==
  Response \notin missed =>
    \/ LastAnswered(waiting[Received], talonParam)
    \/ NoAnswer(waiting[Received]) /\ Answered(Stored, talonParam)

LEMMA AnswersTail ==
  ASSUME NEW q \in Seq(CanFrame), q # <<>>, NEW held
  PROVE  /\ LastAnswered(q, held) =>
              \/ LastAnswered(Tail(q), held)
              \/ NoAnswer(Tail(q)) /\ Head(q).id = Response /\ Answered(Head(q), held)
         /\ NoAnswer(q) => NoAnswer(Tail(q)) /\ Head(q).id # Response
<1> DEFINE w == Tail(q)
<1>1. /\ DOMAIN q = 1..Len(q) /\ DOMAIN w = 1..(Len(q) - 1) /\ Len(q) \in Nat \ {0}
      /\ Head(q) = q[1] /\ \A k \in DOMAIN w : w[k] = q[k + 1]
  OBVIOUS
<1> HIDE DEF w
<1>2. ASSUME LastAnswered(q, held)
      PROVE  \/ LastAnswered(w, held)
             \/ NoAnswer(w) /\ Head(q).id = Response /\ Answered(Head(q), held)
  <2>1. PICK k \in DOMAIN q : /\ q[k].id = Response /\ Answered(q[k], held)
                              /\ \A j \in DOMAIN q : j > k => q[j].id # Response
    BY <1>2 DEF LastAnswered
  <2>2. CASE k = 1
    <3>1. NoAnswer(w)
      BY <1>1, <2>1, <2>2 DEF NoAnswer
    <3> QED BY <1>1, <2>1, <2>2, <3>1
  <2>3. CASE k # 1
    <3>1. k - 1 \in DOMAIN w /\ w[k - 1] = q[k]
      BY <1>1, <2>3
    <3>2. \A j \in DOMAIN w : j > k - 1 => w[j].id # Response
      BY <1>1, <2>1
    <3> QED BY <2>1, <3>1, <3>2 DEF LastAnswered
  <2> QED BY <2>2, <2>3
<1>3. NoAnswer(q) => NoAnswer(w) /\ Head(q).id # Response
  BY <1>1 DEF NoAnswer
<1> QED BY <1>2, <1>3 DEF w

LEMMA AnswersAppend ==
  ASSUME NEW q \in Seq(CanFrame), NEW f \in CanFrame, NEW held
  PROVE  /\ f.id = Response /\ Answered(f, held) => LastAnswered(Append(q, f), held)
         /\ f.id # Response => /\ LastAnswered(q, held) => LastAnswered(Append(q, f), held)
                               /\ NoAnswer(q) => NoAnswer(Append(q, f))
<1> DEFINE w == Append(q, f)
<1>1. /\ DOMAIN w = 1..(Len(q) + 1) /\ DOMAIN q = 1..Len(q) /\ Len(q) \in Nat
      /\ w[Len(q) + 1] = f /\ \A k \in DOMAIN q : w[k] = q[k]
  OBVIOUS
<1> HIDE DEF w
<1>2. f.id = Response /\ Answered(f, held) => LastAnswered(w, held)
  <2>1. Len(q) + 1 \in DOMAIN w /\ \A j \in DOMAIN w : ~(j > Len(q) + 1)
    BY <1>1
  <2> QED BY <1>1, <2>1 DEF LastAnswered
<1>3. ASSUME f.id # Response, LastAnswered(q, held) PROVE LastAnswered(w, held)
  <2>1. PICK k \in DOMAIN q : /\ q[k].id = Response /\ Answered(q[k], held)
                              /\ \A j \in DOMAIN q : j > k => q[j].id # Response
    BY <1>3 DEF LastAnswered
  <2>2. k \in DOMAIN w /\ w[k] = q[k]
    BY <1>1
  <2>3. \A j \in DOMAIN w : j > k => w[j].id # Response
    BY <1>1, <1>3, <2>1
  <2> QED BY <2>1, <2>2, <2>3 DEF LastAnswered
<1>4. f.id # Response /\ NoAnswer(q) => NoAnswer(w)
  BY <1>1 DEF NoAnswer
<1> QED BY <1>2, <1>3, <1>4 DEF w

(* A frame arrives: the answer to a request, or any other frame.           *)
LEMMA ArrivalSettled ==
  ASSUME ClientTypeOK, Settled, NEW f \in CanFrame, FrameArrives(f),
         UNCHANGED <<spc, sarg, response>>,
         IF f.id = Response THEN Answered(f, talonParam') ELSE UNCHANGED talonParam
  PROVE  Settled'
<1> DEFINE w == waiting[Received]
           v == waiting'[Received]
<1>1. w \in Seq(CanFrame) /\ Received \in DOMAIN waiting
  BY TopicsApart DEF ClientTypeOK, RosTypeOK, Message, Queue
<1>2. Stored' = Stored
  BY DEF Stored
<1>3. PICK q \in Seq(CanFrame) :
        /\ v = Append(q, f)
        /\ \/ q = w /\ ~Full(Received)
           \/ q = Tail(w) /\ w # <<>> /\ Full(Received)
  <2>1. CASE Full(Received)
    <3>1. w # <<>>
      BY <1>1, <2>1, LengthAssumption DEF Full
    <3>2. v = Append(Tail(w), f)
      BY <1>1, <2>1 DEF FrameArrives, Arrive
    <3>3. Tail(w) \in Seq(CanFrame)
      BY <1>1, <3>1
    <3> HIDE DEF w, v
    <3> QED BY <2>1, <3>1, <3>2, <3>3
  <2>2. CASE ~Full(Received)
    <3>1. v = Append(w, f)
      BY <1>1, <2>2 DEF FrameArrives, Arrive
    <3> HIDE DEF w, v
    <3> QED BY <1>1, <2>2, <3>1
  <2> QED BY <2>1, <2>2
<1>4. CASE f.id = Response
  <2>1. LastAnswered(v, talonParam')
    BY <1>3, <1>4, AnswersAppend
  <2> QED BY <2>1 DEF Settled
<1>5. CASE f.id # Response
  <2> SUFFICES ASSUME Response \notin missed' PROVE Settled'
    BY DEF Settled
  <2>1. /\ Response \notin missed
        /\ Full(Received) /\ Head(w).id = Response => ~NoAnswer(Tail(w))
    BY <1>1, <1>5 DEF FrameArrives, NoAnswer, Range
  <2>2. \/ LastAnswered(w, talonParam)
        \/ NoAnswer(w) /\ Answered(Stored, talonParam)
    BY <2>1 DEF Settled
  <2>3. \/ LastAnswered(q, talonParam)
        \/ NoAnswer(q) /\ Answered(Stored, talonParam)
    <3> HIDE DEF w
    <3>1. CASE q = w
      BY <2>2, <3>1
    <3>2. CASE q = Tail(w) /\ w # <<>> /\ Full(Received)
      BY <1>1, <2>1, <2>2, <3>2, AnswersTail, SMTT(30) DEF NoAnswer, LastAnswered
    <3> QED BY <1>3, <3>1, <3>2
  <2>4. \/ LastAnswered(v, talonParam)
        \/ NoAnswer(v) /\ Answered(Stored, talonParam)
    BY <1>3, <1>5, <2>3, AnswersAppend
  <2> QED BY <1>2, <1>5, <2>4 DEF Settled
<1> QED BY <1>4, <1>5

(* Steps that touch neither the frames received nor the parameters.        *)
LEMMA QuietSettled ==
  ASSUME Settled, Stored' = Stored, UNCHANGED talonParam,
         waiting'[Received] = waiting[Received],
         Response \in missed => Response \in missed'
  PROVE  Settled'
BY DEF Settled

LEMMA InitSettled == Init => Settled
<1> SUFFICES ASSUME Init PROVE Settled
  OBVIOUS
<1>1. waiting[Received] = <<>> /\ spc = "idle" /\ response = ParamFrame(NoParam, 0)
  BY DEF Init, Queue
<1>2. Stored.param = NoParam
  BY <1>1 DEF Stored, ParamFrame
<1> QED BY <1>1, <1>2, ParamAssumption DEF Settled, LastAnswered, NoAnswer, Answered

LEMMA StepSettled == ClientTypeOK /\ Settled /\ [Next]_vars => Settled'
<1> SUFFICES ASSUME ClientTypeOK, Settled, [Next]_vars PROVE Settled'
  OBVIOUS
<1>0. RosTypeOK /\ SpinnerTypeOK
  BY DEF ClientTypeOK
<1>1. CASE Publishers
  <2>1. PICK t \in Queue \ {Received} : \E msg : Arrive(t, msg)
    BY <1>1, TopicsApart DEF Publishers, Command, Configure, Ask, Queue
  <2>2. waiting'[Received] = waiting[Received]
    BY <1>0, <2>1, OtherQueues
  <2> QED BY <1>1, <2>2, QuietSettled
          DEF Publishers, Command, Configure, Ask, nodeVars, spinVars, storeVars,
              talonVars, Stored
<1>2. CASE Connect \/ TalonObeys \/ Main \/ Fault \/ Tick \/ UNCHANGED vars
  <2>1. UNCHANGED <<rosVars, spinVars, storeVars, talonParam, missed>>
    BY <1>2 DEF Connect, TalonObeys, Main, FindFrame, CopyFrame, MissFrame, Fault, Tick,
                nodeVars, talonVars, vars
  <2> QED BY <2>1, QuietSettled DEF rosVars, spinVars, storeVars, Stored
<1>3. ASSUME NEW i \in StatusId, TalonReports(i) PROVE Settled'
  <2>1. StatusFrame(i) \in CanFrame /\ StatusFrame(i).id # Response
    BY StatusAssumption DEF StatusFrame, CanFrame, ClientTypeOK, TalonTypeOK
  <2> QED BY <1>3, <2>1, ArrivalSettled
          DEF TalonReports, nodeVars, spinVars, storeVars, talonVars
<1>4. CASE TalonAnswers
  <2> DEFINE p == Head(out).param
             v == IF Head(out).kind = "set" THEN Head(out).no ELSE talonParam[p]
             f == ParamFrame(p, v)
  <2>1. Head(out) \in Packet
    BY <1>0, <1>4 DEF TalonAnswers, RosTypeOK
  <2>2. p \in Param /\ v \in Nat
    BY <1>4, <2>1 DEF TalonAnswers, Packet, ClientTypeOK, TalonTypeOK
  <2>3. FrameArrives(f) /\ talonParam' = [talonParam EXCEPT ![p] = v]
        /\ UNCHANGED <<spc, sarg, response>>
    BY <1>4 DEF TalonAnswers, nodeVars, spinVars, storeVars
  <2>4. f \in CanFrame /\ f.id = Response /\ Answered(f, talonParam')
    <3> HIDE DEF p, v
    <3> QED BY <2>2, <2>3 DEF ParamFrame, CanFrame, Answered, ClientTypeOK, TalonTypeOK
  <2> HIDE DEF p, v, f
  <2> QED BY <2>3, <2>4, ArrivalSettled
<1>5. CASE (\E t \in Topic : RunSetter(t)) \/ RunConfigure \/ RunAsk
  <2>1. PICK t \in Queue \ {Received} : Takes(t)
    BY <1>5, TopicsApart DEF RunSetter, RunConfigure, RunAsk, Queue
  <2>2. waiting'[Received] = waiting[Received]
    BY <1>0, <2>1, OtherQueues
  <2>3. UNCHANGED <<storeVars, talonVars>> /\ spc = "idle" /\ spc' # "storing"
    BY <1>5, <2>1 DEF Takes, RunSetter, RunConfigure, RunAsk, nodeVars, spinVars
  <2>4. Response \in missed => Response \in missed'
    BY <1>5 DEF RunSetter, RunConfigure, RunAsk, Publish
  <2> QED BY <2>2, <2>3, <2>4, QuietSettled DEF storeVars, talonVars, Stored
<1>6. CASE AnswerAsk
  BY <1>6, QuietSettled DEF AnswerAsk, Finishes, rosVars, storeVars, talonVars, Stored
<1>7. CASE RunReceive
  <2> DEFINE w == waiting[Received]
  <2>1. /\ w \in Seq(CanFrame) /\ w # <<>> /\ spc = "idle" /\ spc' = "storing"
        /\ sarg' = Head(w) /\ waiting'[Received] = Tail(w)
        /\ UNCHANGED <<response, talonParam, missed>>
    BY <1>0, <1>7, TopicsApart
       DEF RunReceive, Takes, RosTypeOK, Message, Queue, storeVars, talonVars
  <2> SUFFICES ASSUME Response \notin missed PROVE Settled'
    BY <2>1 DEF Settled
  <2>2. \/ LastAnswered(w, talonParam)
        \/ NoAnswer(w) /\ Answered(response, talonParam)
    BY <2>1 DEF Settled, Stored
  <2> HIDE DEF w
  <2>3. \/ LastAnswered(Tail(w), talonParam)
        \/ /\ NoAnswer(Tail(w))
           /\ IF Head(w).id = Response THEN Answered(Head(w), talonParam)
                                       ELSE Answered(response, talonParam)
    BY <2>1, <2>2, AnswersTail
  <2> QED BY <2>1, <2>2, <2>3 DEF Settled, Stored
<1>8. CASE StoreResponse
  BY <1>8, QuietSettled DEF StoreResponse, Finishes, rosVars, talonVars, Stored
<1>9. CASE StoreFirst \/ StoreSecond
  BY <1>9, QuietSettled
     DEF StoreFirst, StoreSecond, Finishes, rosVars, talonVars, Stored
<1> QED BY <1>1, <1>2, <1>3, <1>4, <1>5, <1>6, <1>7, <1>8, <1>9 DEF Next, Talon, Spinner

LEMMA AnswersAreHeld ==
  ClientTypeOK /\ Settled /\ [Next]_vars =>
    [\A p \in Param : AnswerAsk /\ sarg.param = p /\ Current(p)
                       => Answer(p)' = talonParam[p]]_vars
<1> SUFFICES ASSUME ClientTypeOK, Settled, NEW p \in Param, AnswerAsk, Current(p)
             PROVE  Answer(p)' = talonParam[p]
  OBVIOUS
<1>1. response.param = p /\ p # NoParam /\ Stored = response
  BY ParamAssumption DEF Current, AnswerAsk, Stored
<1>2. sigs'[p] = response.no
  BY <1>1 DEF AnswerAsk, Process
<1>3. Answered(response, talonParam)
  <2> DEFINE w == waiting[Received]
  <2>1. \/ LastAnswered(w, talonParam)
        \/ NoAnswer(w) /\ Answered(response, talonParam)
    BY <1>1 DEF Settled, Current
  <2>2. \A k \in DOMAIN w : w[k].id = Response => w[k] = response
    BY DEF Current, Range
  <2> HIDE DEF w
  <2> QED BY <2>1, <2>2 DEF LastAnswered
<1> QED BY <1>1, <1>2, <1>3 DEF Answer, Answered

(* getParameter answers with what the Talon holds, for any number of       *)
(* parameters, any queue lengths and any traffic, as long as the newest    *)
(* response was not dropped and no other is on its way (test.cpp           *)
(* getParameter, CanTalonSRX.cpp GetParamResponse).                        *)
THEOREM SettledAnswerCorrect == Spec => SettledAnswer
BY InitTypes, StepTypes, InitSettled, StepSettled, AnswersAreHeld, PTL
   DEF Spec, SettledAnswer
===============================================================================
