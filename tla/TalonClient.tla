----------------------------- MODULE TalonClient -----------------------------
(***************************************************************************)
(* can_talon_srx_node, the process that speaks for one Talon: test.cpp     *)
(* over CanTalonSRX, CtreCanNode and CANSessionMux.  Two threads share the *)
(* map receivedCAN without a lock: the spinner, which runs every callback, *)
(* one after the other, and main(), which reads the status frames in a     *)
(* loop and publishes them.                                                *)
(*                                                                         *)
(* A command is the topic it came on and its number there; a field of the  *)
(* control frame holds the command that wrote it last.  A status frame is  *)
(* its number, in two halves, as it is copied piece by piece.              *)
(***************************************************************************)
EXTENDS Integers, Sequences, SequencesExt, FiniteSets

CONSTANTS
  Topic,        \* the command topics in use
  Length,       \* the queue_size of each subscription
  StatusId,     \* the status frames in use
  Getters,      \* the status frame each getter of main's loop reads, in order
  Param,        \* parameters in use
  Stale,        \* EXPECTED_RESPONSE_TIMEOUT_MS, in ticks
  OutCap,       \* queue_size of the bridge's subscription to CANSend
  MaxTraffic    \* how much other nodes and the Talon send on their own

Field == {"Demand", "ProfileSlotSelect", "FeedbackDeviceSelect",
          "OverrideLimitSwitchEn", "RevFeedbackSensor", "RevMotDuringCloseLoopEn",
          "OverrideBrakeType", "ModeSelect", "RampThrottle"}

(* The fields each setter writes.                                          *)
Writes ==
  [set |-> {"Demand"}, setDemand |-> {"Demand"},
   setOverrideLimitSwitchEn |-> {"OverrideLimitSwitchEn"},
   setFeedbackDeviceSelect |-> {"FeedbackDeviceSelect"},
   setRevMotDuringCloseLoopEn |-> {"RevMotDuringCloseLoopEn"},
   setOverrideBrakeType |-> {"OverrideBrakeType"},
   setModeSelect |-> {"ModeSelect"},
   setModeSelectAndDemand |-> {"ModeSelect", "Demand"},
   setProfileSlotSelect |-> {"ProfileSlotSelect"},
   setRampThrottle |-> {"RampThrottle"},
   setRevFeedbackSensor |-> {"RevFeedbackSensor"}]

Response == "PARAM_RESPONSE"
Control1 == "CONTROL_1"
Received == "CANRecv"
Configs  == "configSetParameter"
Asks     == "getParameter"
Queue    == Topic \cup {Received, Configs, Asks}

NoParam == "none"

ASSUME TopicAssumption  == Topic \subseteq DOMAIN Writes
ASSUME LengthAssumption == Length \in [Topic \cup {Received, Configs} -> Nat \ {0}]
ASSUME GetterAssumption == Getters \in Seq(StatusId) /\ Getters # <<>>
ASSUME StatusAssumption == {Response, Control1, Asks} \cap StatusId = {}
ASSUME ParamAssumption  == NoParam \notin Param
ASSUME BoundAssumption  == /\ OutCap \in Nat \ {0} /\ Stale \in Nat
                           /\ MaxTraffic \in Nat

Unknown == -1      \* no entry in _sigs
Junk    == -2      \* indeterminate memory
Nobody  == <<"none", 0>>
Ctor    == <<"constructor", 0>>

VARIABLES
  callbacks,   \* the global callback queue: one entry per waiting message
  waiting,     \* the messages of each subscription
  count,       \* ghost: commands published so far on each topic
  spc, sarg,   \* where the spinner is, and the message it works on
  received,    \* receivedCAN, the status frames: <<first, second>>, 0 if none
  response,    \* receivedCAN, the entry of PARAM_RESPONSE
  toSend,      \* _txJobs: the control frame as last flushed
  sigs, msgBuff,
  mpc, getter, half,   \* main: where it is, which getter, what it has copied
  events,      \* _rxRxEvents
  got,         \* what the last getter of main returned
  connected, out,      \* CANSend: has the bridge subscribed; what is under way to it
  control, talonParam, \* the Talon: control frame in force, parameters
  reports, sets,       \* ghost: status frames and parameter values sent so far
  asked,
  missed,      \* ghost: frames whose newest instance a full queue dropped
  silent,      \* ghost: ticks since each status frame was last stored
  alive

rosVars    == <<callbacks, waiting, count, asked, sets>>
spinVars   == <<spc, sarg>>
storeVars  == <<received, response>>
objVars    == <<toSend, sigs, msgBuff>>
mainVars   == <<mpc, getter, half, events, got>>
sendVars   == <<connected, out>>
nodeVars   == <<spinVars, storeVars, objVars, mainVars>>
talonVars  == <<control, talonParam, reports>>
vars == <<rosVars, nodeVars, sendVars, talonVars, missed, silent, alive>>

-----------------------------------------------------------------------------
(* The ROS transport.  A full subscription drops its oldest message, and   *)
(* the new one takes over the place of the dropped one in the global       *)
(* callback queue.                                                         *)

NewCommand(t)    == [topic |-> t, no |-> count[t] + 1]
ParamFrame(p, v) == [id |-> Response, param |-> p, no |-> v]
StatusFrame(i)   == [id |-> i, param |-> NoParam, no |-> reports[i] + 1]

Full(t) == t # Asks /\ Len(waiting[t]) = Length[t]

Arrive(t, msg) ==
  IF Full(t)
  THEN /\ waiting' = [waiting EXCEPT ![t] = Append(Tail(@), msg)]
       /\ UNCHANGED callbacks
  ELSE /\ waiting' = [waiting EXCEPT ![t] = Append(@, msg)]
       /\ callbacks' = Append(callbacks, t)

FrameArrives(f) ==
  LET dropped == IF Full(Received) THEN {Head(waiting[Received]).id} ELSE {}
      kept    == {g.id : g \in Range(IF Full(Received) THEN Tail(waiting[Received])
                                                       ELSE waiting[Received])}
  IN /\ Arrive(Received, f)
     /\ missed' = (missed \cup (dropped \ kept)) \ {f.id}

(* CANSend_pub.publish: nobody gets it before the bridge has subscribed.   *)
Sent(q, msg) == IF ~connected THEN q
                ELSE Append(IF Len(q) = OutCap THEN Tail(q) ELSE q, msg)

Carries(q) == \E k \in DOMAIN q : q[k].kind = "control"

Publish(msg) ==
  /\ out' = Sent(out, msg)
  /\ missed' = CASE msg.kind = "control"            -> missed \ {Control1}
                 [] Carries(out) /\ ~Carries(out') -> missed \cup {Control1}
                 [] OTHER                          -> missed

Control(frame)    == [kind |-> "control", frame |-> frame]
ParamSet(p, v)    == [kind |-> "set", param |-> p, no |-> v]
ParamRequest(p)   == [kind |-> "request", param |-> p]

Total(f) == FoldFunction(LAMBDA a, b : a + b, 0, f)
Traffic  == Total(count) + Total(reports) + sets + asked

Command(t) ==
  /\ alive /\ Traffic < MaxTraffic
  /\ Arrive(t, NewCommand(t))
  /\ count' = [count EXCEPT ![t] = @ + 1]
  /\ UNCHANGED <<asked, sets, nodeVars, sendVars, talonVars, missed, silent,
                 alive>>

Configure(p) ==
  /\ alive /\ Traffic < MaxTraffic
  /\ Arrive(Configs, [param |-> p, no |-> sets + 1])
  /\ sets' = sets + 1
  /\ UNCHANGED <<count, asked, nodeVars, sendVars, talonVars, missed, silent,
                 alive>>

Ask(p) ==
  /\ alive /\ Traffic < MaxTraffic
  /\ Arrive(Asks, [param |-> p])
  /\ asked' = asked + 1
  /\ UNCHANGED <<count, sets, nodeVars, sendVars, talonVars, missed, silent,
                 alive>>

Connect ==
  /\ ~connected /\ connected' = TRUE
  /\ UNCHANGED <<rosVars, nodeVars, out, talonVars, missed, silent, alive>>

-----------------------------------------------------------------------------
(* The Talon, behind the bridge.                                           *)

TalonReports(i) ==
  /\ alive /\ Traffic < MaxTraffic
  /\ FrameArrives(StatusFrame(i))
  /\ reports' = [reports EXCEPT ![i] = @ + 1]
  /\ UNCHANGED <<count, asked, sets, nodeVars, sendVars, control, talonParam,
                 silent, alive>>

TalonObeys ==
  /\ out # <<>> /\ Head(out).kind = "control"
  /\ control' = Head(out).frame
  /\ out' = Tail(out)
  /\ UNCHANGED <<rosVars, nodeVars, connected, talonParam, reports, missed,
                 silent, alive>>

(* A parameter set or asked for is answered with its value.                *)
TalonAnswers ==
  /\ alive
  /\ out # <<>> /\ Head(out).kind \in {"set", "request"}
  /\ LET p == Head(out).param
         v == IF Head(out).kind = "set" THEN Head(out).no ELSE talonParam[p]
     IN /\ talonParam' = [talonParam EXCEPT ![p] = v]
        /\ FrameArrives(ParamFrame(p, v))
  /\ out' = Tail(out)
  /\ UNCHANGED <<count, asked, sets, nodeVars, connected, control, reports,
                 silent, alive>>

-----------------------------------------------------------------------------
(* The spinner: AsyncSpinner(1).                                           *)

NoWork   == [id |-> Asks, param |-> NoParam, no |-> 0]
Finishes == spc' = "idle" /\ sarg' = NoWork

Takes(t) ==
  /\ alive /\ spc = "idle"
  /\ callbacks # <<>> /\ Head(callbacks) = t /\ waiting[t] # <<>>
  /\ callbacks' = Tail(callbacks)
  /\ waiting' = [waiting EXCEPT ![t] = Tail(@)]

(* Bugs: the frame is built anew for each command; the mode is flushed     *)
(* before the demand is written.                                           *)
FilledAnew(frame, cmd) ==
  [f \in Field |-> IF f \in Writes[cmd.topic] THEN <<cmd.topic, cmd.no>> ELSE Nobody]
FilledModeFirst(frame, cmd) ==
  [f \in Field |-> IF f \in Writes[cmd.topic] \ {"Demand"}
                   THEN <<cmd.topic, cmd.no>> ELSE frame[f]]

(* The setters: GetTx, write the fields, FlushTx.                          *)
Filled(frame, cmd) ==
  [f \in Field |-> IF f \in Writes[cmd.topic] THEN <<cmd.topic, cmd.no>> ELSE frame[f]]

RunSetter(t) ==
  /\ Takes(t)
  /\ toSend' = Filled(toSend, Head(waiting[t]))
  /\ Publish(Control(toSend'))
  /\ UNCHANGED <<count, asked, sets, spinVars, storeVars, sigs, msgBuff,
                 mainVars, connected, talonVars, silent, alive>>

(* SetParam, SetParamRaw.                                                  *)
RunConfigure ==
  /\ Takes(Configs)
  /\ LET m == Head(waiting[Configs]) IN Publish(ParamSet(m.param, m.no))
  /\ UNCHANGED <<count, asked, sets, nodeVars, connected, talonVars, silent,
                 alive>>

(* A bug: a signal once saved is not overwritten.                          *)
ProcessOnce ==
  LET m == IF response.param = NoParam THEN msgBuff ELSE response
  IN /\ msgBuff' = m
     /\ sigs' = [p \in Param |-> IF p = m.param /\ sigs[p] = Unknown THEN m.no ELSE sigs[p]]

(* ProcessStreamMessages over readStreamSession: the last PARAM_RESPONSE,  *)
(* or, if there is none, whatever is in _msgBuff.                          *)
Process ==
  LET m == IF response.param = NoParam THEN msgBuff ELSE response
  IN /\ msgBuff' = m
     /\ sigs' = [p \in Param |-> IF p = m.param THEN m.no ELSE sigs[p]]

(* getParameter: RequestParam, and then the spinner sleeps for 40 ms.      *)
RunAsk ==
  /\ Takes(Asks)
  /\ Process
  /\ LET p == Head(waiting[Asks]).param
     IN /\ Publish(ParamRequest(p))
        /\ sarg' = [id |-> Asks, param |-> p, no |-> 0]
  /\ spc' = "asleep"
  /\ UNCHANGED <<count, asked, sets, storeVars, toSend, mainVars, connected,
                 talonVars, silent, alive>>

(* getParameter, awake again: GetParamResponse, which looks the parameter  *)
(* up in what it has just processed.                                       *)
Answer(p) == sigs[p]

AnswerAsk ==
  /\ alive /\ spc = "asleep"
  /\ Process
  /\ Finishes
  /\ UNCHANGED <<rosVars, storeVars, toSend, mainVars, sendVars, talonVars,
                 missed, silent, alive>>

(* CANRecvCallback: receivedCAN[msg->arbID] = data, one half at a time.    *)
RunReceive ==
  /\ Takes(Received)
  /\ sarg' = Head(waiting[Received])
  /\ spc' = "storing"
  /\ UNCHANGED <<count, asked, sets, storeVars, objVars, mainVars, sendVars,
                 talonVars, missed, silent, alive>>

StoreResponse ==
  /\ alive /\ spc = "storing" /\ sarg.id = Response
  /\ response' = sarg
  /\ Finishes
  /\ UNCHANGED <<rosVars, received, objVars, mainVars, sendVars, talonVars,
                 missed, silent, alive>>

(* A bug: insert() in place of operator[], which keeps what is there.      *)
StoreFirstInserts ==
  /\ alive /\ spc = "storing" /\ sarg.id # Response
  /\ received' = [received EXCEPT ![sarg.id][1] = IF @ = 0 THEN sarg.no ELSE @]
  /\ spc' = "stored half"
  /\ UNCHANGED <<rosVars, sarg, response, objVars, mainVars, sendVars,
                 talonVars, missed, silent, alive>>

StoreFirst ==
  /\ alive /\ spc = "storing" /\ sarg.id # Response
  /\ received' = [received EXCEPT ![sarg.id][1] = sarg.no]
  /\ spc' = "stored half"
  /\ UNCHANGED <<rosVars, sarg, response, objVars, mainVars, sendVars,
                 talonVars, missed, silent, alive>>

StoreSecond ==
  /\ alive /\ spc = "stored half"
  /\ received' = [received EXCEPT ![sarg.id][2] = sarg.no]
  /\ silent' = [silent EXCEPT ![sarg.id] = 0]
  /\ Finishes
  /\ UNCHANGED <<rosVars, response, objVars, mainVars, sendVars, talonVars,
                 missed, alive>>

-----------------------------------------------------------------------------
(* main(): its loop over the getters, each of which is a GetRx.            *)

Present(i) == received[i][1] # 0

(* operator[] is linking a new entry into the map, and its bytes are not   *)
(* there yet.                                                              *)
Inserting(i) == spc = "storing" /\ sarg.id = i /\ IF i = Response
                                                  THEN response.param = NoParam
                                                  ELSE ~Present(i)

Reading == Getters[getter]

(* A bug: the loop does not begin again.                                   *)
AfterUnwrapped == getter + 1

After == (getter % Len(Getters)) + 1

Return(i, first, second, err) ==
  /\ got' = [id |-> i, first |-> first, second |-> second, err |-> err]
  /\ getter' = After

(* receiveMessage finds the frame and begins to copy it.  An entry that is *)
(* being inserted has no bytes to copy yet, so that the caller's buffer    *)
(* keeps what it had on the stack, a 0 like everything that is no frame.   *)
FindFrame ==
  /\ alive /\ mpc = "find"
  /\ Present(Reading) \/ Inserting(Reading)
  /\ half' = received[Reading][1]
  /\ mpc' = "copy"
  /\ UNCHANGED <<rosVars, spinVars, storeVars, objVars, getter, events, got,
                 sendVars, talonVars, missed, silent, alive>>

CopyFrame ==
  /\ alive /\ mpc = "copy"
  /\ LET second == received[Reading][2]
     IN /\ Return(Reading, half, second, "CTR_OKAY")
        /\ events' = [events EXCEPT ![Reading] =
                        [known |-> TRUE, first |-> half, second |-> second, age |-> 0]]
  /\ half' = 0 /\ mpc' = "find"
  /\ UNCHANGED <<rosVars, spinVars, storeVars, objVars, sendVars, talonVars,
                 missed, silent, alive>>

(* A bug: the caller's buffer is zeroed whenever the lookup fails.         *)
MissFrameZeroes ==
  /\ alive /\ mpc = "find"
  /\ ~Present(Reading) \/ \E i \in StatusId \cup {Response} : Inserting(i)
  /\ Return(Reading, 0, 0, "CTR_RxTimeout")
  /\ UNCHANGED <<rosVars, spinVars, storeVars, objVars, mpc, half, events,
                 sendVars, talonVars, missed, silent, alive>>

(* receiveMessage finds nothing: no such frame yet, or a tree that another *)
(* insertion is just rebalancing.                                          *)
MissFrame ==
  /\ alive /\ mpc = "find"
  /\ ~Present(Reading) \/ \E i \in StatusId \cup {Response} : Inserting(i)
  /\ LET e == events[Reading]
     IN Return(Reading, e.first, e.second,
               IF e.known /\ e.age <= Stale THEN "CTR_OKAY" ELSE "CTR_RxTimeout")
  /\ UNCHANGED <<rosVars, spinVars, storeVars, objVars, mpc, half, events,
                 sendVars, talonVars, missed, silent, alive>>

(* The copy from an entry whose vector is still empty may fault.           *)
Fault ==
  /\ alive /\ mpc = "find" /\ Inserting(Reading)
  /\ alive' = FALSE
  /\ UNCHANGED <<rosVars, nodeVars, sendVars, talonVars, missed, silent>>

Older(n) == IF n > Stale THEN n ELSE n + 1

(* Time passes; the clock of GetRx, clock_gettime(2, ...), may stand still,*)
(* for it is the processor time of the process.                            *)
Tick ==
  /\ alive /\ mpc = "find"
  /\ silent' = [i \in StatusId |-> Older(silent[i])]
  /\ \/ UNCHANGED events
     \/ events' = [i \in StatusId |->
                     [events[i] EXCEPT !.age = IF events[i].known THEN Older(@) ELSE @]]
  /\ UNCHANGED <<rosVars, spinVars, storeVars, objVars, mpc, getter, half,
                 got, sendVars, talonVars, missed, alive>>

-----------------------------------------------------------------------------
(* main() before its loop: CanTalonSRX's constructor registers the control *)
(* frame and sets the limit switch override.                               *)

Blank    == [f \in Field |-> Nobody]
Defaults == [Blank EXCEPT !["OverrideLimitSwitchEn"] = Ctor]

Init ==
  /\ callbacks = <<>> /\ waiting = [t \in Queue |-> <<>>]
  /\ count = [t \in Topic |-> 0] /\ asked = 0 /\ sets = 0
  /\ spc = "idle" /\ sarg = NoWork
  /\ received = [i \in StatusId |-> <<0, 0>>]
  /\ response = ParamFrame(NoParam, 0)
  /\ toSend = Defaults
  /\ sigs = [p \in Param |-> Unknown]
  /\ msgBuff \in {ParamFrame(p, Junk) : p \in Param \cup {NoParam}}
  /\ mpc = "find" /\ getter = 1 /\ half = 0
  /\ events = [i \in StatusId |-> [known |-> FALSE, first |-> 0, second |-> 0, age |-> 0]]
  /\ got = [id |-> Getters[1], first |-> 0, second |-> 0, err |-> "CTR_RxTimeout"]
  /\ connected \in BOOLEAN
  /\ out = Sent(Sent(<<>>, Control(Blank)), Control(Defaults))
  /\ control = Blank /\ talonParam = [p \in Param |-> 0]
  /\ reports = [i \in StatusId |-> 0]
  /\ missed = {} /\ silent = [i \in StatusId |-> Stale + 1]
  /\ alive = TRUE

Publishers == \/ \E t \in Topic : Command(t)
              \/ \E p \in Param : Configure(p) \/ Ask(p)
Talon      == TalonObeys \/ TalonAnswers \/ \E i \in StatusId : TalonReports(i)
Spinner    == \/ \E t \in Topic : RunSetter(t)
              \/ RunConfigure \/ RunAsk \/ AnswerAsk
              \/ RunReceive \/ StoreResponse \/ StoreFirst \/ StoreSecond
Main       == FindFrame \/ CopyFrame \/ MissFrame

Next == Publishers \/ Connect \/ Talon \/ Spinner \/ Main \/ Fault \/ Tick

Spec     == Init /\ [][Next]_vars
FairSpec == Spec /\ WF_vars(Spinner) /\ WF_vars(Main)

-----------------------------------------------------------------------------
(* Types of all of the state above.                                        *)
Frame    == [Field -> {Nobody, Ctor} \cup (Topic \X Nat)]
Value    == Nat \cup {Unknown, Junk}
CanFrame == [id : StatusId, param : {NoParam}, no : Nat]
              \cup [id : {Response}, param : Param, no : Nat]
Packet   == [kind : {"control"}, frame : Frame]
              \cup [kind : {"set"}, param : Param, no : Nat]
              \cup [kind : {"request"}, param : Param]

Message(t) == CASE t \in Topic   -> [topic : {t}, no : Nat]
                [] t = Received  -> CanFrame
                [] t = Configs   -> [param : Param, no : Nat]
                [] t = Asks      -> [param : Param]

RosTypeOK == /\ callbacks \in Seq(Queue)
             /\ waiting = [t \in Queue |-> waiting[t]]
             /\ \A t \in Queue : waiting[t] \in Seq(Message(t))
             /\ count \in [Topic -> Nat] /\ asked \in Nat /\ sets \in Nat
             /\ connected \in BOOLEAN
             /\ out \in Seq(Packet)
             /\ missed \subseteq StatusId \cup {Response, Control1}

SpinnerTypeOK ==
  /\ CASE spc = "idle"        -> sarg = NoWork
       [] spc = "asleep"      -> sarg \in [id : {Asks}, param : Param, no : {0}]
       [] spc = "storing"     -> sarg \in CanFrame
       [] spc = "stored half" -> sarg \in CanFrame /\ sarg.id \in StatusId
       [] OTHER               -> FALSE
  /\ received \in [StatusId -> Nat \X Nat]
  /\ response \in [id : {Response}, param : Param \cup {NoParam}, no : Nat]
  /\ msgBuff \in [id : {Response}, param : Param \cup {NoParam}, no : Value]
  /\ toSend \in Frame /\ sigs \in [Param -> Value]

MainTypeOK ==
  /\ mpc \in {"find", "copy"} /\ getter \in 1..Len(Getters) /\ half \in Nat
  /\ events \in [StatusId -> [known : BOOLEAN, first : Nat, second : Nat,
                              age : 0..(Stale + 1)]]
  /\ got \in [id : StatusId, first : Nat, second : Nat,
              err : {"CTR_OKAY", "CTR_RxTimeout"}]
  /\ alive \in BOOLEAN /\ silent \in [StatusId -> 0..(Stale + 1)]

TalonTypeOK == /\ control \in Frame
               /\ talonParam \in [Param -> Nat] /\ reports \in [StatusId -> Nat]

ClientTypeOK == RosTypeOK /\ SpinnerTypeOK /\ MainTypeOK /\ TalonTypeOK

(* CanTalonSRX.cpp:1064 "atomically setting mode and demand": no control   *)
(* frame, wherever it is, holds the mode of one such command with the      *)
(* demand of another, or with no demand at all.                            *)
Together(frame) ==
  LET mode == frame["ModeSelect"]
      demand == frame["Demand"]
  IN mode[1] = "setModeSelectAndDemand" =>
       /\ demand # Nobody
       /\ demand[1] = mode[1] => demand = mode

NoHalfCommand ==
  /\ Together(control)
  /\ \A k \in DOMAIN out : out[k].kind = "control" => Together(out[k].frame)

(* Whatever the queues of the commands dropped, and although the frames    *)
(* sent before the bridge subscribed are lost: when nothing is under way   *)
(* and the Talon has had a control frame, each of its fields holds the last*)
(* command published on one of the topics that write it.  Only parameter   *)
(* frames that push the newest control frame out of the bridge's queue     *)
(* break that.                                                             *)
Quiet == /\ spc = "idle" /\ out = <<>>
         /\ \A t \in Topic : waiting[t] = <<>>

Latest(f) == {<<t, count[t]>> : t \in {u \in Topic : f \in Writes[u] /\ count[u] > 0}}

LastOfTopicWins ==
  Quiet /\ control # Blank /\ Control1 \notin missed =>
    \A f \in Field : IF Latest(f) = {} THEN control[f] = Defaults[f]
                                     ELSE control[f] \in Latest(f)

GetterReturns == CopyFrame \/ MissFrame

(* A getter never returns an older piece of a status frame than the last   *)
(* getter of that frame did, in spite of the unlocked map, dropped frames  *)
(* and lookups that miss.                                                  *)
StatusNeverOlder ==
  [][GetterReturns => LET e == events[got'.id]
                      IN got'.first >= e.first /\ got'.second >= e.second]_vars

(* If the process lives, the getters come to return the newest frame whole:*)
(* torn and missed reads heal, unless the subscription dropped that frame. *)
StatusFollows ==
  <>[](\A i \in StatusId : \/ i \in missed \/ ~alive
                           \/ events[i].first = reports[i] /\ events[i].second = reports[i])

(* getParameter returns what the Talon holds, provided that the newest     *)
(* response was not dropped, the one the client holds is for that          *)
(* parameter, and no set of it and no differing response is under way.     *)
Current(p) ==
  /\ response.param = p /\ Response \notin missed
  /\ \A k \in DOMAIN out : out[k].kind = "set" => out[k].param # p
  /\ \A f \in Range(waiting[Received]) : f.id = Response => f = response

SettledAnswer ==
  [][\A p \in Param : AnswerAsk /\ sarg.param = p /\ Current(p)
                       => Answer(p)' = talonParam[p]]_vars

(* ctre.h:42 "CAN frame has not been received within specified period of   *)
(* time": a getter that returns a whole frame and no such code returns one *)
(* received within EXPECTED_RESPONSE_TIMEOUT_MS.                           *)
OkayIsRecent ==
  [][GetterReturns /\ got'.err = "CTR_OKAY" /\ got'.first = got'.second /\ got'.first > 0
       => silent[got'.id] <= Stale]_vars
=============================================================================
