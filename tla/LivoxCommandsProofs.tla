------------------------ MODULE LivoxCommandsProofs -------------------------
(***************************************************************************)
(* Proofs about what the SDK does for the application.  LivoxCommands: as  *)
(* long as no number is used again while it is in use, callbacks are true and *)
(* settings are read back, for any program, lidar and faults.  LivoxLogger: *)
(* what log files hold, for any packets, repetitions and losses.           *)
(***************************************************************************)
EXTENDS LivoxCommands, LivoxLogger, FiniteSetTheorems, SequenceTheorems, TLAPS

-----------------------------------------------------------------------------
(* The control interface: its tables, its types, and what a callback and a *)
(* query tell, as long as no number is used again while it is in use.      *)

\* A function that writes a key is for the member, and the name, the key is
\* copied to; and no function writes a key of the lidar's state.
LEMMA TablesFit ==
  /\ \A p \in KeyTable, q \in ConfigFields :
       p[2] = q[1] => ConfigName(q[2]) \in Purpose(p[1])
  /\ \A p \in KeyTable, q \in StatusFields : p[2] # q[1]
BY SMTT(60)
   DEF KeyTable, ScanKeys, AddressKeys, FovKeys, ModeKeys, EnableKeys, BootKeys, ConfigFields,
       StatusFields, ConfigName, Purpose, PclImu

LEMMA CfgKeysFit ==
  ASSUME NEW k \in Mid360CfgKeys \cup HapCfgKeys
  PROVE  /\ \A q \in ConfigFields : k = q[1] => ConfigName(q[2]) \in Purpose("UpdateLidarCfg")
         /\ \A q \in StatusFields : k # q[1]
BY SMTT(60) DEF Mid360CfgKeys, HapCfgKeys, ConfigFields, StatusFields, ConfigName, Purpose, PclImu

LEMMA NamesOfWritten ==
  ASSUME NEW fn, NEW k \in Writes(fn)
  PROVE  NamesOf(k) \subseteq Purpose(fn)
<1>1. CASE fn = "UpdateLidarCfg"
  <2>1. k \in Mid360CfgKeys \cup HapCfgKeys
    BY <1>1 DEF Writes
  <2> QED BY <1>1, <2>1, CfgKeysFit DEF NamesOf
<1>2. CASE fn = PclImu
  <2>1. \E p \in KeyTable : p[1] = "EnableLivoxLidarImuData" /\ p[2] = k
    BY <1>2 DEF Writes, Dispatch, PclImu
  <2>2. Purpose(fn) = {"imu_data_en"} /\ Purpose("EnableLivoxLidarImuData") = {"imu_data_en"}
    BY <1>2 DEF Purpose, PclImu
  <2> QED BY <2>1, <2>2, TablesFit DEF NamesOf
<1>3. CASE fn # "UpdateLidarCfg" /\ fn # PclImu
  <2>1. \E p \in KeyTable : p[1] = fn /\ p[2] = k
    BY <1>3 DEF Writes, Dispatch
  <2> QED BY <2>1, TablesFit DEF NamesOf
<1> QED BY <1>1, <1>2, <1>3

\* What is told under a name is the value of a key of that name.
LEMMA ParsedFrom ==
  ASSUME NEW values, NEW n \in DOMAIN Parse(values)
  PROVE  \E k \in DOMAIN values : n \in NamesOf(k) /\ Parse(values)[n] = values[k]
<1> DEFINE names == [k \in DOMAIN values |-> NamesOf(k)]
           D == UNION {names[k] : k \in DOMAIN values}
<1>1. Parse(values) = [m \in D |-> values[CHOOSE k \in DOMAIN values : m \in names[k]]]
  BY DEF Parse
<1>2. n \in D
  BY <1>1
<1>3. \E k \in DOMAIN values : n \in names[k]
  BY <1>2
<1> DEFINE k == CHOOSE k \in DOMAIN values : n \in names[k]
<1>4. k \in DOMAIN values /\ n \in names[k]
  BY <1>3
<1>5. Parse(values)[n] = values[k]
  BY <1>1, <1>2
<1> QED BY <1>4, <1>5

-----------------------------------------------------------------------------
(* The inductive invariant                                                 *)

AppCall == [fn : STRING, parts : Seq(Int)]

Address == {a \in Seq(0..255) : Len(a) \in {0, 4}}

CallRecord ==
  [fn : STRING, value : Address, seq : 1..SeqMax, steps : Seq({"add", "send"}),
   after : SUBSET Nat]

UdpTypes ==
  \A d \in udp :
    \/ d.what = "request" /\ d.call \in DOMAIN calls
    \/ d.what = "answer" /\ d.seq \in 1..SeqMax /\ d.status \in {"ok", "refused"}

CallTypes ==
  /\ program \in Seq(AppCall)
  /\ calls \in Seq(CallRecord)
  /\ sdk \in BOOLEAN /\ found \in BOOLEAN /\ sessions \in 0..MaxSessions
  /\ lidarType \in {"Mid360", "HAP"}
  /\ lastSeq \in 1..SeqMax
  /\ pending \subseteq DOMAIN calls
  /\ results \in Seq(Seq({"ok", "refused", "timeout", "unsent"})) /\ Len(results) = Len(calls)
  /\ DOMAIN readings = DOMAIN calls
  /\ mishaps \in 0..MaxMishaps
  /\ obeyed \in Seq(DOMAIN calls)
  /\ UdpTypes

\* What a setting is, and what is told of it.
SettingIs(s) == s.by \in {0} \cup DOMAIN calls /\ s.value \in Address

KeyTypes == \A k \in DOMAIN settings : SettingIs(settings[k])

\* What a step of the program keeps of the calls and of what the lidar obeyed.
CallsStay ==
  /\ lidarType' = lidarType
  /\ Len(calls') \in Nat /\ Len(calls) <= Len(calls')
  /\ \A i \in DOMAIN calls :
       /\ i \in DOMAIN calls'
       /\ calls'[i].fn = calls[i].fn /\ calls'[i].value = calls[i].value
       /\ calls'[i].seq = calls[i].seq /\ calls'[i].after = calls[i].after
  /\ \A j \in DOMAIN obeyed : j \in DOMAIN obeyed' /\ obeyed'[j] = obeyed[j]

-----------------------------------------------------------------------------
(* The types                                                               *)

LEMMA ByteOf ==
  ASSUME NEW n \in 0..256
  PROVE  n % 256 \in 0..255
OBVIOUS

\* An address is four bytes, or none.
LEMMA AddressIs ==
  ASSUME NEW parts \in Seq(Int)
  PROVE  IpToU8(parts) \in Address
<1>1. CASE Len(parts) = 4 /\ \A j \in 1..4 : parts[j] \in 0..256
  <2> DEFINE a == [j \in 1..4 |-> parts[j] % 256]
  <2>1. a \in [1..4 -> 0..255]
    <3>1. ASSUME NEW j \in 1..4 PROVE parts[j] % 256 \in 0..255
      <4>1. parts[j] \in 0..256
        BY <1>1
      <4> QED BY <4>1, ByteOf
    <3> QED BY <3>1
  <2>2. IpToU8(parts) = a
    BY <1>1 DEF IpToU8
  <2> HIDE DEF a
  <2>3. a \in Seq(0..255)
    <3>1. \E n \in Nat : a \in [1..n -> 0..255]
      BY <2>1
    <3> QED BY <3>1, SeqDef
  <2>4. Len(a) = 4
    BY <2>1, <2>3, LenProperties
  <2> QED BY <2>2, <2>3, <2>4 DEF Address
<1>2. CASE ~(Len(parts) = 4 /\ \A j \in 1..4 : parts[j] \in 0..256)
  BY <1>2 DEF IpToU8, Address
<1> QED BY <1>1, <1>2

LEMMA NextSeqIs == CallTypes => NextSeq \in 1..SeqMax
BY CommandAssumption DEF CallTypes, NextSeq

\* A call that is added, and one whose next step is taken.
LEMMA CallAdded ==
  ASSUME CallTypes, NEW c \in CallRecord, calls' = Append(calls, c)
  PROVE  /\ calls' \in Seq(CallRecord) /\ Len(calls') = Len(calls) + 1
         /\ Len(calls) \in Nat /\ DOMAIN calls = 1..Len(calls) /\ DOMAIN calls' = 1..Len(calls')
         /\ \A i \in DOMAIN calls : calls'[i] = calls[i]
         /\ calls'[Len(calls')] = c
BY DEF CallTypes

LEMMA StepTaken ==
  ASSUME CallTypes, NEW i \in DOMAIN calls, NEW x, NextStep(i, x)
  PROVE  /\ calls' \in Seq(CallRecord) /\ Len(calls') = Len(calls) /\ DOMAIN calls' = DOMAIN calls
         /\ \A j \in DOMAIN calls : j # i => calls'[j] = calls[j]
         /\ calls[i].steps # <<>> /\ Head(calls[i].steps) = x
         /\ calls'[i] = [calls[i] EXCEPT !.steps = Tail(@)]
         /\ calls'[i].steps = Tail(calls[i].steps)
         /\ (lidarType' = lidarType /\ obeyed' = obeyed) => CallsStay
<1>1. calls \in Seq(CallRecord) /\ calls[i] \in CallRecord /\ calls[i].steps \in Seq({"add", "send"})
  <2>1. calls \in Seq(CallRecord) /\ calls[i] \in CallRecord
    BY DEF CallTypes
  <2> QED BY <2>1 DEF CallRecord
<1>2. calls[i].steps # <<>> /\ calls' = [calls EXCEPT ![i].steps = Tail(@)] /\ Head(calls[i].steps) = x
  BY DEF NextStep
<1>3. Tail(calls[i].steps) \in Seq({"add", "send"})
  BY <1>1, <1>2, HeadTailProperties
<1> DEFINE c == [calls[i] EXCEPT !.steps = Tail(@)]
<1>4. c \in CallRecord /\ c.steps = Tail(calls[i].steps)
  BY <1>1, <1>3 DEF CallRecord
<1>5. calls' = [calls EXCEPT ![i] = c]
  BY <1>2
<1> HIDE DEF c
<1>6. calls' \in Seq(CallRecord) /\ Len(calls') = Len(calls) /\ DOMAIN calls' = DOMAIN calls
      /\ \A j \in DOMAIN calls : calls'[j] = IF j = i THEN c ELSE calls[j]
  BY <1>1, <1>4, <1>5, ExceptSeq
<1>7. c.fn = calls[i].fn /\ c.value = calls[i].value /\ c.seq = calls[i].seq /\ c.after = calls[i].after
  BY <1>1 DEF c, CallRecord
<1>8. (lidarType' = lidarType /\ obeyed' = obeyed) => CallsStay
  BY <1>1, <1>6, <1>7 DEF CallsStay
<1> QED BY <1>1, <1>2, <1>4, <1>6, <1>8 DEF c

\* One more status for a call.
LEMMA CalledBack ==
  ASSUME CallTypes, NEW i \in DOMAIN calls, NEW status \in {"ok", "refused", "timeout", "unsent"},
         CallsBack(i, status)
  PROVE  /\ results' \in Seq(Seq({"ok", "refused", "timeout", "unsent"})) /\ Len(results') = Len(results)
         /\ \A j \in DOMAIN calls : j # i => results'[j] = results[j]
         /\ results'[i] = Append(results[i], status)
<1>1. results \in Seq(Seq({"ok", "refused", "timeout", "unsent"})) /\ i \in DOMAIN results
      /\ DOMAIN results = DOMAIN calls
  BY DEF CallTypes
<1>2. Append(results[i], status) \in Seq({"ok", "refused", "timeout", "unsent"})
  BY <1>1
<1>3. results' = [results EXCEPT ![i] = Append(results[i], status)]
  BY DEF CallsBack
<1> QED BY <1>1, <1>2, <1>3, ExceptSeq

LEMMA StepsAre ==
  ASSUME NEW fn
  PROVE  StepsOf(fn) \in Seq({"add", "send"})
<1>1. <<"add", "send">> \in Seq({"add", "send"})
  OBVIOUS
<1>2. <<"send", "add">> \in Seq({"add", "send"})
  OBVIOUS
<1>3. <<"add", "send", "add">> \in Seq({"add", "send"})
  OBVIOUS
<1>4. StepsOf(fn) \in {<<"add", "send">>, <<"send", "add">>, <<"add", "send", "add">>}
  BY Zenon DEF StepsOf
<1> QED BY <1>1, <1>2, <1>3, <1>4

\* Fewer datagrams, and more calls, keep the types of the datagrams.
LEMMA FewerDatagrams ==
  ASSUME UdpTypes, udp' \subseteq udp, DOMAIN calls \subseteq DOMAIN calls'
  PROVE  UdpTypes'
BY DEF UdpTypes

LEMMA CallKeepsTypes ==
  ASSUME CallTypes, Call
  PROVE  CallTypes' /\ CallsStay
<1> DEFINE call == Head(program)
           value == IF TakesAddress(call.fn) THEN IpToU8(call.parts) ELSE <<>>
           c == [fn |-> call.fn, value |-> value, seq |-> NextSeq, steps |-> StepsOf(call.fn),
                 after |-> {i \in DOMAIN calls : Said(i, "ok")}]
<1>1. /\ program # <<>> /\ program' = Tail(program) /\ sdk /\ found
      /\ calls' = Append(calls, c) /\ lastSeq' = NextSeq
      /\ results' = Append(results, <<>>) /\ readings' = Append(readings, <<>>)
      /\ UNCHANGED <<sdk, sessions, lidarType, found, pending, udp, settings, obeyed, reported, mishaps>>
  BY DEF Call, NextCall, session, keyVars
<1>2. program' \in Seq(AppCall) /\ call.fn \in STRING /\ call.parts \in Seq(Int)
  <2>1. program' \in Seq(AppCall) /\ call \in AppCall
    BY <1>1, HeadTailProperties DEF CallTypes
  <2> QED BY <2>1 DEF AppCall
<1>3. value \in Address
  BY <1>2, AddressIs DEF Address
<1>4. StepsOf(call.fn) \in Seq({"add", "send"})
  BY StepsAre
<1>5. c \in CallRecord
  BY <1>2, <1>3, <1>4, NextSeqIs DEF CallRecord, CallTypes
<1> HIDE DEF c
<1>6. /\ calls' \in Seq(CallRecord) /\ Len(calls') = Len(calls) + 1
      /\ Len(calls) \in Nat /\ DOMAIN calls = 1..Len(calls) /\ DOMAIN calls' = 1..Len(calls')
      /\ \A i \in DOMAIN calls : calls'[i] = calls[i]
  BY <1>1, <1>5, CallAdded
<1>7. results' \in Seq(Seq({"ok", "refused", "timeout", "unsent"})) /\ Len(results') = Len(calls')
  BY <1>1, <1>6 DEF CallTypes
<1>8. DOMAIN readings' = DOMAIN calls'
  BY <1>1, <1>6 DEF CallTypes
<1>9. DOMAIN calls \subseteq DOMAIN calls'
  BY <1>6
<1>10. obeyed' \in Seq(DOMAIN calls')
  BY <1>1, <1>9, SeqMonotonic DEF CallTypes
<1>11. UdpTypes'
  BY <1>1, <1>9, FewerDatagrams DEF CallTypes
<1> QED
  BY <1>1, <1>2, <1>6, <1>7, <1>8, <1>9, <1>10, <1>11, NextSeqIs DEF CallTypes, CallsStay

LEMMA CallRefusedKeepsTypes ==
  ASSUME CallTypes, CallRefused
  PROVE  CallTypes' /\ CallsStay
<1>1. /\ program # <<>> /\ program' = Tail(program) /\ lastSeq' \in {lastSeq, NextSeq}
      /\ UNCHANGED <<sdk, sessions, lidarType, found, calls, pending, results, readings, udp, settings,
                     obeyed, reported, mishaps>>
  BY DEF CallRefused, NextCall, session, keyVars
<1>2. program' \in Seq(AppCall)
  BY <1>1, HeadTailProperties DEF CallTypes
<1>3. UdpTypes'
  BY <1>1, FewerDatagrams DEF CallTypes
<1> QED BY <1>1, <1>2, <1>3, NextSeqIs DEF CallTypes, CallsStay

LEMMA SessionKeepsTypes ==
  ASSUME CallTypes, SdkInit \/ SdkUninit \/ DetectLidar \/ HandlePush
  PROVE  CallTypes' /\ CallsStay /\ udp' \subseteq udp
<1>1. CASE SdkInit
  <2>1. udp' \subseteq udp /\ UNCHANGED calls
    BY <1>1 DEF SdkInit
  <2>2. UdpTypes'
    BY <2>1, FewerDatagrams DEF CallTypes
  <2> QED BY <1>1, <2>1, <2>2, CommandAssumption DEF SdkInit, keyVars, CallTypes, CallsStay
<1>2. CASE SdkUninit
  <2>1. udp' \subseteq udp /\ UNCHANGED calls
    BY <1>2 DEF SdkUninit
  <2>2. UdpTypes'
    BY <2>1, FewerDatagrams DEF CallTypes
  <2>3. /\ sdk' = FALSE /\ found' = FALSE
        /\ UNCHANGED <<program, sessions, lidarType, lastSeq, calls, pending, results, readings, settings,
                       obeyed, reported, mishaps>>
    BY <1>2 DEF SdkUninit, keyVars
  <2>4. CallsStay
    BY <2>1, <2>3 DEF CallsStay, CallTypes
  <2>5. sdk' \in BOOLEAN /\ found' \in BOOLEAN
    BY <2>3
  <2> QED BY <2>1, <2>2, <2>3, <2>4, <2>5 DEF CallTypes
<1>3. CASE DetectLidar
  <2>1. udp' \subseteq udp /\ UNCHANGED calls
    BY <1>3 DEF DetectLidar
  <2>2. UdpTypes'
    BY <2>1, FewerDatagrams DEF CallTypes
  <2> QED BY <1>3, <2>1, <2>2 DEF DetectLidar, keyVars, CallTypes, CallsStay
<1>4. CASE HandlePush
  <2>1. udp' \subseteq udp /\ UNCHANGED calls
    BY <1>4 DEF HandlePush
  <2>2. UdpTypes'
    BY <2>1, FewerDatagrams DEF CallTypes
  <2> QED BY <1>4, <2>1, <2>2 DEF HandlePush, session, CallTypes, CallsStay
<1> QED BY <1>1, <1>2, <1>3, <1>4

LEMMA MishapIs == CallTypes /\ Mishap => mishaps' \in 0..MaxMishaps
BY CommandAssumption DEF CallTypes, Mishap

LEMMA SendKeepsTypes ==
  ASSUME CallTypes, NEW i \in DOMAIN calls, SendRequest(i)
  PROVE  CallTypes' /\ CallsStay
<1>1. /\ NextStep(i, "send")
      /\ UNCHANGED <<program, sdk, sessions, lidarType, found, lastSeq, pending, readings, settings,
                     obeyed, reported>>
  BY DEF SendRequest, session, keyVars
<1>2. /\ calls' \in Seq(CallRecord) /\ Len(calls') = Len(calls) /\ DOMAIN calls' = DOMAIN calls
      /\ CallsStay
  BY <1>1, StepTaken
<1>3. CASE udp' = udp \cup {[what |-> "request", call |-> i]} /\ UNCHANGED <<results, mishaps>>
  <2>1. UdpTypes'
    BY <1>2, <1>3 DEF UdpTypes, CallTypes
  <2> QED BY <1>1, <1>2, <1>3, <2>1 DEF CallTypes
<1>4. CASE CallsBack(i, "unsent") /\ Mishap /\ UNCHANGED udp
  <2>1. UdpTypes'
    BY <1>2, <1>4, FewerDatagrams DEF CallTypes
  <2>2. /\ results' \in Seq(Seq({"ok", "refused", "timeout", "unsent"})) /\ Len(results') = Len(results)
        /\ mishaps' \in 0..MaxMishaps
    BY <1>4, CalledBack, MishapIs
  <2> QED BY <1>1, <1>2, <2>1, <2>2 DEF CallTypes
<1> QED BY <1>3, <1>4 DEF SendRequest

LEMMA RegisterKeepsTypes ==
  ASSUME CallTypes, NEW i \in DOMAIN calls, Register(i)
  PROVE  CallTypes' /\ CallsStay
<1>1. /\ NextStep(i, "add")
      /\ pending' = {j \in pending : calls[j].seq # calls[i].seq} \cup {i}
      /\ UNCHANGED <<program, sdk, sessions, lidarType, found, lastSeq, results, readings, udp, settings,
                     obeyed, reported, mishaps>>
  BY DEF Register, session, keyVars
<1>2. /\ calls' \in Seq(CallRecord) /\ Len(calls') = Len(calls) /\ DOMAIN calls' = DOMAIN calls
      /\ CallsStay
  BY <1>1, StepTaken
<1>3. UdpTypes'
  BY <1>1, <1>2, FewerDatagrams DEF CallTypes
<1>4. pending' \subseteq DOMAIN calls'
  BY <1>1, <1>2 DEF CallTypes
<1> QED BY <1>1, <1>2, <1>3, <1>4 DEF CallTypes

LEMMA AckKeepsTypes ==
  ASSUME CallTypes, HandleAck \/ CommandTimesOut
  PROVE  CallTypes' /\ CallsStay /\ udp' \subseteq udp
<1>1. UNCHANGED <<program, sdk, sessions, lidarType, found, lastSeq, calls, settings, obeyed, reported, mishaps>>
      /\ CallsStay /\ udp' \subseteq udp
  BY DEF HandleAck, CommandTimesOut, session, keyVars, CallsStay, CallTypes
<1>0. UdpTypes'
  BY <1>1, FewerDatagrams DEF CallTypes
<1>2. CASE HandleAck
  <2>1. PICK d \in udp :
          /\ d.what = "answer" /\ udp' = udp \ {d}
          /\ \/ UNCHANGED <<pending, results, readings>>
             \/ \E i \in pending :
                  /\ pending' = pending \ {i} /\ CallsBack(i, d.status)
                  /\ readings' = [readings EXCEPT ![i] = d.values]
    BY <1>2 DEF HandleAck
  <2>2. CASE UNCHANGED <<pending, results, readings>>
    BY <1>1, <1>0, <2>2 DEF CallTypes
  <2>3. ASSUME NEW i \in pending, pending' = pending \ {i}, CallsBack(i, d.status),
               readings' = [readings EXCEPT ![i] = d.values]
        PROVE  CallTypes'
    <3>1. i \in DOMAIN calls /\ d.status \in {"ok", "refused", "timeout", "unsent"}
      BY <2>1 DEF CallTypes, UdpTypes
    <3>2. results' \in Seq(Seq({"ok", "refused", "timeout", "unsent"})) /\ Len(results') = Len(results)
      BY <2>3, <3>1, CalledBack
    <3> QED BY <1>1, <1>0, <2>3, <3>1, <3>2 DEF CallTypes
  <2> QED BY <1>1, <2>1, <2>2, <2>3
<1>3. CASE CommandTimesOut
  <2>1. PICK i \in pending : pending' = pending \ {i} /\ CallsBack(i, "timeout")
    BY <1>3 DEF CommandTimesOut
  <2>2. UNCHANGED <<readings, udp>> /\ i \in DOMAIN calls
    BY <1>3 DEF CommandTimesOut, CallTypes
  <2>3. results' \in Seq(Seq({"ok", "refused", "timeout", "unsent"})) /\ Len(results') = Len(results)
    BY <2>1, <2>2, CalledBack
  <2> QED BY <1>1, <1>0, <2>1, <2>2, <2>3 DEF CallTypes
<1> QED BY <1>1, <1>2, <1>3

\* The keys after the lidar took the request of call i, and its answer.
NewSettings(i, obeys) ==
  [k \in DOMAIN settings |-> IF obeys /\ k \in Writes(calls[i].fn)
                             THEN [by |-> i, value |-> calls[i].value] ELSE settings[k]]

AnswerTo(i, obeys) ==
  [what |-> "answer", seq |-> calls[i].seq, status |-> IF obeys THEN "ok" ELSE "refused",
   values |-> IF obeys
              THEN [k \in DOMAIN settings \cap Asks(calls[i].fn) |-> NewSettings(i, obeys)[k]]
              ELSE <<>>]

LEMMA ObeyStep ==
  ASSUME LidarObeys
  PROVE  \E d \in udp, obeys \in BOOLEAN :
    /\ d.what = "request"
    /\ settings' = NewSettings(d.call, obeys)
    /\ obeyed' = IF obeys THEN Append(obeyed, d.call) ELSE obeyed
    /\ udp' = (udp \ {d}) \cup {AnswerTo(d.call, obeys)}
    /\ (mishaps' = mishaps \/ Mishap)
<1>1. PICK d \in udp, obeys \in BOOLEAN :
    /\ d.what = "request"
    /\ settings' = NewSettings(d.call, obeys)
    /\ obeyed' = IF obeys THEN Append(obeyed, d.call) ELSE obeyed
    /\ udp' = (udp \ {d}) \cup {AnswerTo(d.call, obeys)}
    /\ IF obeys THEN UNCHANGED mishaps ELSE Mishap
  BY Zenon DEF LidarObeys, NewSettings, AnswerTo
<1>2. mishaps' = mishaps \/ Mishap
  BY <1>1
<1> QED BY <1>1, <1>2, Zenon

LEMMA ObeysKeepsTypes ==
  ASSUME CallTypes, LidarObeys
  PROVE  CallTypes' /\ CallsStay
<1>1. PICK d \in udp, obeys \in BOOLEAN :
    /\ d.what = "request"
    /\ obeyed' = IF obeys THEN Append(obeyed, d.call) ELSE obeyed
    /\ udp' = (udp \ {d}) \cup {AnswerTo(d.call, obeys)}
    /\ (mishaps' = mishaps \/ Mishap)
  BY ObeyStep, Zenon
<1> DEFINE i == d.call
<1>2. UNCHANGED <<program, sdk, sessions, lidarType, found, lastSeq, calls, pending, results, readings,
                  reported>>
  BY DEF LidarObeys, session
<1>3. i \in DOMAIN calls
  BY <1>1 DEF CallTypes, UdpTypes
<1>4. calls[i].seq \in 1..SeqMax
  <2>1. calls[i] \in CallRecord
    BY <1>3 DEF CallTypes
  <2> QED BY <2>1 DEF CallRecord
<1>5. AnswerTo(i, obeys).what = "answer" /\ AnswerTo(i, obeys).seq = calls[i].seq
      /\ AnswerTo(i, obeys).status \in {"ok", "refused"}
  BY DEF AnswerTo
<1>6. UdpTypes'
  BY <1>1, <1>2, <1>4, <1>5 DEF CallTypes, UdpTypes
<1>7. obeyed' \in Seq(DOMAIN calls) /\ \A j \in DOMAIN obeyed : j \in DOMAIN obeyed' /\ obeyed'[j] = obeyed[j]
  <2>1. obeyed \in Seq(DOMAIN calls)
    BY DEF CallTypes
  <2>2. CASE obeyed' = obeyed
    BY <2>1, <2>2
  <2>3. CASE obeyed' = Append(obeyed, i)
    BY <2>1, <2>3, <1>3
  <2> QED BY <1>1, <2>2, <2>3
<1>8. mishaps' \in 0..MaxMishaps
  BY <1>1, MishapIs DEF CallTypes
<1> QED BY <1>2, <1>6, <1>7, <1>8 DEF CallTypes, CallsStay

LEMMA LosesKeepsTypes ==
  ASSUME CallTypes, UdpLoses
  PROVE  CallTypes' /\ CallsStay /\ udp' \subseteq udp
<1>1. PICK d \in udp : udp' = udp \ {d}
  BY DEF UdpLoses
<1>2. mishaps' \in 0..MaxMishaps
  BY MishapIs DEF UdpLoses
<1>3. UNCHANGED <<program, sdk, sessions, lidarType, found, lastSeq, calls, pending, results, readings,
                  settings, obeyed, reported>>
  BY DEF UdpLoses, session, keyVars
<1>4. UdpTypes'
  BY <1>1, <1>3, FewerDatagrams DEF CallTypes
<1> QED BY <1>1, <1>2, <1>3, <1>4 DEF CallTypes, CallsStay

\* Every step keeps the types, and the calls and what the lidar obeyed.
LEMMA StepKeepsTypes ==
  ASSUME CallTypes, CommandNext
  PROVE  CallTypes' /\ CallsStay
BY CallKeepsTypes, CallRefusedKeepsTypes, SessionKeepsTypes, SendKeepsTypes, RegisterKeepsTypes,
   AckKeepsTypes, ObeysKeepsTypes, LosesKeepsTypes
   DEF CommandNext, CallStep

LEMMA StutterKeepsTypes ==
  ASSUME CallTypes, UNCHANGED commandVars
  PROVE  CallTypes' /\ CallsStay
<1>1. UNCHANGED <<program, sdk, sessions, lidarType, found, lastSeq, calls, pending, results, readings, udp,
                  settings, obeyed, reported, mishaps>>
  BY DEF commandVars, session, keyVars
<1>2. UdpTypes'
  BY <1>1, FewerDatagrams DEF CallTypes
<1> QED BY <1>1, <1>2 DEF CallTypes, CallsStay

LEMMA InitHasTypes == CommandInit => CallTypes /\ KeyTypes
<1> SUFFICES ASSUME CommandInit PROVE CallTypes /\ KeyTypes
  OBVIOUS
<1>1. PICK p \in Programs : program = p.calls /\ lidarType = p.type
  BY DEF CommandInit
<1>2. program \in Seq(AppCall) /\ lidarType \in {"Mid360", "HAP"}
  BY <1>1, CommandAssumption DEF AppCall
<1>3. /\ sdk = FALSE /\ sessions = 0 /\ found = FALSE
      /\ lastSeq = 1 /\ calls = <<>> /\ pending = {} /\ results = <<>> /\ readings = <<>>
      /\ udp = {} /\ settings = [k \in KeysOf(program) |-> Factory] /\ obeyed = <<>>
      /\ reported = <<>> /\ mishaps = 0
  BY DEF CommandInit
<1>4. KeyTypes
  <2>1. DOMAIN settings = KeysOf(program)
        /\ \A k \in KeysOf(program) : settings[k].by = 0 /\ settings[k].value = <<>>
    BY <1>3 DEF Factory
  <2>2. <<>> \in Address
    BY DEF Address
  <2> QED BY <2>1, <2>2 DEF KeyTypes, SettingIs
<1>5. UdpTypes
  BY <1>3 DEF UdpTypes
<1>6. sdk \in BOOLEAN /\ found \in BOOLEAN /\ sessions \in 0..MaxSessions
      /\ lastSeq \in 1..SeqMax /\ mishaps \in 0..MaxMishaps
  <2>1. SeqMax \in Nat \ {0} /\ MaxSessions \in Nat /\ MaxMishaps \in Nat
    BY CommandAssumption
  <2>2. sdk \in BOOLEAN /\ found \in BOOLEAN
    BY <1>3
  <2> QED BY <1>3, <2>1, <2>2
<1>7. calls \in Seq(CallRecord) /\ pending \subseteq DOMAIN calls
      /\ results \in Seq(Seq({"ok", "refused", "timeout", "unsent"})) /\ Len(results) = Len(calls)
      /\ DOMAIN readings = DOMAIN calls
  BY <1>3
<1>8. obeyed \in Seq(DOMAIN calls)
  BY <1>3
<1> QED BY <1>2, <1>4, <1>5, <1>6, <1>7, <1>8 DEF CallTypes

\* Only the lidar changes its keys, and to the value of the call it obeys.
LEMMA StepKeepsKeys ==
  ASSUME CallTypes, KeyTypes, CommandNext \/ UNCHANGED commandVars, CallsStay, CallTypes'
  PROVE  KeyTypes'
<1>1. CASE UNCHANGED settings
  BY <1>1 DEF KeyTypes, SettingIs, CallsStay
<1>2. CASE LidarObeys
  <2>1. PICK d \in udp, obeys \in BOOLEAN : d.what = "request" /\ settings' = NewSettings(d.call, obeys)
    BY <1>2, ObeyStep, Zenon
  <2>2. d.call \in DOMAIN calls
    BY <2>1 DEF CallTypes, UdpTypes
  <2>3. calls[d.call].value \in Address
    <3>1. calls[d.call] \in CallRecord
      BY <2>2 DEF CallTypes
    <3> QED BY <3>1 DEF CallRecord
  <2>4. ASSUME NEW k \in DOMAIN settings PROVE SettingIs(settings[k])'
    <3>1. settings'[k] = IF obeys /\ k \in Writes(calls[d.call].fn)
                         THEN [by |-> d.call, value |-> calls[d.call].value] ELSE settings[k]
      BY <2>1 DEF NewSettings
    <3>2. SettingIs(settings[k]) /\ UNCHANGED calls
      BY <1>2 DEF KeyTypes, LidarObeys
    <3> QED BY <3>1, <3>2, <2>2, <2>3 DEF SettingIs
  <2>5. DOMAIN settings' = DOMAIN settings
    BY <2>1 DEF NewSettings
  <2> QED BY <2>4, <2>5 DEF KeyTypes
<1>3. UNCHANGED settings \/ LidarObeys
  BY DEF CommandNext, CallStep, SdkInit, SdkUninit, DetectLidar, Call, CallRefused, SendRequest, Register,
         HandleAck, CommandTimesOut, HandlePush, UdpLoses, commandVars, keyVars
<1> QED BY <1>1, <1>2, <1>3

\* The types hold, whatever numbers the calls get (CommandTypeOK).
LEMMA TypesMean == CallTypes /\ KeyTypes => CommandTypeOK
<1> SUFFICES ASSUME CallTypes, KeyTypes PROVE CommandTypeOK
  OBVIOUS
<1>1. \A i \in DOMAIN calls : calls[i].seq \in 1..SeqMax
  <2> TAKE i \in DOMAIN calls
  <2>1. calls[i] \in CallRecord
    BY DEF CallTypes
  <2> QED BY <2>1 DEF CallRecord
<1>2. \A k \in DOMAIN settings :
        settings[k].by \in {0} \cup DOMAIN calls /\ Len(settings[k].value) \in {0, 4}
  BY DEF KeyTypes, SettingIs, Address
<1>3. DOMAIN results = DOMAIN calls
  BY DEF CallTypes
<1> QED BY <1>1, <1>2, <1>3 DEF CallTypes, CommandTypeOK

\* Calls, answers, numbers and settings keep their types, whatever is called,
\* lost, late or refused.
THEOREM CommandTypes == CommandSpec => []CommandTypeOK
<1>1. CommandInit => CallTypes /\ KeyTypes
  BY InitHasTypes
<1>2. (CallTypes /\ KeyTypes) /\ [CommandNext]_commandVars => (CallTypes /\ KeyTypes)'
  BY StepKeepsTypes, StutterKeepsTypes, StepKeepsKeys
<1>3. CallTypes /\ KeyTypes => CommandTypeOK
  BY TypesMean
<1> QED BY <1>1, <1>2, <1>3, PTL DEF CommandSpec

-----------------------------------------------------------------------------
(* The invariant of the numbers: a call uses its number until its thread   *)
(* is done, nothing waits for its answer and the lidar has no request of   *)
(* it.  As long as no other call gets the number in the meantime, an       *)
(* answer that finds a call is the answer to that call.                    *)

WasObeyed(i) == \E j \in DOMAIN obeyed : obeyed[j] = i

\* Call b was obeyed when call i had been, or is call i.
ReadBack(i, b) == \E m, n \in DOMAIN obeyed : m <= n /\ obeyed[m] = i /\ obeyed[n] = b

ReadsLatest(q, values) ==
  \A k \in DOMAIN values, i \in calls[q].after :
    k \in Writes(calls[i].fn) => ReadBack(i, values[k].by)

InUse(i) ==
  \/ calls[i].steps # <<>>
  \/ i \in pending
  \/ \E d \in udp : d.what = "request" /\ d.call = i

UniqueNumber ==
  \A i, j \in DOMAIN calls : InUse(i) /\ InUse(j) /\ calls[i].seq = calls[j].seq => i = j

AnswersTrue ==
  \A d \in udp, q \in DOMAIN calls :
    d.what = "answer" /\ InUse(q) /\ calls[q].seq = d.seq =>
      (d.status = "ok" => WasObeyed(q)) /\ ReadsLatest(q, d.values)

SaidTrue == \A i \in DOMAIN calls : Said(i, "ok") => WasObeyed(i)

AfterObeyed == \A q \in DOMAIN calls : \A i \in calls[q].after : i \in DOMAIN calls /\ WasObeyed(i)

SettingsLatest ==
  \A k \in DOMAIN settings, i \in DOMAIN calls :
    WasObeyed(i) /\ k \in Writes(calls[i].fn) => ReadBack(i, settings[k].by)

ReadingsLatest == \A q \in DOMAIN calls : ReadsLatest(q, readings[q])

SettingsFit ==
  \A k \in DOMAIN settings :
    settings[k].by # 0 => /\ k \in Writes(calls[settings[k].by].fn)
                          /\ settings[k].value = calls[settings[k].by].value

ReportedFits ==
  \A n \in DOMAIN reported :
    reported[n].by # 0 => /\ reported[n].by \in DOMAIN calls
                          /\ n \in Purpose(calls[reported[n].by].fn)
                          /\ reported[n].value = calls[reported[n].by].value

\* A call that is added gets a number that no call uses and no answer carries.
NoReuse ==
  \A n \in DOMAIN calls' \ DOMAIN calls :
    /\ \A i \in DOMAIN calls : InUse(i) => calls[i].seq # calls'[n].seq
    /\ \A d \in udp : d.what = "answer" => d.seq # calls'[n].seq

Types == CallTypes /\ KeyTypes
AnyStep == CommandNext \/ UNCHANGED commandVars

\* What was obeyed stays obeyed, in its order.
LEMMA ObeyedStays ==
  ASSUME CallTypes, CallsStay, NEW i
  PROVE  /\ WasObeyed(i) => WasObeyed(i)'
         /\ \A b : ReadBack(i, b) => ReadBack(i, b)'
BY DEF CallsStay, WasObeyed, ReadBack

LEMMA LatestStays ==
  ASSUME CallTypes, CallsStay, AfterObeyed, NEW q \in DOMAIN calls, NEW values, ReadsLatest(q, values)
  PROVE  ReadsLatest(q, values)'
<1>1. calls'[q].after = calls[q].after
  BY DEF CallsStay
<1>2. ASSUME NEW k \in DOMAIN values, NEW i \in calls[q].after, k \in Writes(calls[i].fn)'
      PROVE  ReadBack(i, values[k].by)'
  <2>1. i \in DOMAIN calls
    BY DEF AfterObeyed
  <2>2. calls'[i].fn = calls[i].fn
    BY <2>1 DEF CallsStay
  <2>3. k \in Writes(calls[i].fn)
    BY <1>2, <2>2 DEF Writes, CallsStay
  <2>4. ReadBack(i, values[k].by)
    BY <2>3 DEF ReadsLatest
  <2> QED BY <2>4, ObeyedStays
<1> QED BY <1>1, <1>2 DEF ReadsLatest

\* Only a new call takes a number into use, and only the lidar sends an answer.
LEMMA UseShrinks ==
  ASSUME CallTypes, AnyStep, ~Call
  PROVE  DOMAIN calls' = DOMAIN calls /\ \A i \in DOMAIN calls : InUse(i)' => InUse(i)
<1>1. CASE UNCHANGED calls /\ pending' \subseteq pending /\ \A d \in udp' : d \in udp \/ d.what # "request"
  BY <1>1 DEF InUse
<1>2. ASSUME NEW i \in DOMAIN calls, SendRequest(i)
      PROVE  DOMAIN calls' = DOMAIN calls /\ \A j \in DOMAIN calls : InUse(j)' => InUse(j)
  <2>1. NextStep(i, "send") /\ pending' = pending
        /\ (udp' = udp \cup {[what |-> "request", call |-> i]} \/ udp' = udp)
    BY <1>2 DEF SendRequest
  <2>2. DOMAIN calls' = DOMAIN calls /\ calls[i].steps # <<>>
        /\ \A j \in DOMAIN calls : j # i => calls'[j] = calls[j]
    BY <2>1, StepTaken
  <2>3. ASSUME NEW j \in DOMAIN calls, InUse(j)' PROVE InUse(j)
    <3>1. CASE j = i
      BY <2>2, <3>1 DEF InUse
    <3>2. CASE j # i
      BY <2>1, <2>2, <2>3, <3>2 DEF InUse
    <3> QED BY <3>1, <3>2
  <2> QED BY <2>2, <2>3
<1>3. ASSUME NEW i \in DOMAIN calls, Register(i)
      PROVE  DOMAIN calls' = DOMAIN calls /\ \A j \in DOMAIN calls : InUse(j)' => InUse(j)
  <2>1. NextStep(i, "add") /\ pending' \subseteq pending \cup {i} /\ udp' = udp
    BY <1>3 DEF Register
  <2> QED BY <2>1, StepTaken DEF InUse
<1>4. CASE LidarObeys
  <2>1. PICK d \in udp, obeys \in BOOLEAN : udp' = (udp \ {d}) \cup {AnswerTo(d.call, obeys)}
    BY <1>4, ObeyStep, Zenon
  <2>2. AnswerTo(d.call, obeys).what = "answer"
    BY DEF AnswerTo
  <2>3. UNCHANGED <<calls, pending>>
    BY <1>4 DEF LidarObeys
  <2> QED BY <1>1, <2>1, <2>2, <2>3
<1>5. CASE SdkInit \/ SdkUninit \/ DetectLidar \/ CallRefused \/ HandleAck \/ CommandTimesOut \/ HandlePush
           \/ UdpLoses \/ UNCHANGED commandVars
  <2>1. UNCHANGED calls /\ pending' \subseteq pending /\ udp' \subseteq udp
    BY <1>5 DEF SdkInit, SdkUninit, DetectLidar, CallRefused, HandleAck, CommandTimesOut, HandlePush, UdpLoses,
       commandVars
  <2> QED BY <1>1, <2>1
<1> QED BY <1>2, <1>3, <1>4, <1>5 DEF AnyStep, CommandNext, CallStep

LEMMA AnswersShrink ==
  ASSUME CallTypes, AnyStep, ~LidarObeys
  PROVE  \A d \in udp' : d.what = "answer" => d \in udp
<1>1. CASE \E i \in DOMAIN calls : SendRequest(i)
  BY <1>1 DEF SendRequest
<1>2. CASE ~\E i \in DOMAIN calls : SendRequest(i)
  <2>1. udp' \subseteq udp
    BY <1>2 DEF AnyStep, CommandNext, CallStep, SdkInit, SdkUninit, DetectLidar, Call, CallRefused, Register,
       HandleAck, CommandTimesOut, HandlePush, UdpLoses, commandVars
  <2> QED BY <2>1
<1> QED BY <1>1, <1>2

\* What a new call is: in use, with a number of its own; it says nothing yet.
LEMMA CallIs ==
  ASSUME CallTypes, Call
  PROVE  /\ DOMAIN calls' = DOMAIN calls \cup {Len(calls) + 1} /\ Len(calls) + 1 \notin DOMAIN calls
         /\ \A i \in DOMAIN calls : calls'[i] = calls[i] /\ results'[i] = results[i]
                                    /\ readings'[i] = readings[i]
         /\ calls'[Len(calls) + 1].after = {i \in DOMAIN calls : Said(i, "ok")}
         /\ calls'[Len(calls) + 1].steps = StepsOf(Head(program).fn)
         /\ calls'[Len(calls) + 1].seq = NextSeq
         /\ results'[Len(calls) + 1] = <<>> /\ readings'[Len(calls) + 1] = <<>>
         /\ UNCHANGED <<lidarType, pending, udp, settings, obeyed, reported>>
<1> DEFINE call == Head(program)
           value == IF TakesAddress(call.fn) THEN IpToU8(call.parts) ELSE <<>>
           c == [fn |-> call.fn, value |-> value, seq |-> NextSeq, steps |-> StepsOf(call.fn),
                 after |-> {i \in DOMAIN calls : Said(i, "ok")}]
<1>1. /\ calls' = Append(calls, c) /\ results' = Append(results, <<>>) /\ readings' = Append(readings, <<>>)
      /\ UNCHANGED <<lidarType, pending, udp, settings, obeyed, reported>>
  BY DEF Call, session, keyVars
<1>2. c.after = {i \in DOMAIN calls : Said(i, "ok")} /\ c.seq = NextSeq /\ c.steps = StepsOf(call.fn)
  OBVIOUS
<1> HIDE DEF c
<1>3. calls \in Seq(CallRecord) /\ Len(results) = Len(calls) /\ DOMAIN readings = 1..Len(calls)
      /\ results \in Seq(Seq({"ok", "refused", "timeout", "unsent"})) /\ Len(calls) \in Nat
  BY DEF CallTypes
<1>4. DOMAIN calls' = 1..(Len(calls) + 1) /\ DOMAIN calls = 1..Len(calls)
      /\ calls'[Len(calls) + 1] = c /\ \A i \in DOMAIN calls : calls'[i] = calls[i]
  BY <1>1, <1>3
<1>5. results'[Len(calls) + 1] = <<>> /\ \A i \in DOMAIN calls : results'[i] = results[i]
  BY <1>1, <1>3
<1>6. readings'[Len(calls) + 1] = <<>> /\ \A i \in DOMAIN calls : readings'[i] = readings[i]
  BY <1>1, <1>3
<1> QED BY <1>1, <1>2, <1>3, <1>4, <1>5, <1>6

LEMMA NumbersStayUnique ==
  ASSUME CallTypes, AnyStep, CallsStay, UniqueNumber, NoReuse
  PROVE  UniqueNumber'
<1>1. CASE ~Call
  BY <1>1, UseShrinks DEF UniqueNumber, CallsStay
<1>2. CASE Call
  <2> DEFINE n == Len(calls) + 1
  <2>1. /\ DOMAIN calls' = DOMAIN calls \cup {n} /\ n \notin DOMAIN calls
        /\ \A i \in DOMAIN calls : calls'[i] = calls[i]
        /\ UNCHANGED <<pending, udp>>
    BY <1>2, CallIs
  <2>2. \A i \in DOMAIN calls : InUse(i)' => InUse(i)
    BY <2>1 DEF InUse
  <2>3. \A i \in DOMAIN calls : InUse(i) => calls[i].seq # calls'[n].seq
    BY <2>1 DEF NoReuse
  <2> QED BY <2>1, <2>2, <2>3 DEF UniqueNumber
<1> QED BY <1>1, <1>2

LEMMA AfterStaysObeyed ==
  ASSUME CallTypes, AnyStep, CallsStay, AfterObeyed, SaidTrue
  PROVE  AfterObeyed'
<1>1. ASSUME NEW q \in DOMAIN calls, NEW i \in calls'[q].after
      PROVE  i \in DOMAIN calls' /\ WasObeyed(i)'
  <2>1. i \in DOMAIN calls /\ WasObeyed(i)
    BY <1>1 DEF AfterObeyed, CallsStay
  <2> QED BY <2>1, ObeyedStays DEF CallsStay
<1>2. CASE ~Call
  BY <1>1, <1>2, UseShrinks DEF AfterObeyed
<1>3. CASE Call
  <2>1. DOMAIN calls' = DOMAIN calls \cup {Len(calls) + 1}
        /\ calls'[Len(calls) + 1].after = {i \in DOMAIN calls : Said(i, "ok")}
    BY <1>3, CallIs
  <2>2. ASSUME NEW i \in calls'[Len(calls) + 1].after PROVE i \in DOMAIN calls' /\ WasObeyed(i)'
    <3>1. i \in DOMAIN calls /\ WasObeyed(i)
      BY <2>1, <2>2 DEF SaidTrue
    <3> QED BY <2>1, <3>1, ObeyedStays
  <2> QED BY <1>1, <2>1, <2>2 DEF AfterObeyed
<1> QED BY <1>2, <1>3

\* What a setting is now was obeyed last of the calls that write its key.
LEMMA SettingsStayLatest ==
  ASSUME CallTypes, AnyStep, CallsStay, SettingsLatest
  PROVE  SettingsLatest'
<1>0. ASSUME NEW i, WasObeyed(i)', obeyed' = obeyed PROVE WasObeyed(i) /\ i \in DOMAIN calls
  BY <1>0 DEF WasObeyed, CallTypes
<1>1. CASE UNCHANGED <<settings, obeyed>>
  <2>1. ASSUME NEW k \in DOMAIN settings, NEW i \in DOMAIN calls', WasObeyed(i)', k \in Writes(calls[i].fn)'
        PROVE  ReadBack(i, settings[k].by)'
    <3>1. WasObeyed(i) /\ i \in DOMAIN calls
      BY <1>0, <1>1, <2>1
    <3>2. k \in Writes(calls[i].fn)
      BY <2>1, <3>1 DEF Writes, CallsStay
    <3>3. ReadBack(i, settings[k].by)
      BY <3>1, <3>2 DEF SettingsLatest
    <3> QED BY <3>3, <1>1 DEF ReadBack
  <2> QED BY <1>1, <2>1 DEF SettingsLatest
<1>2. CASE LidarObeys
  <2>1. PICK d \in udp, obeys \in BOOLEAN :
          /\ d.what = "request" /\ settings' = NewSettings(d.call, obeys)
          /\ obeyed' = IF obeys THEN Append(obeyed, d.call) ELSE obeyed
    BY <1>2, ObeyStep, Zenon
  <2>2. UNCHANGED <<calls, lidarType>> /\ d.call \in DOMAIN calls
    BY <1>2, <2>1 DEF LidarObeys, session, CallTypes, UdpTypes
  <2>3. CASE ~obeys
    <3>1. UNCHANGED obeyed /\ DOMAIN settings' = DOMAIN settings
          /\ \A k \in DOMAIN settings : settings'[k] = settings[k]
      BY <2>1, <2>3 DEF NewSettings
    <3>2. ASSUME NEW k \in DOMAIN settings, NEW i \in DOMAIN calls, WasObeyed(i)', k \in Writes(calls[i].fn)'
          PROVE  ReadBack(i, settings[k].by)'
      <4>1. WasObeyed(i) /\ k \in Writes(calls[i].fn)
        BY <2>2, <3>1, <3>2 DEF WasObeyed, Writes
      <4>2. ReadBack(i, settings[k].by)
        BY <4>1 DEF SettingsLatest
      <4> QED BY <3>1, <4>2 DEF ReadBack
    <3> QED BY <2>2, <3>1, <3>2 DEF SettingsLatest
  <2>4. CASE obeys
    <3> DEFINE c == d.call
    <3>0. obeyed \in Seq(DOMAIN calls)
      BY DEF CallTypes
    <3>1. /\ Len(obeyed) \in Nat /\ Len(obeyed') = Len(obeyed) + 1
          /\ DOMAIN obeyed = 1..Len(obeyed) /\ DOMAIN obeyed' = 1..Len(obeyed')
          /\ \A m \in DOMAIN obeyed : obeyed'[m] = obeyed[m]
          /\ obeyed'[Len(obeyed')] = c
      BY <2>1, <2>4, <3>0
    <3>2. DOMAIN settings' = DOMAIN settings
          /\ \A k \in DOMAIN settings : settings'[k] = IF k \in Writes(calls[c].fn)
                                                      THEN [by |-> c, value |-> calls[c].value] ELSE settings[k]
      BY <2>1, <2>4 DEF NewSettings
    <3>3. ASSUME NEW k \in DOMAIN settings, NEW i \in DOMAIN calls, WasObeyed(i)', k \in Writes(calls[i].fn)'
          PROVE  ReadBack(i, settings[k].by)'
      <4>0. k \in Writes(calls[i].fn)
        BY <2>2, <3>3 DEF Writes
      <4>1. CASE k \in Writes(calls[c].fn)
        <5>1. settings'[k].by = c
          BY <3>2, <4>1
        <5>2. PICK m \in DOMAIN obeyed' : obeyed'[m] = i
          BY <3>3 DEF WasObeyed
        <5>3. m <= Len(obeyed') /\ Len(obeyed') \in DOMAIN obeyed'
          BY <3>1
        <5> QED BY <3>1, <5>1, <5>2, <5>3 DEF ReadBack
      <4>2. CASE k \notin Writes(calls[c].fn)
        <5>1. settings'[k] = settings[k] /\ i # c
          BY <3>2, <4>0, <4>2
        <5>2. WasObeyed(i)
          BY <3>1, <3>3, <5>1 DEF WasObeyed
        <5>3. ReadBack(i, settings[k].by)
          BY <4>0, <5>2 DEF SettingsLatest
        <5>4. ReadBack(i, settings[k].by) => ReadBack(i, settings[k].by)'
          BY <3>1, <5>1 DEF ReadBack
        <5> QED BY <5>3, <5>4
      <4> QED BY <4>1, <4>2
    <3> QED BY <2>2, <3>2, <3>3 DEF SettingsLatest
  <2> QED BY <2>3, <2>4
<1>3. UNCHANGED <<settings, obeyed>> \/ LidarObeys
  BY DEF AnyStep, CommandNext, CallStep, SdkInit, SdkUninit, DetectLidar, Call, CallRefused, SendRequest,
     Register, HandleAck, CommandTimesOut, HandlePush, UdpLoses, commandVars, keyVars
<1> QED BY <1>1, <1>2, <1>3

\* What is called back: a status of the SDK's own, or the answer under the number.
LEMMA ResultsStep ==
  ASSUME CallTypes, AnyStep, ~Call
  PROVE  \/ UNCHANGED <<results, readings>>
         \/ \E i \in DOMAIN calls, status \in {"timeout", "unsent"} :
              /\ CallsBack(i, status) /\ UNCHANGED readings
         \/ \E i \in pending, d \in udp :
              /\ d.what = "answer" /\ calls[i].seq = d.seq /\ CallsBack(i, d.status)
              /\ readings' = [readings EXCEPT ![i] = d.values]
<1>1. CASE HandleAck
  BY <1>1 DEF HandleAck
<1>2. CASE CommandTimesOut
  BY <1>2 DEF CommandTimesOut, CallTypes
<1>3. ASSUME NEW i \in DOMAIN calls, SendRequest(i)
      PROVE  \/ UNCHANGED <<results, readings>>
             \/ CallsBack(i, "unsent") /\ UNCHANGED readings
  BY <1>3 DEF SendRequest
<1>4. UNCHANGED <<results, readings>> \/ HandleAck \/ CommandTimesOut \/ \E i \in DOMAIN calls : SendRequest(i)
  BY DEF AnyStep, CommandNext, CallStep, SdkInit, SdkUninit, DetectLidar, CallRefused,
     Register, HandlePush, LidarObeys, UdpLoses, commandVars
<1> QED BY <1>1, <1>2, <1>3, <1>4

LEMMA SaidStaysTrue ==
  ASSUME CallTypes, AnyStep, CallsStay, SaidTrue, AnswersTrue
  PROVE  SaidTrue'
<1>1. ASSUME NEW i \in DOMAIN calls, results'[i] = results[i], Said(i, "ok")' PROVE WasObeyed(i)'
  <2>1. WasObeyed(i)
    BY <1>1 DEF Said, SaidTrue
  <2> QED BY <2>1, ObeyedStays
<1>2. CASE Call
  <2> PICK n : n = Len(calls) + 1
    OBVIOUS
  <2>1. /\ DOMAIN calls' = DOMAIN calls \cup {n}
        /\ \A i \in DOMAIN calls : results'[i] = results[i]
        /\ results'[n] = <<>>
    BY <1>2, CallIs
  <2>2. ~Said(n, "ok")'
    BY <2>1 DEF Said
  <2> QED BY <1>1, <2>1, <2>2 DEF SaidTrue
<1>3. CASE ~Call
  <2>0. DOMAIN calls' = DOMAIN calls
    BY <1>3, UseShrinks
  <2>1. CASE UNCHANGED <<results, readings>>
    BY <1>1, <2>0, <2>1 DEF SaidTrue
  <2>2. ASSUME NEW i \in DOMAIN calls, NEW status \in {"timeout", "unsent", "ok", "refused"},
               CallsBack(i, status), status = "ok" => WasObeyed(i)
        PROVE  SaidTrue'
    <3>1. /\ \A j \in DOMAIN calls : j # i => results'[j] = results[j]
          /\ results'[i] = Append(results[i], status)
      BY <2>2, CalledBack
    <3>2. results[i] \in Seq({"ok", "refused", "timeout", "unsent"})
      BY DEF CallTypes
    <3>3. Said(i, "ok")' => Said(i, "ok") \/ status = "ok"
      BY <3>1, <3>2 DEF Said
    <3>4. Said(i, "ok")' => WasObeyed(i)'
      BY <2>2, <3>3, ObeyedStays DEF SaidTrue
    <3> QED BY <1>1, <2>0, <3>1, <3>4 DEF SaidTrue
  <2>3. ASSUME NEW i \in pending, NEW d \in udp, d.what = "answer", calls[i].seq = d.seq, CallsBack(i, d.status)
        PROVE  SaidTrue'
    <3>1. i \in DOMAIN calls /\ d.status \in {"ok", "refused"}
      BY <2>3 DEF CallTypes, UdpTypes
    <3>2. d.status = "ok" => WasObeyed(i)
      BY <2>3, <3>1 DEF AnswersTrue, InUse
    <3> QED BY <2>2, <2>3, <3>1, <3>2
  <2> QED BY <1>3, <2>1, <2>2, <2>3, ResultsStep
<1> QED BY <1>2, <1>3

LEMMA ReadingsStayLatest ==
  ASSUME CallTypes, AnyStep, CallsStay, AfterObeyed, ReadingsLatest, AnswersTrue
  PROVE  ReadingsLatest'
<1>1. ASSUME NEW q \in DOMAIN calls, readings'[q] = readings[q] PROVE ReadsLatest(q, readings[q])'
  <2>1. ReadsLatest(q, readings[q])
    BY DEF ReadingsLatest
  <2>2. \A v : ReadsLatest(q, v) => ReadsLatest(q, v)'
    BY LatestStays
  <2>3. ReadsLatest(q, readings[q]) => ReadsLatest(q, readings[q])'
    <3>1. PICK v : v = readings[q]
      OBVIOUS
    <3> QED BY <1>1, <2>2, <3>1 DEF ReadsLatest
  <2> QED BY <2>1, <2>3
<1>2. CASE Call
  <2> PICK n : n = Len(calls) + 1
    OBVIOUS
  <2>1. /\ DOMAIN calls' = DOMAIN calls \cup {n}
        /\ \A i \in DOMAIN calls : readings'[i] = readings[i]
        /\ readings'[n] = <<>>
    BY <1>2, CallIs
  <2>2. ReadsLatest(n, readings[n])'
    BY <2>1 DEF ReadsLatest
  <2> QED BY <1>1, <2>1, <2>2 DEF ReadingsLatest
<1>3. CASE ~Call
  <2>0. DOMAIN calls' = DOMAIN calls
    BY <1>3, UseShrinks
  <2>1. CASE readings' = readings
    BY <1>1, <2>0, <2>1 DEF ReadingsLatest
  <2>2. ASSUME NEW i \in pending, NEW d \in udp, d.what = "answer", calls[i].seq = d.seq,
               readings' = [readings EXCEPT ![i] = d.values]
        PROVE  ReadingsLatest'
    <3>1. i \in DOMAIN calls /\ DOMAIN readings = DOMAIN calls
      BY DEF CallTypes
    <3>2. readings'[i] = d.values /\ \A j \in DOMAIN calls : j # i => readings'[j] = readings[j]
      BY <2>2, <3>1
    <3>3. ReadsLatest(i, d.values)
      BY <2>2, <3>1 DEF AnswersTrue, InUse
    <3>4. ReadsLatest(i, d.values)'
      <4>1. PICK v : v = d.values
        OBVIOUS
      <4>2. ReadsLatest(i, v)'
        BY <3>1, <3>3, <4>1, LatestStays
      <4> QED BY <4>1, <4>2 DEF ReadsLatest
    <3>5. ReadsLatest(i, readings[i])'
      BY <3>2, <3>4 DEF ReadsLatest
    <3> QED BY <1>1, <2>0, <3>2, <3>5 DEF ReadingsLatest
  <2> QED BY <1>3, <2>1, <2>2, ResultsStep
<1> QED BY <1>2, <1>3

\* An answer that is under way is true of the call that uses its number.
LEMMA AnswersStayTrue ==
  ASSUME CallTypes, AnyStep, CallsStay, AfterObeyed, AnswersTrue, UniqueNumber, NoReuse, SettingsLatest,
         SettingsLatest', AfterObeyed'
  PROVE  AnswersTrue'
<1>1. ASSUME NEW d \in udp, d.what = "answer", NEW q \in DOMAIN calls, InUse(q), calls[q].seq = d.seq
      PROVE  (d.status = "ok" => WasObeyed(q)') /\ ReadsLatest(q, d.values)'
  <2>1. (d.status = "ok" => WasObeyed(q)) /\ ReadsLatest(q, d.values)
    BY <1>1 DEF AnswersTrue
  <2>2. PICK v : v = d.values
    OBVIOUS
  <2>3. ReadsLatest(q, v)'
    BY <2>1, <2>2, LatestStays
  <2> QED BY <2>1, <2>2, <2>3, ObeyedStays DEF ReadsLatest
<1>2. CASE Call
  <2>1. /\ DOMAIN calls' = DOMAIN calls \cup {Len(calls) + 1} /\ Len(calls) + 1 \notin DOMAIN calls
        /\ \A i \in DOMAIN calls : calls'[i] = calls[i]
        /\ UNCHANGED <<pending, udp>>
    BY <1>2, CallIs
  <2>2. \A i \in DOMAIN calls : InUse(i)' => InUse(i)
    BY <2>1 DEF InUse
  <2>3. \A d \in udp : d.what = "answer" => d.seq # calls'[Len(calls) + 1].seq
    BY <2>1 DEF NoReuse
  <2> QED BY <1>1, <2>1, <2>2, <2>3 DEF AnswersTrue
<1>3. CASE ~Call /\ ~LidarObeys
  <2>1. DOMAIN calls' = DOMAIN calls /\ \A i \in DOMAIN calls : InUse(i)' => InUse(i)
    BY <1>3, UseShrinks
  <2>2. \A d \in udp' : d.what = "answer" => d \in udp
    BY <1>3, AnswersShrink
  <2> QED BY <1>1, <2>1, <2>2 DEF AnswersTrue, CallsStay
<1>4. CASE LidarObeys
  <2>1. PICK d \in udp, obeys \in BOOLEAN :
          /\ d.what = "request" /\ settings' = NewSettings(d.call, obeys)
          /\ obeyed' = IF obeys THEN Append(obeyed, d.call) ELSE obeyed
          /\ udp' = (udp \ {d}) \cup {AnswerTo(d.call, obeys)}
    BY <1>4, ObeyStep, Zenon
  <2> DEFINE i == d.call
             a == AnswerTo(i, obeys)
  <2>2. UNCHANGED <<calls, lidarType, pending>> /\ i \in DOMAIN calls /\ InUse(i)
    BY <1>4, <2>1 DEF LidarObeys, session, CallTypes, UdpTypes, InUse
  <2>3. a.what = "answer" /\ a.seq = calls[i].seq /\ (a.status = "ok" => obeys)
    BY DEF AnswerTo
  <2>4. \A q \in DOMAIN calls : InUse(q)' => InUse(q)
    <3>1. \A e \in udp' : e.what = "request" => e \in udp
      BY <2>1, <2>3
    <3> QED BY <2>2, <3>1 DEF InUse
  <2>5. \A q \in DOMAIN calls : InUse(q)' /\ calls[q].seq = a.seq => q = i
    BY <2>2, <2>3, <2>4 DEF UniqueNumber
  <2>6. a.status = "ok" => WasObeyed(i)'
    <3>1. CASE obeys
      <4>1. obeyed \in Seq(DOMAIN calls) /\ obeyed' = Append(obeyed, i)
        BY <2>1, <3>1 DEF CallTypes
      <4>2. Len(obeyed) + 1 \in DOMAIN obeyed' /\ obeyed'[Len(obeyed) + 1] = i
        BY <4>1, <2>2
      <4> QED BY <4>2 DEF WasObeyed
    <3> QED BY <2>3, <3>1
  <2>7. PICK v : v = a.values
    OBVIOUS
  <2>8. ReadsLatest(i, v)'
    <3>1. CASE ~obeys
      <4>1. v = <<>>
        BY <3>1, <2>7 DEF AnswerTo
      <4> QED BY <4>1 DEF ReadsLatest
    <3>2. CASE obeys
      <4>1. v = [k \in DOMAIN settings \cap Asks(calls[i].fn) |-> NewSettings(i, obeys)[k]]
        BY <3>2, <2>7 DEF AnswerTo
      <4>2. \A k \in DOMAIN v : k \in DOMAIN settings' /\ v[k] = settings'[k]
        BY <2>1, <4>1 DEF NewSettings
      <4>3. ASSUME NEW k \in DOMAIN v, NEW j \in calls[i].after, k \in Writes(calls[j].fn)'
            PROVE  ReadBack(j, v[k].by)'
        <5>1. j \in DOMAIN calls' /\ WasObeyed(j)'
          BY <2>2, <4>3 DEF AfterObeyed
        <5>2. ReadBack(j, settings[k].by)'
          BY <4>2, <4>3, <5>1 DEF SettingsLatest
        <5>3. settings'[k].by = v[k].by
          BY <4>2
        <5> QED BY <5>2, <5>3 DEF ReadBack
      <4> QED BY <2>2, <4>3 DEF ReadsLatest
    <3> QED BY <3>1, <3>2
  <2> HIDE DEF a
  <2>9. ASSUME NEW e \in udp', e.what = "answer", NEW q \in DOMAIN calls', InUse(q)', calls'[q].seq = e.seq
        PROVE  (e.status = "ok" => WasObeyed(q)') /\ ReadsLatest(q, e.values)'
    <3>1. CASE e \in udp
      BY <1>1, <2>2, <2>4, <2>9, <3>1
    <3>2. CASE e = a
      <4>1. q = i
        BY <2>2, <2>5, <2>9, <3>2
      <4>2. e.values = v
        BY <2>7, <3>2
      <4>3. ReadsLatest(q, e.values)'
        BY <4>1, <4>2, <2>8
      <4> QED BY <2>6, <3>2, <4>1, <4>3
    <3> QED BY <2>1, <3>1, <3>2 DEF a
  <2> QED BY <2>9 DEF AnswersTrue
<1> QED BY <1>2, <1>3, <1>4

-----------------------------------------------------------------------------
(* What the application is told of the settings                            *)

LEMMA SettingsStayFit ==
  ASSUME CallTypes, KeyTypes, AnyStep, CallsStay, SettingsFit
  PROVE  SettingsFit'
<1>1. ASSUME NEW k \in DOMAIN settings, settings'[k] = settings[k], settings[k].by # 0
      PROVE  /\ k \in Writes(calls[settings[k].by].fn)'
             /\ settings'[k].value = calls'[settings'[k].by].value
  <2>1. settings[k].by \in DOMAIN calls
    BY <1>1 DEF KeyTypes, SettingIs
  <2> QED BY <1>1, <2>1 DEF SettingsFit, CallsStay, Writes
<1>2. CASE UNCHANGED settings
  BY <1>1, <1>2 DEF SettingsFit
<1>3. CASE LidarObeys
  <2>1. PICK d \in udp, obeys \in BOOLEAN : d.what = "request" /\ settings' = NewSettings(d.call, obeys)
    BY <1>3, ObeyStep, Zenon
  <2>2. UNCHANGED <<calls, lidarType>> /\ d.call \in DOMAIN calls
    BY <1>3, <2>1 DEF LidarObeys, session, CallTypes, UdpTypes
  <2>3. DOMAIN settings' = DOMAIN settings
    BY <2>1 DEF NewSettings
  <2>4. ASSUME NEW k \in DOMAIN settings, settings'[k].by # 0
        PROVE  /\ k \in Writes(calls[settings[k].by].fn)'
               /\ settings'[k].value = calls'[settings'[k].by].value
    <3>1. CASE obeys /\ k \in Writes(calls[d.call].fn)
      <4>1. settings'[k].by = d.call /\ settings'[k].value = calls[d.call].value
        BY <2>1, <3>1 DEF NewSettings
      <4>2. k \in Writes(calls[d.call].fn)'
        BY <2>2, <3>1 DEF Writes
      <4> QED BY <2>2, <4>1, <4>2
    <3>2. CASE ~(obeys /\ k \in Writes(calls[d.call].fn))
      <4>1. settings'[k] = settings[k]
        BY <2>1, <3>2 DEF NewSettings
      <4> QED BY <1>1, <2>4, <4>1
    <3> QED BY <3>1, <3>2
  <2> QED BY <2>3, <2>4 DEF SettingsFit
<1>4. UNCHANGED settings \/ LidarObeys
  BY DEF AnyStep, CommandNext, CallStep, SdkInit, SdkUninit, DetectLidar, Call, CallRefused, SendRequest,
     Register, HandleAck, CommandTimesOut, HandlePush, UdpLoses, commandVars, keyVars
<1> QED BY <1>2, <1>3, <1>4

LEMMA ReportedStaysFit ==
  ASSUME CallTypes, KeyTypes, AnyStep, CallsStay, SettingsFit, ReportedFits
  PROVE  ReportedFits'
<1>1. CASE UNCHANGED reported
  BY <1>1 DEF ReportedFits, CallsStay
<1>2. CASE HandlePush
  <2>1. UNCHANGED calls /\ reported' \in {Parse(settings), <<>>}
    BY <1>2 DEF HandlePush
  <2>2. CASE reported' = <<>>
    BY <2>2 DEF ReportedFits
  <2>3. CASE reported' = Parse(settings)
    <3>1. ASSUME NEW n \in DOMAIN reported', reported'[n].by # 0
          PROVE  /\ reported'[n].by \in DOMAIN calls
                 /\ n \in Purpose(calls[reported'[n].by].fn)
                 /\ reported'[n].value = calls[reported'[n].by].value
      <4>1. PICK k \in DOMAIN settings : n \in NamesOf(k) /\ reported'[n] = settings[k]
        BY <2>3, ParsedFrom
      <4>2. settings[k].by \in DOMAIN calls
        BY <3>1, <4>1 DEF KeyTypes, SettingIs
      <4>3. k \in Writes(calls[settings[k].by].fn) /\ settings[k].value = calls[settings[k].by].value
        BY <3>1, <4>1 DEF SettingsFit
      <4> QED BY <4>1, <4>2, <4>3, NamesOfWritten
    <3> QED BY <2>1, <3>1 DEF ReportedFits
  <2> QED BY <2>1, <2>2, <2>3
<1>3. UNCHANGED reported \/ HandlePush
  BY DEF AnyStep, CommandNext, CallStep, SdkInit, SdkUninit, DetectLidar, Call, CallRefused, SendRequest,
     Register, HandleAck, CommandTimesOut, LidarObeys, UdpLoses, commandVars, keyVars
<1> QED BY <1>1, <1>2, <1>3

-----------------------------------------------------------------------------
(* A Mid-360 calls back once                                               *)

Mid360Steps == {<<"send", "add">>, <<"add", "send">>, <<"send">>, <<"add">>, <<>>}

IsSent(i) == calls[i].steps \in {<<"send", "add">>, <<"add", "send">>, <<"send">>}
Adds(i) == calls[i].steps \in {<<"send", "add">>, <<"add", "send">>, <<"add">>}

IsAnswered(i) == \E j \in DOMAIN results[i] : results[i][j] # "unsent"

\* A call is not sent again after it could not be sent, and not registered, and
\* not waited for, after it was answered or timed out.
CallsBackOnce(i) ==
  /\ calls[i].steps \in Mid360Steps
  /\ IsSent(i) => ~Said(i, "unsent")
  /\ Adds(i) => i \notin pending /\ ~IsAnswered(i)
  /\ i \in pending => ~IsAnswered(i)
  /\ Len(results[i]) <= (IF Said(i, "unsent") THEN 1 ELSE 0) + (IF IsAnswered(i) THEN 1 ELSE 0)

Once == lidarType = "Mid360" => \A i \in DOMAIN calls : CallsBackOnce(i)

\* Of the steps of a Mid-360, the one that is taken does not come again.
LEMMA StepGoes ==
  ASSUME NEW i, calls[i].steps \in Mid360Steps, calls[i].steps # <<>>,
         calls'[i].steps = Tail(calls[i].steps)
  PROVE  /\ calls'[i].steps \in Mid360Steps
         /\ Head(calls[i].steps) = "send" => IsSent(i) /\ ~(IsSent(i)') /\ (Adds(i)' => Adds(i))
         /\ Head(calls[i].steps) = "add" => Adds(i) /\ ~(Adds(i)') /\ (IsSent(i)' => IsSent(i))
<1>0. /\ <<"send", "add">> # <<"add", "send">> /\ <<"send">> # <<"add">> /\ <<>> # <<"add">> /\ <<>> # <<"send">>
      /\ \A x, y, z : <<x, y>> # <<z>> /\ <<x, y>> # <<>>
  OBVIOUS
<1>1. CASE calls[i].steps = <<"send", "add">>
  <2>1. calls'[i].steps = <<"add">> /\ Head(calls[i].steps) = "send"
    BY <1>1
  <2> QED BY <1>0, <1>1, <2>1 DEF IsSent, Adds, Mid360Steps
<1>2. CASE calls[i].steps = <<"add", "send">>
  <2>1. calls'[i].steps = <<"send">> /\ Head(calls[i].steps) = "add"
    BY <1>2
  <2> QED BY <1>0, <1>2, <2>1 DEF IsSent, Adds, Mid360Steps
<1>3. CASE calls[i].steps = <<"send">>
  <2>1. calls'[i].steps = <<>> /\ Head(calls[i].steps) = "send"
    BY <1>3
  <2> QED BY <1>0, <1>3, <2>1 DEF IsSent, Adds, Mid360Steps
<1>4. CASE calls[i].steps = <<"add">>
  <2>1. calls'[i].steps = <<>> /\ Head(calls[i].steps) = "add"
    BY <1>4
  <2> QED BY <1>0, <1>4, <2>1 DEF IsSent, Adds, Mid360Steps
<1> QED BY <1>1, <1>2, <1>3, <1>4 DEF Mid360Steps

LEMMA NewStatus ==
  ASSUME CallTypes, NEW i \in DOMAIN calls, NEW status \in {"ok", "refused", "timeout", "unsent"},
         CallsBack(i, status)
  PROVE  /\ Len(results'[i]) = Len(results[i]) + 1 /\ Len(results[i]) \in Nat
         /\ \A x : Said(i, x)' <=> Said(i, x) \/ x = status
         /\ IsAnswered(i)' <=> IsAnswered(i) \/ status # "unsent"
<1>1. results'[i] = Append(results[i], status) /\ results[i] \in Seq({"ok", "refused", "timeout", "unsent"})
  <2>1. results \in Seq(Seq({"ok", "refused", "timeout", "unsent"})) /\ i \in DOMAIN results
    BY DEF CallTypes
  <2> QED BY <2>1, CalledBack
<1>2. /\ Len(results[i]) \in Nat /\ Len(results'[i]) = Len(results[i]) + 1
      /\ DOMAIN results[i] = 1..Len(results[i]) /\ DOMAIN results'[i] = 1..Len(results'[i])
      /\ \A j \in DOMAIN results[i] : results'[i][j] = results[i][j]
      /\ results'[i][Len(results[i]) + 1] = status
  BY <1>1
<1> QED BY <1>2 DEF Said, IsAnswered

LEMMA StaysOnce ==
  ASSUME CallTypes, AnyStep, CallsStay, Once
  PROVE  Once'
<1> SUFFICES ASSUME lidarType = "Mid360" PROVE \A i \in DOMAIN calls' : CallsBackOnce(i)'
  BY DEF Once, CallsStay
<1>1. \A i \in DOMAIN calls : CallsBackOnce(i)
  BY DEF Once
<1>2. ASSUME NEW i \in DOMAIN calls, calls'[i].steps = calls[i].steps, results'[i] = results[i],
             i \in pending' => i \in pending
      PROVE  CallsBackOnce(i)'
  BY <1>1, <1>2 DEF CallsBackOnce, IsSent, Adds, Said, IsAnswered
<1>3. CASE Call
  <2> PICK n : n = Len(calls) + 1
    OBVIOUS
  <2>1. /\ DOMAIN calls' = DOMAIN calls \cup {n} /\ n \notin DOMAIN calls
        /\ \A i \in DOMAIN calls : calls'[i] = calls[i] /\ results'[i] = results[i]
        /\ calls'[n].steps = StepsOf(Head(program).fn) /\ results'[n] = <<>> /\ UNCHANGED pending
    BY <1>3, CallIs
  <2>2. StepsOf(Head(program).fn) \in Mid360Steps
    BY DEF StepsOf, Mid360Steps
  <2>3. n \notin pending'
    BY <2>1 DEF CallTypes
  <2>4. CallsBackOnce(n)'
    BY <2>1, <2>2, <2>3 DEF CallsBackOnce, Said, IsAnswered
  <2> QED BY <1>2, <2>1, <2>4
<1>4. ASSUME NEW i \in DOMAIN calls, SendRequest(i) PROVE \A j \in DOMAIN calls' : CallsBackOnce(j)'
  <2>1. NextStep(i, "send") /\ UNCHANGED pending /\ (UNCHANGED results \/ CallsBack(i, "unsent"))
    BY <1>4 DEF SendRequest
  <2>2. /\ DOMAIN calls' = DOMAIN calls /\ \A j \in DOMAIN calls : j # i => calls'[j] = calls[j]
        /\ calls[i].steps # <<>> /\ Head(calls[i].steps) = "send" /\ calls'[i].steps = Tail(calls[i].steps)
    BY <2>1, StepTaken
  <2>3. \A j \in DOMAIN calls : j # i => results'[j] = results[j]
    BY <2>1, CalledBack
  <2>4. CallsBackOnce(i)
    BY <1>1
  <2>5. calls'[i].steps \in Mid360Steps /\ ~(IsSent(i)') /\ (Adds(i)' => Adds(i)) /\ IsSent(i)
    BY <2>2, <2>4, StepGoes DEF CallsBackOnce
  <2>6. CASE UNCHANGED results
    <3>1. CallsBackOnce(i)'
      BY <2>1, <2>4, <2>5, <2>6 DEF CallsBackOnce, Said, IsAnswered
    <3> QED BY <1>2, <2>1, <2>2, <2>3, <3>1
  <2>7. CASE CallsBack(i, "unsent")
    <3>1. CallsBackOnce(i)'
      BY <2>1, <2>4, <2>5, <2>7, NewStatus DEF CallsBackOnce
    <3> QED BY <1>2, <2>1, <2>2, <2>3, <3>1
  <2> QED BY <2>1, <2>6, <2>7
<1>5. ASSUME NEW i \in DOMAIN calls, Register(i) PROVE \A j \in DOMAIN calls' : CallsBackOnce(j)'
  <2>1. NextStep(i, "add") /\ pending' \subseteq pending \cup {i} /\ UNCHANGED results
    BY <1>5 DEF Register
  <2>2. /\ DOMAIN calls' = DOMAIN calls /\ \A j \in DOMAIN calls : j # i => calls'[j] = calls[j]
        /\ calls[i].steps # <<>> /\ Head(calls[i].steps) = "add" /\ calls'[i].steps = Tail(calls[i].steps)
    BY <2>1, StepTaken
  <2>4. CallsBackOnce(i)
    BY <1>1
  <2>5. calls'[i].steps \in Mid360Steps /\ ~(Adds(i)') /\ (IsSent(i)' => IsSent(i)) /\ Adds(i)
    BY <2>2, <2>4, StepGoes DEF CallsBackOnce
  <2>6. CallsBackOnce(i)'
    BY <2>1, <2>4, <2>5 DEF CallsBackOnce, Said, IsAnswered
  <2> QED BY <1>2, <2>1, <2>2, <2>6
<1>6. CASE HandleAck \/ CommandTimesOut
  <2>1. \/ UNCHANGED <<pending, results>>
        \/ \E i \in pending, status \in {"timeout", "ok", "refused"} :
             pending' = pending \ {i} /\ CallsBack(i, status)
    BY <1>6 DEF HandleAck, CommandTimesOut, CallTypes, UdpTypes
  <2>2. UNCHANGED calls
    BY <1>6 DEF HandleAck, CommandTimesOut
  <2>3. ASSUME NEW i \in pending, NEW status \in {"timeout", "ok", "refused"}, pending' = pending \ {i},
               CallsBack(i, status)
        PROVE  \A j \in DOMAIN calls' : CallsBackOnce(j)'
    <3>1. i \in DOMAIN calls
      BY DEF CallTypes
    <3>2. \A j \in DOMAIN calls : j # i => results'[j] = results[j]
      BY <2>3, <3>1, CalledBack
    <3>3. CallsBackOnce(i)
      BY <1>1, <3>1
    <3>4. ~IsAnswered(i) /\ ~Adds(i)
      BY <3>3 DEF CallsBackOnce
    <3>5. CallsBackOnce(i)'
      BY <2>2, <2>3, <3>1, <3>3, <3>4, NewStatus DEF CallsBackOnce, IsSent, Adds
    <3> QED BY <1>2, <2>2, <2>3, <3>2, <3>5
  <2> QED BY <1>2, <2>1, <2>2, <2>3
<1>7. CASE UNCHANGED <<calls, pending, results>>
  BY <1>2, <1>7
<1>8. \/ UNCHANGED <<calls, pending, results>> \/ Call \/ HandleAck \/ CommandTimesOut
      \/ \E i \in DOMAIN calls : SendRequest(i) \/ Register(i)
  BY DEF AnyStep, CommandNext, CallStep, SdkInit, SdkUninit, DetectLidar, CallRefused, HandlePush, LidarObeys,
     UdpLoses, commandVars
<1> QED BY <1>3, <1>4, <1>5, <1>6, <1>7, <1>8

-----------------------------------------------------------------------------
(* The theorems                                                            *)

\* What needs no assumption on the numbers, and what does.
PlainInv == CallTypes /\ KeyTypes /\ SettingsFit /\ ReportedFits /\ Once
NumberInv == UniqueNumber /\ AnswersTrue /\ SaidTrue /\ AfterObeyed /\ SettingsLatest /\ ReadingsLatest

LEMMA InitIsTrue == CommandInit => PlainInv /\ NumberInv
<1> SUFFICES ASSUME CommandInit PROVE PlainInv /\ NumberInv
  OBVIOUS
<1>1. /\ calls = <<>> /\ udp = {} /\ obeyed = <<>> /\ reported = <<>> /\ results = <<>> /\ readings = <<>>
      /\ settings = [k \in KeysOf(program) |-> Factory]
  BY DEF CommandInit
<1>2. CallTypes /\ KeyTypes
  BY InitHasTypes
<1>3. SettingsFit
  BY <1>1 DEF SettingsFit, Factory
<1>4. ReportedFits /\ Once
  BY <1>1 DEF ReportedFits, Once
<1>5. UniqueNumber /\ AnswersTrue /\ SaidTrue /\ AfterObeyed /\ ReadingsLatest
  BY <1>1 DEF UniqueNumber, AnswersTrue, SaidTrue, AfterObeyed, ReadingsLatest
<1>6. SettingsLatest
  BY <1>1 DEF SettingsLatest
<1> QED BY <1>2, <1>3, <1>4, <1>5, <1>6 DEF PlainInv, NumberInv

LEMMA StepKeepsPlain ==
  ASSUME PlainInv, [CommandNext]_commandVars
  PROVE  PlainInv' /\ CallsStay
<1>1. AnyStep /\ CallTypes /\ KeyTypes
  BY DEF AnyStep, PlainInv
<1>2. CallTypes' /\ CallsStay
  BY <1>1, StepKeepsTypes, StutterKeepsTypes DEF AnyStep
<1>3. KeyTypes'
  BY <1>1, <1>2, StepKeepsKeys DEF AnyStep
<1> QED BY <1>1, <1>2, <1>3, SettingsStayFit, ReportedStaysFit, StaysOnce DEF PlainInv

LEMMA StepKeepsNumbers ==
  ASSUME PlainInv, NumberInv, [CommandNext]_commandVars, NoReuse
  PROVE  NumberInv'
<1>1. AnyStep /\ CallTypes /\ CallsStay
  BY StepKeepsPlain DEF AnyStep, PlainInv
<1>2. UniqueNumber'
  BY <1>1, NumbersStayUnique DEF NumberInv
<1>3. AfterObeyed'
  BY <1>1, AfterStaysObeyed DEF NumberInv
<1>4. SettingsLatest'
  BY <1>1, SettingsStayLatest DEF NumberInv
<1>5. SaidTrue' /\ ReadingsLatest'
  BY <1>1, SaidStaysTrue, ReadingsStayLatest DEF NumberInv
<1>6. AnswersTrue'
  BY <1>1, <1>3, <1>4, AnswersStayTrue DEF NumberInv
<1> QED BY <1>2, <1>3, <1>4, <1>5, <1>6 DEF NumberInv

LEMMA InvMeans == PlainInv /\ NumberInv => CallbackIsTrue /\ SettingsReadBack
<1> SUFFICES ASSUME PlainInv, NumberInv PROVE CallbackIsTrue /\ SettingsReadBack
  OBVIOUS
<1>1. CallbackIsTrue
  <2>1. ASSUME NEW i \in DOMAIN calls, lidarType = "Mid360"
        PROVE  Len(results[i]) <= IF Said(i, "unsent") THEN 2 ELSE 1
    <3>1. results \in Seq(Seq({"ok", "refused", "timeout", "unsent"})) /\ i \in DOMAIN results
      BY DEF PlainInv, CallTypes
    <3>2. Len(results[i]) \in Nat
      BY <3>1
    <3>3. Len(results[i]) <= (IF Said(i, "unsent") THEN 1 ELSE 0) + (IF IsAnswered(i) THEN 1 ELSE 0)
      BY <2>1 DEF PlainInv, Once, CallsBackOnce
    <3> QED BY <3>2, <3>3
  <2>2. \A i \in DOMAIN calls : Said(i, "ok") => \E j \in DOMAIN obeyed : obeyed[j] = i
    BY DEF NumberInv, SaidTrue, WasObeyed
  <2> QED BY <2>1, <2>2 DEF CallbackIsTrue
<1>2. \A n \in DOMAIN reported :
       reported[n].by # 0 =>
         /\ n \in Purpose(calls[reported[n].by].fn)
         /\ reported[n].value = calls[reported[n].by].value
  BY DEF PlainInv, ReportedFits
<1>3. ASSUME NEW q \in DOMAIN calls, NEW k \in DOMAIN readings[q], NEW i \in calls[q].after,
             k \in Writes(calls[i].fn)
      PROVE  \E a, b \in DOMAIN obeyed : a <= b /\ obeyed[a] = i /\ obeyed[b] = readings[q][k].by
  BY <1>3 DEF NumberInv, ReadingsLatest, ReadsLatest, ReadBack
<1> QED BY <1>1, <1>2, <1>3 DEF SettingsReadBack

\* As long as no call gets a number that is in use, "ok" is called back only for a
\* call the lidar obeyed, a call to a Mid-360 calls back once (SendCommand and
\* CommandsHandler), what the application is told of a setting is what a call for
\* that setting wrote, and a query reads what was acknowledged before it.
THEOREM NumbersMakeCallbacksTrue ==
  CommandSpec /\ [][NoReuse]_commandVars => [](CallbackIsTrue /\ SettingsReadBack)
<1>1. CommandInit => PlainInv /\ NumberInv
  BY InitIsTrue
<1>2. (PlainInv /\ NumberInv) /\ [CommandNext]_commandVars /\ [NoReuse]_commandVars => (PlainInv /\ NumberInv)'
  <2> SUFFICES ASSUME PlainInv, NumberInv, [CommandNext]_commandVars, [NoReuse]_commandVars
               PROVE  (PlainInv /\ NumberInv)'
    OBVIOUS
  <2>1. UNCHANGED commandVars => NoReuse
    BY DEF commandVars, NoReuse
  <2> QED BY <2>1, StepKeepsPlain, StepKeepsNumbers
<1>3. PlainInv /\ NumberInv => CallbackIsTrue /\ SettingsReadBack
  BY InvMeans
<1> QED BY <1>1, <1>2, <1>3, PTL DEF CommandSpec

\* As long as a number is still to come for the calls of the program, the numbers
\* so far are those up to the last.
NumbersLeft ==
  program # <<>> =>
    /\ lastSeq + Len(program) <= SeqMax + 1
    /\ \A i \in DOMAIN calls : 1 < calls[i].seq /\ calls[i].seq <= lastSeq
    /\ \A d \in udp : d.what = "answer" => 1 < d.seq /\ d.seq <= lastSeq

LEMMA NumbersGrow ==
  ASSUME CallTypes, NumbersLeft, CommandNext \/ UNCHANGED commandVars, CallTypes', CallsStay
  PROVE  NumbersLeft' /\ NoReuse
<1>0. AnyStep
  BY DEF AnyStep
<1>1. CASE ~Call /\ ~CallRefused
  <2>1. UNCHANGED <<program, lastSeq>>
    BY <1>1 DEF CommandNext, CallStep, SdkInit, SdkUninit, DetectLidar, SendRequest, Register, HandleAck,
       CommandTimesOut, HandlePush, LidarObeys, UdpLoses, commandVars
  <2>2. DOMAIN calls' = DOMAIN calls
    BY <1>0, <1>1, UseShrinks
  <2>3. ASSUME NEW d \in udp', d.what = "answer"
        PROVE  d \in udp \/ \E i \in DOMAIN calls : d.seq = calls[i].seq
    <3>1. CASE ~LidarObeys
      BY <1>0, <2>3, <3>1, AnswersShrink
    <3>2. CASE LidarObeys
      <4>1. PICK e \in udp, obeys \in BOOLEAN :
              e.what = "request" /\ udp' = (udp \ {e}) \cup {AnswerTo(e.call, obeys)}
        BY <3>2, ObeyStep, Zenon
      <4>2. e.call \in DOMAIN calls /\ AnswerTo(e.call, obeys).seq = calls[e.call].seq
        BY <4>1 DEF CallTypes, UdpTypes, AnswerTo
      <4> QED BY <4>1, <4>2
    <3> QED BY <3>1, <3>2
  <2>4. NumbersLeft'
    BY <2>1, <2>2, <2>3 DEF NumbersLeft, CallsStay
  <2> QED BY <2>2, <2>4 DEF NoReuse
<1>2. CASE Call \/ CallRefused
  <2>1. program # <<>> /\ program' = Tail(program) /\ lastSeq' \in {lastSeq, NextSeq} /\ udp' = udp
    BY <1>2 DEF Call, CallRefused, NextCall
  <2>2. /\ Len(program) \in Nat /\ Len(program) >= 1 /\ Len(program') = Len(program) - 1
        /\ program' # <<>> => Len(program') >= 1
    <3>1. program \in Seq(AppCall) /\ program' \in Seq(AppCall)
      BY DEF CallTypes
    <3> QED BY <2>1, <3>1
  <2>3. /\ lastSeq \in 1..SeqMax /\ SeqMax \in Nat /\ lastSeq + Len(program) <= SeqMax + 1
        /\ \A i \in DOMAIN calls : 1 < calls[i].seq /\ calls[i].seq <= lastSeq
        /\ \A d \in udp : d.what = "answer" => 1 < d.seq /\ d.seq <= lastSeq
    BY <2>1, CommandAssumption DEF NumbersLeft, CallTypes
  <2>4. \A i \in DOMAIN calls : calls[i].seq \in Int
    <3> TAKE i \in DOMAIN calls
    <3>1. calls[i] \in CallRecord
      BY DEF CallTypes
    <3> QED BY <2>3, <3>1 DEF CallRecord
  <2>5. \A d \in udp : d.what = "answer" => d.seq \in Int
    BY <2>3 DEF CallTypes, UdpTypes
  <2>6. CASE CallRefused
    <3>1. calls' = calls
      BY <2>6 DEF CallRefused
    <3>2. NumbersLeft'
      BY <2>1, <2>2, <2>3, <2>4, <2>5, <3>1 DEF NumbersLeft, NextSeq
    <3> QED BY <3>1, <3>2 DEF NoReuse
  <2>7. CASE Call
    <3> DEFINE n == Len(calls) + 1
    <3>1. /\ DOMAIN calls' = DOMAIN calls \cup {n} /\ n \notin DOMAIN calls
          /\ \A i \in DOMAIN calls : calls'[i] = calls[i]
          /\ calls'[n].seq = NextSeq
      BY <2>7, CallIs
    <3>2. lastSeq' = NextSeq
      BY <2>7 DEF Call
    <3> HIDE DEF n
    <3>3. \A i \in DOMAIN calls : calls[i].seq # NextSeq
      BY <2>3, <2>4 DEF NextSeq
    <3>4. \A d \in udp : d.what = "answer" => d.seq # NextSeq
      BY <2>3, <2>5 DEF NextSeq
    <3>5. NoReuse
      BY <3>1, <3>3, <3>4 DEF NoReuse
    <3>6. ASSUME program' # <<>>
          PROVE  /\ NextSeq = lastSeq + 1 /\ lastSeq' = lastSeq + 1 /\ lastSeq' + Len(program') <= SeqMax + 1
      BY <2>2, <2>3, <3>2, <3>6 DEF NextSeq
    <3>7. NumbersLeft'
      BY <2>1, <2>3, <2>4, <2>5, <3>1, <3>6 DEF NumbersLeft
    <3> QED BY <3>5, <3>7
  <2> QED BY <1>2, <2>6, <2>7
<1> QED BY <1>1, <1>2

\* An application that makes no more calls than there are numbers.
ShortPrograms == \A p \in Programs : Len(p.calls) <= SeqMax

LEMMA NumbersSuffice ==
  ASSUME ShortPrograms
  PROVE  CommandSpec => [](CallbackIsTrue /\ SettingsReadBack)
<1>1. CommandInit => PlainInv /\ NumberInv /\ NumbersLeft
  <2> SUFFICES ASSUME CommandInit PROVE NumbersLeft
    BY InitIsTrue
  <2>1. PICK p \in Programs : program = p.calls
    BY DEF CommandInit
  <2>2. Len(program) \in Nat /\ Len(program) <= SeqMax /\ SeqMax \in Nat
    BY <2>1, CommandAssumption DEF ShortPrograms
  <2>3. lastSeq = 1 /\ calls = <<>> /\ udp = {}
    BY DEF CommandInit
  <2> QED BY <2>2, <2>3 DEF NumbersLeft
<1>2. (PlainInv /\ NumberInv /\ NumbersLeft) /\ [CommandNext]_commandVars => (PlainInv /\ NumberInv /\ NumbersLeft)'
  <2> SUFFICES ASSUME PlainInv, NumberInv, NumbersLeft, [CommandNext]_commandVars
               PROVE  (PlainInv /\ NumberInv /\ NumbersLeft)'
    OBVIOUS
  <2>1. PlainInv' /\ CallsStay
    BY StepKeepsPlain
  <2>2. NumbersLeft' /\ NoReuse
    BY <2>1, NumbersGrow DEF PlainInv
  <2> QED BY <2>1, <2>2, StepKeepsNumbers
<1>3. PlainInv /\ NumberInv => CallbackIsTrue /\ SettingsReadBack
  BY InvMeans
<1> QED BY <1>1, <1>2, <1>3, PTL DEF CommandSpec

\* Of an application that makes at most UINT16_MAX calls, every callback is true:
\* "ok" is called back only for what the lidar obeyed, and a call to a Mid-360
\* calls back once (twice if it could not be sent).
THEOREM CallbacksAreTrue ==
  ASSUME ShortPrograms
  PROVE  CommandSpec => []CallbackIsTrue
<1>1. CallbackIsTrue /\ SettingsReadBack => CallbackIsTrue
  OBVIOUS
<1> QED BY <1>1, NumbersSuffice, PTL

\* What such an application reads of a setting, pushed or queried, is what was
\* set, or what was obeyed later (ParseLidarStateInfo and the key tables).
THEOREM SettingsAreReadBack ==
  ASSUME ShortPrograms
  PROVE  CommandSpec => []SettingsReadBack
<1>1. CallbackIsTrue /\ SettingsReadBack => SettingsReadBack
  OBVIOUS
<1> QED BY <1>1, NumbersSuffice, PTL

-----------------------------------------------------------------------------
(* The log files: packets, files and their names                           *)

\* A packet is what its place in the stream says.
LEMMA LogBagIs ==
  ASSUME NEW index \in 1..LogFiles, NEW trans \in 0..(LogPackets + 1)
  PROVE  /\ LogBag(index, trans) \in LogPacket
         /\ LogBag(index, trans).index = index /\ LogBag(index, trans).trans = trans
         /\ LogBag(index, trans).flag = "create" <=> trans = 0
         /\ LogBag(index, trans).flag = "end" <=> trans = LogPackets + 1
BY LoggerAssumption DEF LogPacket, LogBag

LEMMA PacketIs ==
  ASSUME NEW p \in LogPacket
  PROVE  /\ p.index \in 1..LogFiles /\ p.trans \in 0..(LogPackets + 1)
         /\ p = LogBag(p.index, p.trans) /\ p.flag \in {"create", "data", "end"}
         /\ p.flag = "create" <=> p.trans = 0
         /\ p.flag = "end" <=> p.trans = LogPackets + 1
         /\ p # Sent
<1>1. PICK index \in 1..LogFiles, trans \in 0..(LogPackets + 1) : p = LogBag(index, trans)
  BY DEF LogPacket
<1>2. p.index = index /\ p.trans = trans /\ p.flag \in {"create", "data", "end"}
  BY <1>1 DEF LogBag
<1>3. LogFiles \in Nat /\ Sent.index = LogFiles + 1
  BY LoggerAssumption DEF Sent
<1> QED BY <1>1, <1>2, <1>3, LogBagIs

\* p comes before x in the stream.
Later(p, x) == p.index < x.index \/ (p.index = x.index /\ p.trans < x.trans)

LEMMA AfterIs ==
  ASSUME NEW p \in LogPacket
  PROVE  /\ After(p) \in LogPacket \cup {Sent}
         /\ Later(p, After(p))
         /\ p.flag # "end" => After(p) = LogBag(p.index, p.trans + 1)
         /\ p.flag = "end" => After(p).flag \in {"create", "none"}
<1>1. /\ p.index \in 1..LogFiles /\ p.trans \in 0..(LogPackets + 1)
      /\ p.flag = "end" <=> p.trans = LogPackets + 1
  BY PacketIs
<1>2. LogFiles \in Nat /\ LogPackets \in Nat
  BY LoggerAssumption
<1>3. CASE p.flag # "end"
  <2>1. p.trans + 1 \in 0..(LogPackets + 1) /\ After(p) = LogBag(p.index, p.trans + 1)
    BY <1>1, <1>2, <1>3 DEF After
  <2> QED BY <1>1, <1>3, <2>1, LogBagIs DEF Later
<1>4. CASE p.flag = "end" /\ p.index < LogFiles
  <2>1. p.index + 1 \in 1..LogFiles /\ After(p) = LogBag(p.index + 1, 0) /\ 0 \in 0..(LogPackets + 1)
    BY <1>1, <1>2, <1>4 DEF After
  <2> QED BY <1>1, <1>4, <2>1, LogBagIs DEF Later
<1>5. CASE p.flag = "end" /\ ~(p.index < LogFiles)
  BY <1>1, <1>2, <1>5 DEF After, Later, Sent
<1> QED BY <1>3, <1>4, <1>5

LEMMA LaterIsOrder ==
  ASSUME NEW p, NEW x, NEW y, {p.index, x.index, y.index, p.trans, x.trans, y.trans} \subseteq Int,
         Later(p, x), Later(x, y)
  PROVE  Later(p, y)
BY DEF Later

Content == Seq(LogPacket)

Disk == DOMAIN disk \subseteq FileName /\ \A n \in DOMAIN disk : disk[n] \in Content

FileTypes ==
  /\ file.trans \in 0..(LogPackets + 1) /\ file.open \in BOOLEAN
  /\ file.open => file.name \in FileName /\ file.name.hidden /\ file.name.index = file.index
  /\ file = [trans |-> file.trans, index |-> file.index, open |-> file.open, name |-> file.name]

\* A file of its own name, or of the hidden one that was given its name.
LEMMA RenamedIs ==
  ASSUME NEW names \in SUBSET DOMAIN disk, Disk, \A n \in names : n.hidden
  PROVE  \A n \in DOMAIN Renamed(names) :
           \/ n \in DOMAIN disk \ names /\ Renamed(names)[n] = disk[n]
           \/ n \in FileName /\ ~n.hidden /\ \E m \in names : n = Shown(m) /\ Renamed(names)[n] = disk[m]
<1> TAKE n \in DOMAIN Renamed(names)
<1> DEFINE gone == {Shown(m) : m \in names}
<1>1. /\ n \in (DOMAIN disk \ names) \cup gone
      /\ Renamed(names)[n] = IF n \in gone THEN disk[[n EXCEPT !.hidden = TRUE]] ELSE disk[n]
  BY DEF Renamed
<1>2. CASE n \notin gone
  BY <1>1, <1>2
<1>3. CASE n \in gone
  <2>1. PICK m \in names : n = Shown(m)
    BY <1>3
  <2>2. m \in FileName /\ m.hidden
    BY DEF Disk
  <2>3. n \in FileName /\ ~n.hidden /\ [n EXCEPT !.hidden = TRUE] = m
    BY <2>1, <2>2 DEF Shown, FileName
  <2> QED BY <1>1, <1>3, <2>1, <2>3
<1> QED BY <1>2, <1>3

\* Nothing is renamed when no name is given.
LEMMA RenamedNone ==
  ASSUME Disk
  PROVE  DOMAIN Renamed({}) = DOMAIN disk /\ \A n \in DOMAIN disk : Renamed({})[n] = disk[n]
BY DEF Renamed

-----------------------------------------------------------------------------
(* What a file holds                                                       *)

\* Packets of one index that never go back, unless the file was created again.
Fits(s, index) ==
  /\ \A i \in DOMAIN s : s[i].index = index
  /\ \A i, j \in DOMAIN s :
       i < j => \/ s[i].trans <= s[j].trans
                \/ \E k \in (i + 1)..j : s[k].flag = "create"

\* Since it was created last, none is beyond trans.
UpTo(s, trans) ==
  \A i \in DOMAIN s : s[i].trans <= trans \/ \E k \in DOMAIN s : i < k /\ s[k].flag = "create"

GoodDisk(files) ==
  DOMAIN files \subseteq FileName /\ \A n \in DOMAIN files : files[n] \in Content /\ Fits(files[n], n.index)

LEMMA AppendFits ==
  ASSUME NEW s \in Content, NEW p \in LogPacket, Fits(s, p.index),
         p.flag = "create" \/ \E t \in Int : UpTo(s, t) /\ t <= p.trans
  PROVE  Append(s, p) \in Content /\ Fits(Append(s, p), p.index) /\ UpTo(Append(s, p), p.trans)
<1> DEFINE r == Append(s, p)
           n == Len(s) + 1
<1>1. /\ r \in Content /\ Len(s) \in Nat /\ DOMAIN s = 1..Len(s) /\ DOMAIN r = 1..n /\ r[n] = p
      /\ \A i \in DOMAIN s : r[i] = s[i]
  BY DEF Content
<1>2. /\ p.trans \in Int /\ \A i \in DOMAIN s : s[i].trans \in Int
  <2>1. \A i \in DOMAIN s : s[i] \in LogPacket
    BY DEF Content
  <2>2. \A x \in LogPacket : x.trans \in Int
    BY PacketIs, LoggerAssumption
  <2> QED BY <2>1, <2>2
<1> HIDE DEF r, n
<1>3. \A i \in DOMAIN s : s[i].trans <= p.trans \/ \E k \in (i + 1)..n : r[k].flag = "create"
  <2> TAKE i \in DOMAIN s
  <2>1. CASE p.flag = "create"
    <3>1. n \in (i + 1)..n /\ r[n].flag = "create"
      BY <1>1, <2>1 DEF n
    <3> QED BY <3>1
  <2>2. CASE \E t \in Int : UpTo(s, t) /\ t <= p.trans
    <3>1. PICK t \in Int : UpTo(s, t) /\ t <= p.trans
      BY <2>2
    <3>2. CASE s[i].trans <= t
      BY <1>2, <3>1, <3>2
    <3>3. CASE \E k \in DOMAIN s : i < k /\ s[k].flag = "create"
      <4>1. PICK k \in DOMAIN s : i < k /\ s[k].flag = "create"
        BY <3>3
      <4>2. k \in (i + 1)..n /\ r[k].flag = "create"
        BY <1>1, <4>1 DEF n
      <4> QED BY <4>2
    <3> QED BY <3>1, <3>2, <3>3 DEF UpTo
  <2> QED BY <2>1, <2>2
<1>4. \A i \in DOMAIN r : r[i].index = p.index
  BY <1>1 DEF Fits, n
<1>5. ASSUME NEW i \in DOMAIN r, NEW j \in DOMAIN r, i < j
      PROVE  r[i].trans <= r[j].trans \/ \E k \in (i + 1)..j : r[k].flag = "create"
  <2>1. CASE j = n
    <3>1. i \in DOMAIN s /\ r[i] = s[i] /\ r[j] = p
      BY <1>1, <1>5, <2>1 DEF n
    <3> QED BY <1>3, <2>1, <3>1
  <2>2. CASE j # n
    <3>1. i \in DOMAIN s /\ j \in DOMAIN s /\ r[i] = s[i] /\ r[j] = s[j]
      BY <1>1, <1>5, <2>2 DEF n
    <3>2. s[i].trans <= s[j].trans \/ \E k \in (i + 1)..j : s[k].flag = "create"
      BY <1>5, <3>1 DEF Fits
    <3>3. \A k \in (i + 1)..j : r[k] = s[k]
      BY <1>1, <3>1
    <3> QED BY <3>1, <3>2, <3>3
  <2> QED BY <2>1, <2>2
<1>6. ASSUME NEW i \in DOMAIN r
      PROVE  r[i].trans <= p.trans \/ \E k \in DOMAIN r : i < k /\ r[k].flag = "create"
  <2>1. CASE i = n
    BY <1>1, <1>2, <2>1
  <2>2. CASE i # n
    <3>1. i \in DOMAIN s /\ r[i] = s[i]
      BY <1>1, <2>2 DEF n
    <3>2. \A k \in (i + 1)..n : k \in DOMAIN r /\ i < k
      BY <1>1, <3>1 DEF n
    <3> QED BY <1>3, <3>1, <3>2
  <2> QED BY <2>1, <2>2
<1> QED BY <1>1, <1>4, <1>5, <1>6 DEF Fits, UpTo, r

\* Files that get their names, and a packet that is written.
LEMMA RenamedGood ==
  ASSUME GoodDisk(disk), NEW names \in SUBSET DOMAIN disk, \A n \in names : n.hidden
  PROVE  GoodDisk(Renamed(names))
<1>1. \A n \in DOMAIN Renamed(names) :
           \/ n \in DOMAIN disk \ names /\ Renamed(names)[n] = disk[n]
           \/ n \in FileName /\ ~n.hidden /\ \E m \in names : n = Shown(m) /\ Renamed(names)[n] = disk[m]
  <2>1. Disk
    BY DEF GoodDisk, Disk
  <2> QED BY <2>1, RenamedIs
<1>2. \A m \in FileName : Shown(m).index = m.index
  BY DEF Shown, FileName
<1>3. ASSUME NEW n \in DOMAIN Renamed(names)
      PROVE  n \in FileName /\ Renamed(names)[n] \in Content /\ Fits(Renamed(names)[n], n.index)
  <2>1. CASE n \in DOMAIN disk \ names /\ Renamed(names)[n] = disk[n]
    BY <2>1 DEF GoodDisk
  <2>2. ASSUME n \in FileName, NEW m \in names, n = Shown(m), Renamed(names)[n] = disk[m]
        PROVE  n \in FileName /\ Renamed(names)[n] \in Content /\ Fits(Renamed(names)[n], n.index)
    <3>1. m \in DOMAIN disk /\ m \in FileName
      BY DEF GoodDisk
    <3> QED BY <1>2, <2>2, <3>1 DEF GoodDisk
  <2> QED BY <1>1, <2>1, <2>2
<1> QED BY <1>3 DEF GoodDisk

LEMMA WhenClosedGood ==
  ASSUME GoodDisk(disk), FileTypes
  PROVE  GoodDisk(WhenClosed)
<1> DEFINE names == IF file.open THEN {file.name} \cap DOMAIN disk ELSE {}
<1>1. names \in SUBSET DOMAIN disk /\ (\A n \in names : n.hidden)
  BY DEF FileTypes
<1> HIDE DEF names
<1>2. GoodDisk(Renamed(names))
  BY <1>1, RenamedGood
<1> QED BY <1>2 DEF WhenClosed, names

LEMMA WrittenGood ==
  ASSUME NEW files, GoodDisk(files), NEW name \in FileName, NEW p \in LogPacket, name.index = p.index,
         p.flag = "create" \/ (name \in DOMAIN files => \E t \in Int : UpTo(files[name], t) /\ t <= p.trans)
  PROVE  GoodDisk(Written(files, name, p)) /\ UpTo(Written(files, name, p)[name], p.trans)
<1>1. /\ DOMAIN Written(files, name, p) = DOMAIN files \cup {name}
      /\ \A n \in DOMAIN files : n # name => Written(files, name, p)[n] = files[n]
      /\ name \in DOMAIN files => Written(files, name, p)[name] = Append(files[name], p)
      /\ name \notin DOMAIN files => Written(files, name, p)[name] = <<p>>
  BY Append(<<>>, p) = <<p>> DEF Written
<1>2. /\ Written(files, name, p)[name] \in Content /\ Fits(Written(files, name, p)[name], name.index)
      /\ UpTo(Written(files, name, p)[name], p.trans)
  <2>1. CASE name \in DOMAIN files
    BY <1>1, <2>1, AppendFits DEF GoodDisk
  <2>2. CASE name \notin DOMAIN files
    <3>1. p.trans \in Int
      BY PacketIs, LoggerAssumption
    <3>2. <<p>> \in Content /\ DOMAIN <<p>> = {1} /\ <<p>>[1] = p
      BY DEF Content
    <3> HIDE DEF Content
    <3> QED BY <1>1, <2>2, <3>1, <3>2 DEF Fits, UpTo
  <2> QED BY <2>1, <2>2
<1> QED BY <1>1, <1>2 DEF GoodDisk

-----------------------------------------------------------------------------
(* The types, and what the files hold                                      *)

WireTypes ==
  /\ logging \in {"on", "cycle", "writer", "rename", "off", "crashed"}
  /\ detected \in BOOLEAN
  /\ sending \in LogPacket \cup {Sent} /\ late \subseteq LogPacket
  /\ repeats \in 0..MaxRepeats /\ second \in 0..MaxSeconds
  /\ writing \in {"none", "runs", "stop"}
  /\ queue_ \in Content /\ batch \in Content

\* The file that is written is on the disk, until Destory has renamed it, and
\* holds nothing beyond the packet that was written last.
OpenFile ==
  /\ file.open /\ logging # "off" => file.name \in DOMAIN disk
  /\ file.open /\ file.name \in DOMAIN disk => UpTo(disk[file.name], file.trans)

FilesInv == WireTypes /\ FileTypes /\ GoodDisk(disk) /\ OpenFile

LEMMA InitHasFiles == LoggerInit => FilesInv
<1> SUFFICES ASSUME LoggerInit PROVE FilesInv
  OBVIOUS
<1>1. LogBag(1, 0) \in LogPacket \cup {Sent}
  <2>1. 1 \in 1..LogFiles /\ 0 \in 0..(LogPackets + 1)
    BY LoggerAssumption
  <2> QED BY <2>1 DEF LogPacket
<1>2. WireTypes
  <2>1. repeats \in 0..MaxRepeats /\ second \in 0..MaxSeconds
    BY LoggerAssumption DEF LoggerInit
  <2>2. queue_ \in Content /\ batch \in Content
    BY DEF LoggerInit, Content
  <2> QED BY <1>1, <2>1, <2>2 DEF LoggerInit, WireTypes
<1>3. FileTypes
  BY LoggerAssumption DEF LoggerInit, FileTypes, NoFile
<1>4. GoodDisk(disk) /\ OpenFile
  BY DEF LoggerInit, GoodDisk, OpenFile, NoFile
<1> QED BY <1>2, <1>3, <1>4 DEF FilesInv

\* The stream gives a packet, which is sent, or was.
LEMMA ArrivesTypes ==
  ASSUME WireTypes, NEW p \in LogPacket, Arrives(p)
  PROVE  sending' \in LogPacket \cup {Sent} /\ late' \subseteq LogPacket /\ repeats' \in 0..MaxRepeats
<1>1. After(p) \in LogPacket \cup {Sent}
  BY AfterIs
<1>2. repeats' = repeats \/ (repeats < MaxRepeats /\ repeats' = repeats + 1)
  BY DEF Arrives
<1>3. repeats' \in 0..MaxRepeats
  BY <1>2, LoggerAssumption DEF WireTypes
<1> QED BY <1>1, <1>3 DEF Arrives, WireTypes

\* What a step of the thread that receives does.
LEMMA ReceiveIs ==
  ASSUME ReceiveLog
  PROVE  \E p \in LogPacket :
           /\ Arrives(p)
           /\ \/ queue_' = queue_ /\ UNCHANGED writing /\ writing = "none"
              \/ queue_' = Append(queue_, p) /\ writing' = writing /\ writing # "none"
              \/ queue_' = Append(queue_, p) /\ writing = "none" /\ writing' = "runs" /\ p.flag = "create"
           /\ file' = file \/ file' = NoFile
           /\ file' # file => writing = "none"
           /\ logging' = logging \/ (logging # "off" /\ logging' = "crashed")
           /\ UNCHANGED <<detected, batch, disk, second>>
BY DEF ReceiveLog, OnLoggerCreate, OnLoggerRest, StoreLogBag

LEMMA ReceiveKeepsFiles ==
  ASSUME FilesInv, ReceiveLog
  PROVE  FilesInv'
<1>1. PICK p \in LogPacket :
           /\ Arrives(p)
           /\ queue_' = queue_ \/ queue_' = Append(queue_, p)
           /\ writing' \in {writing, "runs"}
           /\ file' = file \/ file' = NoFile
           /\ logging' = logging \/ (logging # "off" /\ logging' = "crashed")
           /\ UNCHANGED <<detected, batch, disk, second>>
  BY ReceiveIs
<1>2. sending' \in LogPacket \cup {Sent} /\ late' \subseteq LogPacket /\ repeats' \in 0..MaxRepeats
  BY <1>1, ArrivesTypes DEF FilesInv
<1>3. queue_' \in Content
  BY <1>1 DEF FilesInv, WireTypes, Content
<1>4. WireTypes'
  BY <1>1, <1>2, <1>3 DEF FilesInv, WireTypes
<1>5. FileTypes' /\ OpenFile'
  <2>1. CASE file' = file
    BY <1>1, <2>1 DEF FilesInv, FileTypes, OpenFile
  <2>2. CASE file' = NoFile
    BY <2>2, LoggerAssumption DEF FileTypes, OpenFile, NoFile
  <2> QED BY <1>1, <2>1, <2>2
<1> QED BY <1>1, <1>4, <1>5 DEF FilesInv

LEMMA HeadIs ==
  ASSUME WireTypes, batch # <<>>
  PROVE  Head(batch) \in LogPacket /\ Tail(batch) \in Content /\ Head(batch) = batch[1] /\ 1 \in DOMAIN batch
BY HeadTailProperties DEF WireTypes, Content

LEMMA WriteKeepsFiles ==
  ASSUME FilesInv, WritePacket
  PROVE  FilesInv'
<1> DEFINE p == Head(batch)
<1>1. /\ batch # <<>> /\ ~Stale(p) /\ batch' = Tail(batch)
      /\ UNCHANGED <<logging, detected, sending, late, repeats, writing, queue_>>
  BY DEF WritePacket, Spins, wireVars
<1>2. p \in LogPacket /\ batch' \in Content
  BY <1>1, HeadIs DEF FilesInv
<1>3. CASE p.flag = "create" /\ CreateFile(p)
  <2>1. PICK now \in second..MaxSeconds :
          LET name == [hidden |-> TRUE, second |-> now, index |-> p.index]
          IN /\ second' = now
             /\ disk' = Written(WhenClosed, name, p)
             /\ file' = [trans |-> p.trans, index |-> p.index, open |-> TRUE, name |-> name]
    BY <1>3 DEF CreateFile
  <2> DEFINE name == [hidden |-> TRUE, second |-> now, index |-> p.index]
  <2>2. name \in FileName /\ name.index = p.index /\ name.hidden /\ p.trans \in 0..(LogPackets + 1)
        /\ now \in 0..MaxSeconds
    BY <1>2, PacketIs, LoggerAssumption DEF FilesInv, WireTypes, FileName
  <2>3. GoodDisk(Written(WhenClosed, name, p)) /\ UpTo(Written(WhenClosed, name, p)[name], p.trans)
    BY <1>2, <1>3, <2>2, WhenClosedGood, WrittenGood DEF FilesInv
  <2>4. name \in DOMAIN Written(WhenClosed, name, p)
    BY DEF Written
  <2>5. /\ second' = now /\ disk' = Written(WhenClosed, name, p)
        /\ file' = [trans |-> p.trans, index |-> p.index, open |-> TRUE, name |-> name]
    BY <2>1
  <2> HIDE DEF name, p
  <2>6. FileTypes'
    BY <2>2, <2>5 DEF FileTypes
  <2>7. OpenFile' /\ GoodDisk(disk)'
    BY <2>3, <2>4, <2>5 DEF OpenFile, GoodDisk
  <2> QED BY <1>1, <1>2, <2>2, <2>5, <2>6, <2>7 DEF FilesInv, WireTypes
<1>4. CASE p.flag = "data" /\ WriteFile(p) /\ UNCHANGED second
  <2>1. CASE file.index # p.index
    BY <1>1, <1>2, <1>4, <2>1 DEF WriteFile, FilesInv, WireTypes, FileTypes, GoodDisk, OpenFile
  <2>2. CASE file.index = p.index /\ ~file.open
    <3>1. disk' = disk /\ file' = [file EXCEPT !.trans = p.trans]
      BY <1>4, <2>2 DEF WriteFile
    <3>2. p.trans \in 0..(LogPackets + 1)
      BY <1>2, PacketIs
    <3> HIDE DEF p
    <3>3. file'.trans = p.trans /\ file'.index = file.index /\ file'.open = file.open /\ file'.name = file.name
          /\ file' = [trans |-> file'.trans, index |-> file'.index, open |-> file'.open, name |-> file'.name]
      BY <3>1 DEF FilesInv, FileTypes
    <3>4. FileTypes' /\ OpenFile'
      BY <2>2, <3>1, <3>2, <3>3 DEF FilesInv, FileTypes, OpenFile
    <3> QED BY <1>1, <1>2, <1>4, <3>1, <3>4 DEF FilesInv, WireTypes, GoodDisk
  <2>3. CASE file.index = p.index /\ file.open
    <3>1. disk' = Written(disk, file.name, p) /\ file' = [file EXCEPT !.trans = p.trans]
      BY <1>4, <2>3 DEF WriteFile
    <3>2. p.trans \in 0..(LogPackets + 1) /\ p.trans >= file.trans /\ file.trans \in Int
      BY <1>1, <1>2, <1>4, PacketIs, LoggerAssumption DEF Stale, FilesInv, FileTypes
    <3>3. file.name \in FileName /\ file.name.index = p.index
      BY <2>3 DEF FilesInv, FileTypes
    <3>4. file.name \in DOMAIN disk => \E t \in Int : UpTo(disk[file.name], t) /\ t <= p.trans
      BY <2>3, <3>2 DEF FilesInv, OpenFile
    <3>5. GoodDisk(Written(disk, file.name, p)) /\ UpTo(Written(disk, file.name, p)[file.name], p.trans)
      BY <1>2, <3>3, <3>4, WrittenGood DEF FilesInv
    <3>6. file.name \in DOMAIN Written(disk, file.name, p)
      BY DEF Written
    <3> HIDE DEF p
    <3>7. file'.trans = p.trans /\ file'.index = file.index /\ file'.open = file.open /\ file'.name = file.name
          /\ file' = [trans |-> file'.trans, index |-> file'.index, open |-> file'.open, name |-> file'.name]
      BY <3>1 DEF FilesInv, FileTypes
    <3>8. FileTypes' /\ OpenFile' /\ GoodDisk(disk)'
      BY <2>3, <3>1, <3>2, <3>5, <3>6, <3>7 DEF FilesInv, FileTypes, OpenFile, GoodDisk
    <3> QED BY <1>1, <1>2, <1>4, <3>8 DEF FilesInv, WireTypes
  <2> QED BY <2>1, <2>2, <2>3 DEF FilesInv, FileTypes
<1>5. CASE StopFile(p) /\ UNCHANGED second
  <2>1. disk' = WhenClosed /\ file' = [file EXCEPT !.open = FALSE, !.trans = p.trans]
    BY <1>5 DEF StopFile
  <2>2. p.trans \in 0..(LogPackets + 1)
    BY <1>2, PacketIs
  <2>3. GoodDisk(disk)'
    BY <2>1, WhenClosedGood DEF FilesInv, GoodDisk
  <2> HIDE DEF p
  <2>4. file'.trans = p.trans /\ file'.index = file.index /\ file'.open = FALSE /\ file'.name = file.name
        /\ file' = [trans |-> file'.trans, index |-> file'.index, open |-> file'.open, name |-> file'.name]
    BY <2>1 DEF FilesInv, FileTypes
  <2>5. FileTypes' /\ OpenFile'
    BY <2>2, <2>4 DEF FileTypes, OpenFile
  <2> QED BY <1>1, <1>2, <1>5, <2>3, <2>5 DEF FilesInv, WireTypes
<1>6. \/ p.flag = "create" /\ CreateFile(p)
      \/ p.flag = "data" /\ WriteFile(p) /\ UNCHANGED second
      \/ StopFile(p) /\ UNCHANGED second
  BY <1>2, PacketIs DEF WritePacket
<1> QED BY <1>3, <1>4, <1>5, <1>6

LEMMA DeleteKeepsFiles ==
  ASSUME FilesInv, CycleDelete
  PROVE  FilesInv'
<1>1. PICK gone \in SUBSET FilesToDelete : disk' = [n \in DOMAIN disk \ gone |-> disk[n]]
  BY DEF CycleDelete
<1>2. UNCHANGED <<logging, detected, sending, late, repeats, writing, queue_, batch, file, second>>
  BY DEF CycleDelete, wireVars, writerVars
<1>3. \A n \in gone : ~n.hidden
  BY DEF FilesToDelete
<1>4. GoodDisk(disk)'
  BY <1>1 DEF FilesInv, GoodDisk
<1>5. OpenFile' /\ FileTypes'
  BY <1>1, <1>2, <1>3 DEF FilesInv, OpenFile, FileTypes
<1> QED BY <1>2, <1>4, <1>5 DEF FilesInv, WireTypes

LEMMA DestoryKeepsFiles ==
  ASSUME FilesInv, Destory \/ DestoryStep
  PROVE  FilesInv'
<1>1. CASE Destory \/ JoinCycleDelete \/ StopHandler
  <2>1. /\ UNCHANGED <<detected, sending, late, repeats, queue_, batch, file, disk, second>>
        /\ logging' \in {"cycle", "writer"} /\ logging # "off" /\ writing' \in {writing, "stop"}
    BY <1>1 DEF Destory, JoinCycleDelete, StopHandler, StopWrite, Stage, wireVars, writerVars
  <2> QED BY <2>1 DEF FilesInv, WireTypes, FileTypes, GoodDisk, OpenFile
<1>2. CASE ClearHandlers
  <2>1. /\ UNCHANGED <<detected, sending, late, repeats, batch, disk, second>>
        /\ logging' = "rename" /\ writing' = "none" /\ queue_' = <<>> /\ file' = NoFile
    BY <1>2 DEF ClearHandlers, Stage, wireVars
  <2>2. queue_' \in Content
    BY <2>1 DEF Content
  <2>3. FileTypes' /\ OpenFile'
    BY <2>1, LoggerAssumption DEF FileTypes, OpenFile, NoFile
  <2> QED BY <2>1, <2>2, <2>3 DEF FilesInv, WireTypes, GoodDisk
<1>3. CASE ChangeHiddenFiles
  <2>1. /\ UNCHANGED <<detected, sending, late, repeats, writing, queue_, batch, file, second>>
        /\ logging' = "off" /\ disk' = Renamed({n \in DOMAIN disk : n.hidden})
    BY <1>3 DEF ChangeHiddenFiles, Stage, wireVars, writerVars
  <2> DEFINE names == {n \in DOMAIN disk : n.hidden}
  <2>2. GoodDisk(Renamed(names))
    BY RenamedGood DEF FilesInv
  <2>3. GoodDisk(disk)'
    BY <2>1, <2>2 DEF GoodDisk
  <2>4. ASSUME file.open, file.name \in DOMAIN Renamed(names) PROVE FALSE
    <3>1. file.name.hidden
      BY <2>4 DEF FilesInv, FileTypes
    <3>2. Disk /\ names \in SUBSET DOMAIN disk /\ (\A n \in names : n.hidden)
      BY DEF FilesInv, GoodDisk, Disk
    <3> HIDE DEF names
    <3>3. file.name \in DOMAIN disk \ names
      BY <2>4, <3>1, <3>2, RenamedIs
    <3> QED BY <3>1, <3>3 DEF names
  <2>5. OpenFile' /\ FileTypes'
    BY <2>1, <2>4 DEF FilesInv, OpenFile, FileTypes
  <2> QED BY <2>1, <2>3, <2>5 DEF FilesInv, WireTypes
<1> QED BY <1>1, <1>2, <1>3 DEF DestoryStep

LEMMA StepKeepsFiles == FilesInv /\ [LoggerNext]_loggerVars => FilesInv'
<1> SUFFICES ASSUME FilesInv, [LoggerNext]_loggerVars PROVE FilesInv'
  OBVIOUS
<1>1. CASE AddDevice \/ UNCHANGED loggerVars
  BY <1>1 DEF AddDevice, loggerVars, wireVars, writerVars, FilesInv, WireTypes, FileTypes, GoodDisk, OpenFile
<1>2. CASE SwapQueue
  <2>1. /\ UNCHANGED <<logging, detected, sending, late, repeats, writing, file, disk, second>>
        /\ batch' = queue_ /\ queue_' = <<>>
    BY <1>2 DEF SwapQueue, wireVars
  <2>2. queue_' \in Content
    BY <2>1 DEF Content
  <2> QED BY <2>1, <2>2 DEF FilesInv, WireTypes, FileTypes, GoodDisk, OpenFile
<1> QED BY <1>1, <1>2, ReceiveKeepsFiles, WriteKeepsFiles, DeleteKeepsFiles, DestoryKeepsFiles
   DEF LoggerNext, WriterThread

LEMMA FilesMean == FilesInv => LoggerTypeOK
BY DEF FilesInv, WireTypes, FileTypes, GoodDisk, Content, LoggerTypeOK

\* The types of the loggers' state, whatever is repeated, lost or stopped.
THEOREM LoggerTypes == LoggerSpec => []LoggerTypeOK
<1> QED BY InitHasFiles, StepKeepsFiles, FilesMean, PTL DEF LoggerSpec

-----------------------------------------------------------------------------
(* The files that are whole: as long as no packet was repeated, what the   *)
(* lidar sends, what is queued and what the thread writes are one stream,  *)
(* and the thread is in it where the file that is open ends.               *)

\* Every packet of s is followed by the next one of the stream, the last by next.
Chained(s, next) == \A i \in DOMAIN s : After(s[i]) = IF i = Len(s) THEN next ELSE s[i + 1]

First(s, next) == IF s = <<>> THEN next ELSE s[1]

\* What the thread is going to look at next.
NextPacket == First(batch, First(queue_, sending))

Sorted(s) == \A i, j \in DOMAIN s : i < j => Later(s[i], s[j])
AllBefore(s, x) == \A i \in DOMAIN s : Later(s[i], x)

InOrder ==
  /\ Sorted(batch) /\ Sorted(queue_) /\ AllBefore(batch, sending) /\ AllBefore(queue_, sending)
  /\ \A j \in DOMAIN queue_ : AllBefore(batch, queue_[j])

\* A file was created before packet x.
CreatedBefore(n, x) == Later([index |-> n.index, trans |-> 0], x)

FilesBefore ==
  \A n \in DOMAIN disk :
    /\ CreatedBefore(n, sending)
    /\ \A i \in DOMAIN batch : CreatedBefore(n, batch[i])
    /\ \A i \in DOMAIN queue_ : CreatedBefore(n, queue_[i])

\* The packets of a file up to the one of number trans.
Packets(index, trans) == [i \in 1..(trans + 1) |-> LogBag(index, i - 1)]

WriterIsThere ==
  /\ writing = "none" => batch = <<>> /\ queue_ = <<>> /\ ~file.open
  /\ ~file.open /\ writing # "none" => NextPacket.flag \in {"create", "none"}
  /\ file.open => /\ file.trans <= LogPackets /\ file.index \in 1..LogFiles
                  /\ NextPacket = LogBag(file.index, file.trans + 1)
                  /\ disk[file.name] = Packets(file.index, file.trans)

ShownAreWhole == \A n \in DOMAIN disk : ~n.hidden => disk[n] = Packets(n.index, LogPackets)

OneStream ==
  /\ late = {} /\ InOrder /\ FilesBefore
  /\ Chained(batch, First(queue_, sending)) /\ Chained(queue_, sending)
  /\ WriterIsThere /\ ShownAreWhole

StreamInv == repeats = 0 /\ logging # "off" => OneStream

LEMMA ChainAppend ==
  ASSUME NEW s \in Content, NEW p, Chained(s, p)
  PROVE  /\ Chained(Append(s, p), After(p))
         /\ \A x : First(Append(s, p), x) = First(s, p)
<1> DEFINE r == Append(s, p)
<1>1. /\ Len(s) \in Nat /\ Len(r) = Len(s) + 1 /\ DOMAIN s = 1..Len(s) /\ DOMAIN r = 1..Len(r)
      /\ r[Len(r)] = p /\ \A i \in DOMAIN s : r[i] = s[i]
  BY DEF Content
<1>2. r # <<>> /\ (s = <<>> => Len(s) = 0) /\ (s # <<>> => 1 \in DOMAIN s)
  BY DEF Content
<1> HIDE DEF r
<1> QED BY <1>1, <1>2 DEF Chained, First, r

LEMMA ChainTail ==
  ASSUME NEW s \in Content, NEW next, s # <<>>, Chained(s, next)
  PROVE  Chained(Tail(s), next) /\ First(Tail(s), next) = After(s[1])
<1> DEFINE r == Tail(s)
<1>1. /\ Len(s) \in Nat /\ Len(s) >= 1 /\ Len(r) = Len(s) - 1 /\ DOMAIN s = 1..Len(s) /\ DOMAIN r = 1..Len(r)
      /\ \A i \in DOMAIN r : r[i] = s[i + 1]
  BY DEF Content
<1>2. r = <<>> <=> Len(r) = 0
  <2>1. r \in Seq(LogPacket)
    BY HeadTailProperties DEF Content
  <2> HIDE DEF r
  <2> QED BY <2>1, EmptySeq
<1> HIDE DEF r
<1>3. Chained(r, next)
  BY <1>1 DEF Chained
<1>4. First(r, next) = After(s[1])
  BY <1>1, <1>2 DEF Chained, First
<1> QED BY <1>3, <1>4 DEF r

LEMMA PlacesAreNumbers ==
  ASSUME WireTypes
  PROVE  /\ sending.index \in Int /\ sending.trans \in Int
         /\ \A i \in DOMAIN batch : batch[i].index \in Int /\ batch[i].trans \in Int
         /\ \A i \in DOMAIN queue_ : queue_[i].index \in Int /\ queue_[i].trans \in Int
<1>1. \A p \in LogPacket : p.index \in Int /\ p.trans \in Int
  BY PacketIs, LoggerAssumption
<1>2. Sent.index \in Int /\ Sent.trans \in Int
  BY LoggerAssumption DEF Sent
<1>3. /\ \A i \in DOMAIN batch : batch[i] \in LogPacket
      /\ \A i \in DOMAIN queue_ : queue_[i] \in LogPacket
  BY DEF WireTypes, Content
<1> QED BY <1>1, <1>2, <1>3 DEF WireTypes

LEMMA ArrivesOnce ==
  ASSUME WireTypes, late = {}, repeats = 0, repeats' = 0, NEW p \in LogPacket, Arrives(p)
  PROVE  p = sending /\ sending' = After(p) /\ late' = {}
BY DEF Arrives

\* What is behind p in the stream is behind whatever is before p.
LEMMA AfterStays ==
  ASSUME NEW p \in LogPacket, NEW x, x.index \in Int, x.trans \in Int, Later(x, p)
  PROVE  Later(x, After(p))
<1>1. p.index \in Int /\ p.trans \in Int
  BY PacketIs, LoggerAssumption
<1>2. After(p).index \in Int /\ After(p).trans \in Int
  <2>1. \A q \in LogPacket : q.index \in Int /\ q.trans \in Int
    BY PacketIs, LoggerAssumption
  <2>2. Sent.index \in Int /\ Sent.trans \in Int
    BY LoggerAssumption DEF Sent
  <2> QED BY <2>1, <2>2, AfterIs
<1>3. Later(p, After(p))
  BY AfterIs
<1> QED BY <1>1, <1>2, <1>3, LaterIsOrder

\* The stream grows at its end, whether the packet is queued or there is no
\* handler to queue it.
LEMMA ReceiveKeepsStream ==
  ASSUME FilesInv, StreamInv, ReceiveLog
  PROVE  StreamInv'
<1> SUFFICES ASSUME repeats' = 0, logging' # "off" PROVE OneStream'
  BY DEF StreamInv
<1>1. PICK p \in LogPacket :
           /\ Arrives(p)
           /\ \/ queue_' = queue_ /\ UNCHANGED writing /\ writing = "none"
              \/ queue_' = Append(queue_, p) /\ writing' = writing /\ writing # "none"
              \/ queue_' = Append(queue_, p) /\ writing = "none" /\ writing' = "runs" /\ p.flag = "create"
           /\ file' = file \/ file' = NoFile
           /\ file' # file => writing = "none"
           /\ logging' = logging \/ (logging # "off" /\ logging' = "crashed")
           /\ UNCHANGED <<detected, batch, disk, second>>
  BY ReceiveIs
<1>2. repeats = 0 /\ logging # "off"
  BY <1>1, LoggerAssumption DEF Arrives, FilesInv, WireTypes
<1>3. OneStream
  BY <1>2 DEF StreamInv
<1>4. WireTypes /\ late = {}
  BY <1>3 DEF FilesInv, OneStream
<1>5. p = sending /\ sending' = After(p) /\ late' = {}
  BY <1>1, <1>2, <1>4, ArrivesOnce
<1>6. /\ \A i \in DOMAIN batch : batch[i].index \in Int /\ batch[i].trans \in Int
      /\ \A i \in DOMAIN queue_ : queue_[i].index \in Int /\ queue_[i].trans \in Int
      /\ queue_ \in Content
  BY <1>4, PlacesAreNumbers DEF WireTypes
<1>7. AllBefore(batch, After(p)) /\ AllBefore(queue_, After(p)) /\ Later(p, After(p))
  BY <1>3, <1>5, <1>6, AfterStays, AfterIs DEF OneStream, InOrder, AllBefore
<1>8. \A n \in DOMAIN disk : CreatedBefore(n, After(p))
  <2> TAKE n \in DOMAIN disk
  <2>1. n \in FileName
    BY DEF FilesInv, GoodDisk
  <2>2. n.index \in Int
    BY <2>1, LoggerAssumption DEF FileName
  <2>3. Later([index |-> n.index, trans |-> 0], p)
    BY <1>3, <1>5 DEF OneStream, FilesBefore, CreatedBefore
  <2> QED BY <2>2, <2>3, AfterStays DEF CreatedBefore
<1>9. ShownAreWhole'
  BY <1>1, <1>3 DEF OneStream, ShownAreWhole
<1>10. CASE queue_' = queue_ /\ UNCHANGED writing /\ writing = "none"
  <2>1. batch = <<>> /\ queue_ = <<>> /\ ~file.open
    BY <1>3, <1>10 DEF OneStream, WriterIsThere
  <2>2. batch' = <<>> /\ queue_' = <<>> /\ ~file'.open
    BY <1>1, <1>10, <2>1 DEF NoFile
  <2>3. InOrder' /\ FilesBefore'
    BY <1>1, <1>5, <1>8, <2>2 DEF InOrder, FilesBefore, Sorted, AllBefore, CreatedBefore
  <2>4. Chained(batch, First(queue_, sending))' /\ Chained(queue_, sending)'
    BY <2>2 DEF Chained
  <2>5. WriterIsThere'
    BY <1>10, <2>2 DEF WriterIsThere
  <2> QED BY <1>5, <1>9, <2>3, <2>4, <2>5 DEF OneStream
<1>11. CASE /\ queue_' = Append(queue_, p)
             /\ \/ writing' = writing /\ writing # "none"
                \/ writing = "none" /\ writing' = "runs" /\ p.flag = "create"
  <2>1. /\ Len(queue_) \in Nat /\ DOMAIN queue_ = 1..Len(queue_) /\ DOMAIN queue_' = 1..(Len(queue_) + 1)
        /\ queue_'[Len(queue_) + 1] = p /\ \A i \in DOMAIN queue_ : queue_'[i] = queue_[i]
    BY <1>6, <1>11 DEF Content
  <2>2. Sorted(queue_)' /\ AllBefore(queue_, sending)'
    BY <1>3, <1>5, <1>7, <2>1 DEF OneStream, InOrder, Sorted, AllBefore
  <2>3. Sorted(batch)' /\ AllBefore(batch, sending)'
    BY <1>1, <1>3, <1>5, <1>7 DEF OneStream, InOrder, Sorted, AllBefore
  <2>4. \A j \in DOMAIN queue_' : AllBefore(batch, queue_[j])'
    <3> TAKE j \in DOMAIN queue_'
    <3>1. CASE j \in DOMAIN queue_
      BY <1>1, <1>3, <2>1, <3>1 DEF OneStream, InOrder, AllBefore
    <3>2. CASE j = Len(queue_) + 1
      <4>1. AllBefore(batch, p) /\ queue_'[j] = p
        BY <1>3, <1>5, <2>1, <3>2 DEF OneStream, InOrder
      <4> QED BY <1>1, <4>1 DEF AllBefore
    <3> QED BY <2>1, <3>1, <3>2
  <2>5. InOrder'
    BY <2>2, <2>3, <2>4 DEF InOrder
  <2>6. FilesBefore'
    <3>1. ASSUME NEW n \in DOMAIN disk, NEW i \in DOMAIN queue_' PROVE CreatedBefore(n, queue_[i])'
      <4>1. CASE i \in DOMAIN queue_
        BY <1>3, <2>1, <4>1 DEF OneStream, FilesBefore, CreatedBefore
      <4>2. CASE i = Len(queue_) + 1
        <5>1. CreatedBefore(n, p) /\ queue_'[i] = p
          BY <1>3, <1>5, <2>1, <4>2 DEF OneStream, FilesBefore
        <5> QED BY <5>1 DEF CreatedBefore
      <4> QED BY <2>1, <4>1, <4>2
    <3>2. \A n \in DOMAIN disk : \A i \in DOMAIN batch : CreatedBefore(n, batch[i])
      BY <1>3 DEF OneStream, FilesBefore
    <3> QED BY <1>1, <1>5, <1>8, <3>1, <3>2 DEF FilesBefore, CreatedBefore
  <2>7. Chained(queue_', After(p)) /\ \A x : First(queue_', x) = First(queue_, p)
    BY <1>3, <1>5, <1>6, <1>11, ChainAppend DEF OneStream
  <2>8. First(queue_', sending') = First(queue_, sending)
    BY <1>5, <2>7
  <2>9. Chained(queue_, sending)' /\ Chained(batch, First(queue_, sending))'
    BY <1>1, <1>3, <1>5, <2>7, <2>8 DEF OneStream, Chained, First
  <2>10. NextPacket' = NextPacket
    BY <1>1, <2>8 DEF NextPacket, First
  <2>11. WriterIsThere'
    <3>1. CASE writing # "none"
      <4>1. file' = file /\ writing' # "none"
        BY <1>1, <1>11, <3>1
      <4> QED BY <1>1, <1>3, <2>10, <3>1, <4>1 DEF OneStream, WriterIsThere
    <3>2. CASE writing = "none"
      <4>1. batch = <<>> /\ queue_ = <<>> /\ ~file.open
        BY <1>3, <3>2 DEF OneStream, WriterIsThere
      <4>2. ~file'.open /\ writing' # "none"
        BY <1>1, <1>11, <3>2, <4>1 DEF NoFile
      <4>3. NextPacket = p
        BY <1>5, <4>1 DEF NextPacket, First
      <4> QED BY <1>11, <2>10, <3>2, <4>2, <4>3 DEF WriterIsThere
    <3> QED BY <3>1, <3>2
  <2> QED BY <1>5, <1>9, <2>5, <2>6, <2>9, <2>11 DEF OneStream
<1> QED BY <1>1, <1>10, <1>11

LEMMA SwapKeepsStream ==
  ASSUME FilesInv, StreamInv, SwapQueue
  PROVE  StreamInv'
<1>1. /\ UNCHANGED <<logging, sending, late, repeats, writing, file, disk>>
      /\ batch = <<>> /\ queue_ # <<>> /\ batch' = queue_ /\ queue_' = <<>> /\ writing = "runs"
  BY DEF SwapQueue, wireVars
<1> SUFFICES ASSUME OneStream PROVE OneStream'
  BY <1>1 DEF StreamInv
<1>2. InOrder' /\ FilesBefore'
  BY <1>1 DEF OneStream, InOrder, Sorted, AllBefore, FilesBefore, CreatedBefore
<1>3. First(queue_', sending') = sending /\ First(queue_, sending) = queue_[1] /\ NextPacket' = NextPacket
  BY <1>1 DEF First, NextPacket
<1>4. Chained(batch, First(queue_, sending))' /\ Chained(queue_, sending)'
  BY <1>1, <1>3 DEF OneStream, Chained, First
<1>5. WriterIsThere' /\ ShownAreWhole'
  BY <1>1, <1>3 DEF OneStream, WriterIsThere, ShownAreWhole
<1> QED BY <1>1, <1>2, <1>4, <1>5 DEF OneStream

LEMMA DeleteKeepsStream ==
  ASSUME FilesInv, StreamInv, CycleDelete
  PROVE  StreamInv'
<1>1. PICK gone \in SUBSET FilesToDelete : disk' = [n \in DOMAIN disk \ gone |-> disk[n]]
  BY DEF CycleDelete
<1>2. UNCHANGED <<logging, detected, sending, late, repeats, writing, queue_, batch, file, second>>
  BY DEF CycleDelete, wireVars, writerVars
<1> SUFFICES ASSUME OneStream, logging # "off" PROVE OneStream'
  BY <1>2 DEF StreamInv
<1>3. /\ DOMAIN disk' \subseteq DOMAIN disk /\ \A n \in DOMAIN disk' : disk'[n] = disk[n]
  BY <1>1
<1>4. file.open => file.name \in DOMAIN disk'
  BY <1>1 DEF FilesInv, FileTypes, OpenFile, FilesToDelete
<1>5. InOrder' /\ FilesBefore' /\ ShownAreWhole'
  BY <1>2, <1>3 DEF OneStream, InOrder, Sorted, AllBefore, FilesBefore, CreatedBefore, ShownAreWhole
<1>6. NextPacket' = NextPacket /\ Chained(batch, First(queue_, sending))' /\ Chained(queue_, sending)'
  BY <1>2 DEF OneStream, NextPacket, First, Chained
<1>7. WriterIsThere'
  BY <1>2, <1>3, <1>4, <1>6 DEF OneStream, WriterIsThere
<1> QED BY <1>2, <1>5, <1>6, <1>7 DEF OneStream

\* The queue that is thrown away leaves the stream at the packet the lidar sends.
LEMMA ClearKeepsStream ==
  ASSUME FilesInv, StreamInv, ClearHandlers
  PROVE  StreamInv'
<1>1. /\ UNCHANGED <<sending, late, repeats, batch, disk>>
      /\ writing = "none" \/ batch = <<>>
      /\ logging = "writer" /\ writing' = "none" /\ queue_' = <<>> /\ file' = NoFile
  BY DEF ClearHandlers, Stage, wireVars
<1> SUFFICES ASSUME OneStream PROVE OneStream'
  BY <1>1 DEF StreamInv
<1>2. batch' = <<>> /\ ~file'.open
  BY <1>1 DEF OneStream, WriterIsThere, NoFile
<1>3. InOrder' /\ FilesBefore' /\ ShownAreWhole'
  BY <1>1, <1>2 DEF OneStream, InOrder, Sorted, AllBefore, FilesBefore, CreatedBefore, ShownAreWhole
<1>4. Chained(batch, First(queue_, sending))' /\ Chained(queue_, sending)'
  BY <1>1, <1>2 DEF Chained
<1>5. WriterIsThere'
  BY <1>1, <1>2 DEF WriterIsThere
<1> QED BY <1>1, <1>3, <1>4, <1>5 DEF OneStream

\* The packet that is written is the first of the batch; the rest is behind it.
LEMMA BatchGoesOn ==
  ASSUME FilesInv, OneStream, batch # <<>>, batch' = Tail(batch), UNCHANGED <<sending, late, queue_>>
  PROVE  /\ NextPacket = Head(batch) /\ NextPacket' = After(Head(batch))
         /\ InOrder' /\ Chained(batch, First(queue_, sending))' /\ Chained(queue_, sending)'
         /\ Later(Head(batch), sending')
         /\ \A i \in DOMAIN batch' : Later(Head(batch), batch'[i])
         /\ \A i \in DOMAIN queue_' : Later(Head(batch), queue_'[i])
         /\ \A i \in DOMAIN batch' : i + 1 \in DOMAIN batch /\ batch'[i] = batch[i + 1]
<1>1. /\ batch \in Content /\ Head(batch) = batch[1] /\ Len(batch) \in Nat /\ Len(batch) >= 1
      /\ DOMAIN batch = 1..Len(batch) /\ DOMAIN batch' = 1..(Len(batch) - 1)
      /\ \A i \in DOMAIN batch' : batch'[i] = batch[i + 1]
  BY DEF FilesInv, WireTypes, Content
<1>2. Chained(batch', First(queue_, sending)) /\ First(batch', First(queue_, sending)) = After(batch[1])
  BY <1>1, ChainTail DEF OneStream
<1>3. NextPacket = Head(batch) /\ NextPacket' = After(Head(batch))
  BY <1>1, <1>2 DEF NextPacket, First
<1>4. Chained(batch, First(queue_, sending))' /\ Chained(queue_, sending)'
  BY <1>2 DEF OneStream, Chained, First
<1>5. InOrder'
  BY <1>1 DEF OneStream, InOrder, Sorted, AllBefore
<1>6. /\ Later(Head(batch), sending')
      /\ \A i \in DOMAIN batch' : Later(Head(batch), batch'[i])
      /\ \A i \in DOMAIN queue_' : Later(Head(batch), queue_'[i])
  BY <1>1 DEF OneStream, InOrder, Sorted, AllBefore
<1>7. \A i \in DOMAIN batch' : i + 1 \in DOMAIN batch /\ batch'[i] = batch[i + 1]
  BY <1>1
<1> QED BY <1>3, <1>4, <1>5, <1>6, <1>7

LEMMA PacketsGrow ==
  ASSUME NEW index \in 1..LogFiles, NEW trans \in 0..LogPackets
  PROVE  /\ Append(Packets(index, trans), LogBag(index, trans + 1)) = Packets(index, trans + 1)
         /\ Packets(index, 0) = <<LogBag(index, 0)>>
<1>1. trans \in Nat /\ LogPackets \in Nat
  BY LoggerAssumption
<1>2. Packets(index, trans) = [i \in 1..(trans + 1) |-> LogBag(index, i - 1)]
  BY DEF Packets
<1>3. Packets(index, trans) \in Seq({LogBag(index, i - 1) : i \in 1..(trans + 1)}) /\ Len(Packets(index, trans)) = trans + 1
  <2> DEFINE S == {LogBag(index, i - 1) : i \in 1..(trans + 1)}
  <2>1. Packets(index, trans) \in [1..(trans + 1) -> S]
    BY <1>2
  <2> HIDE DEF S
  <2>2. Packets(index, trans) \in Seq(S)
    <3>1. \E n \in Nat : Packets(index, trans) \in [1..n -> S]
      BY <1>1, <2>1
    <3> QED BY <3>1, SeqDef
  <2>3. Len(Packets(index, trans)) = trans + 1
    BY <1>1, <2>1, <2>2, LenProperties
  <2> QED BY <2>2, <2>3 DEF S
<1>4. Append(Packets(index, trans), LogBag(index, trans + 1)) = Packets(index, trans + 1)
  <2> DEFINE a == Append(Packets(index, trans), LogBag(index, trans + 1))
  <2>1. /\ DOMAIN a = 1..(trans + 2) /\ a = [i \in 1..(trans + 2) |-> a[i]]
        /\ \A i \in 1..(trans + 1) : a[i] = Packets(index, trans)[i]
        /\ a[trans + 2] = LogBag(index, trans + 1)
    BY <1>1, <1>3
  <2>2. \A i \in 1..(trans + 1) : a[i] = LogBag(index, i - 1)
    BY <1>2, <2>1
  <2> HIDE DEF a
  <2>3. \A i \in 1..(trans + 2) : a[i] = LogBag(index, i - 1)
    <3> TAKE i \in 1..(trans + 2)
    <3>1. CASE i = trans + 2
      <4>1. i - 1 = trans + 1
        BY <1>1, <3>1
      <4> QED BY <2>1, <3>1, <4>1
    <3>2. CASE i # trans + 2
      <4>1. i \in 1..(trans + 1)
        BY <1>1, <3>2
      <4> QED BY <2>2, <4>1
    <3> QED BY <3>1, <3>2
  <2>4. a = [i \in 1..(trans + 2) |-> LogBag(index, i - 1)]
    BY <2>1, <2>3
  <2>5. (trans + 1) + 1 = trans + 2
    BY <1>1
  <2> QED BY <2>4, <2>5 DEF a, Packets
<1>5. Packets(index, 0) = <<LogBag(index, 0)>>
  <2>1. Packets(index, 0) = [i \in 1..1 |-> LogBag(index, i - 1)]
    BY DEF Packets
  <2>2. \A i \in 1..1 : i = 1 /\ i - 1 = 0
    OBVIOUS
  <2> QED BY <2>1, <2>2
<1> QED BY <1>4, <1>5

LEMMA WriteKeepsStream ==
  ASSUME FilesInv, StreamInv, WritePacket
  PROVE  StreamInv'
<1> DEFINE p == Head(batch)
<1>1. /\ batch # <<>> /\ ~Stale(p) /\ batch' = Tail(batch)
      /\ UNCHANGED <<logging, detected, sending, late, repeats, writing, queue_>>
  BY DEF WritePacket, Spins, wireVars
<1> SUFFICES ASSUME repeats = 0, logging # "off", OneStream PROVE OneStream'
  BY <1>1 DEF StreamInv
<1>2. p \in LogPacket /\ p = batch[1] /\ 1 \in DOMAIN batch
  BY <1>1, HeadIs DEF FilesInv
<1>3. /\ NextPacket = p /\ NextPacket' = After(p)
      /\ InOrder' /\ Chained(batch, First(queue_, sending))' /\ Chained(queue_, sending)'
      /\ Later(p, sending')
      /\ \A i \in DOMAIN batch' : Later(p, batch'[i])
      /\ \A i \in DOMAIN queue_' : Later(p, queue_'[i])
      /\ \A i \in DOMAIN batch' : i + 1 \in DOMAIN batch /\ batch'[i] = batch[i + 1]
  BY <1>1, BatchGoesOn
<1>4. writing # "none"
  BY <1>1 DEF OneStream, WriterIsThere
<1>5. /\ p.index \in 1..LogFiles /\ p.trans \in 0..(LogPackets + 1) /\ p = LogBag(p.index, p.trans)
      /\ p.flag = "create" <=> p.trans = 0
      /\ p.flag = "end" <=> p.trans = LogPackets + 1
      /\ p.flag \in {"create", "data", "end"} /\ LogPackets \in Nat /\ LogFiles \in Nat
  BY <1>2, PacketIs, LoggerAssumption
<1> HIDE DEF p
\* Where the files that are there were created before what is left, so was one
\* that is created with p.
<1>6. ASSUME NEW n \in DOMAIN disk, NEW m, m.index = n.index
      PROVE  CreatedBefore(m, sending) /\ (\A i \in DOMAIN batch' : CreatedBefore(m, batch'[i]))
             /\ (\A i \in DOMAIN queue_' : CreatedBefore(m, queue_'[i]))
  BY <1>1, <1>3, <1>6 DEF OneStream, FilesBefore, CreatedBefore
<1>7. CASE p.flag = "create" /\ CreateFile(p)
  <2>1. PICK now \in second..MaxSeconds :
          LET name == [hidden |-> TRUE, second |-> now, index |-> p.index]
          IN /\ disk' = Written(WhenClosed, name, p)
             /\ file' = [trans |-> p.trans, index |-> p.index, open |-> TRUE, name |-> name]
    BY <1>7 DEF CreateFile
  <2> DEFINE name == [hidden |-> TRUE, second |-> now, index |-> p.index]
  <2>2. /\ disk' = Written(WhenClosed, name, p)
        /\ file' = [trans |-> p.trans, index |-> p.index, open |-> TRUE, name |-> name]
        /\ name.hidden /\ name.index = p.index
    BY <2>1
  <2> HIDE DEF name
  <2>3. ~file.open
    <3>1. ASSUME file.open PROVE FALSE
      <4>1. /\ file.trans \in 0..LogPackets /\ file.index \in 1..LogFiles /\ p = LogBag(file.index, file.trans + 1)
        BY <1>3, <1>5, <3>1 DEF OneStream, WriterIsThere, FilesInv, FileTypes
      <4>2. file.trans + 1 \in 0..(LogPackets + 1)
        BY <1>5, <4>1
      <4>3. p.trans = file.trans + 1
        BY <4>1, <4>2, LogBagIs
      <4> QED BY <1>5, <1>7, <4>1, <4>3
    <3> QED BY <3>1
  <2>4. DOMAIN WhenClosed = DOMAIN disk /\ \A n \in DOMAIN disk : WhenClosed[n] = disk[n]
    <3>1. WhenClosed = Renamed({})
      BY <2>3 DEF WhenClosed
    <3>2. Disk
      BY DEF FilesInv, GoodDisk, Disk
    <3> QED BY <3>1, <3>2, RenamedNone
  <2>5. \A n \in DOMAIN disk : n.index \in Int /\ n.index # p.index
    <3> TAKE n \in DOMAIN disk
    <3>1. n \in FileName
      BY DEF FilesInv, GoodDisk
    <3>2. n.index \in Int
      BY <3>1, LoggerAssumption DEF FileName
    <3>3. CreatedBefore(n, p)
      BY <1>2 DEF OneStream, FilesBefore, p
    <3> QED BY <1>5, <1>7, <3>2, <3>3 DEF CreatedBefore, Later
  <2>6. name \notin DOMAIN disk
    BY <2>2, <2>5
  <2>7. /\ DOMAIN disk' = DOMAIN disk \cup {name}
        /\ \A n \in DOMAIN disk : disk'[n] = disk[n]
        /\ disk'[name] = <<p>>
    <3>1. Append(<<>>, p) = <<p>>
      OBVIOUS
    <3> QED BY <2>2, <2>4, <2>6, <3>1 DEF Written
  <2>8. p = LogBag(p.index, 0) /\ disk'[name] = Packets(p.index, 0)
    <3>1. 0 \in 0..LogPackets
      BY <1>5
    <3> QED BY <1>5, <1>7, <2>7, <3>1, PacketsGrow
  <2>9. NextPacket' = LogBag(p.index, 1)
    BY <1>2, <1>3, <1>5, <1>7, AfterIs
  <2>10. WriterIsThere'
    BY <1>1, <1>4, <1>5, <1>7, <2>2, <2>8, <2>9 DEF WriterIsThere
  <2>11. ShownAreWhole'
    BY <2>2, <2>7 DEF OneStream, ShownAreWhole
  <2>12. FilesBefore'
    <3>1. \A x \in {sending'} \cup {batch'[i] : i \in DOMAIN batch'} \cup {queue_'[i] : i \in DOMAIN queue_'} :
            Later([index |-> name.index, trans |-> 0], x)
      BY <1>3, <1>5, <1>7, <2>2 DEF Later
    <3>2. ASSUME NEW n \in DOMAIN disk'
          PROVE  /\ CreatedBefore(n, sending)'
                 /\ (\A i \in DOMAIN batch : CreatedBefore(n, batch[i]))'
                 /\ (\A i \in DOMAIN queue_ : CreatedBefore(n, queue_[i]))'
      <4>1. CASE n = name
        BY <3>1, <4>1 DEF CreatedBefore
      <4>2. CASE n \in DOMAIN disk
        BY <1>1, <1>6, <4>2 DEF CreatedBefore
      <4> QED BY <2>7, <4>1, <4>2
    <3> QED BY <3>2 DEF FilesBefore
  <2> QED BY <1>1, <1>3, <2>10, <2>11, <2>12 DEF OneStream
<1>8. ASSUME p.flag # "create" PROVE file.open /\ file.name \in DOMAIN disk
  BY <1>3, <1>4, <1>5, <1>8 DEF OneStream, WriterIsThere, FilesInv, OpenFile, FileTypes
<1>9. ASSUME p.flag # "create"
      PROVE  /\ file.trans \in 0..LogPackets /\ file.index = p.index /\ p.trans = file.trans + 1
             /\ disk[file.name] = Packets(p.index, file.trans)
             /\ file.name \in FileName /\ file.name.hidden /\ file.name.index = p.index
  <2>1. file.open /\ file.trans \in 0..LogPackets /\ file.index \in 1..LogFiles
    BY <1>5, <1>8, <1>9 DEF OneStream, WriterIsThere, FilesInv, FileTypes
  <2>2. p = LogBag(file.index, file.trans + 1) /\ file.trans + 1 \in 0..(LogPackets + 1)
    BY <1>3, <1>5, <2>1 DEF OneStream, WriterIsThere
  <2>3. p.index = file.index /\ p.trans = file.trans + 1
    BY <2>1, <2>2, LogBagIs
  <2> QED BY <2>1, <2>3 DEF OneStream, WriterIsThere, FilesInv, FileTypes
<1>10. CASE p.flag = "data" /\ WriteFile(p)
  <2>1. /\ disk' = Written(disk, file.name, p) /\ file' = [file EXCEPT !.trans = p.trans]
    BY <1>8, <1>9, <1>10 DEF WriteFile
  <2>2. /\ DOMAIN disk' = DOMAIN disk
        /\ \A n \in DOMAIN disk : n # file.name => disk'[n] = disk[n]
        /\ disk'[file.name] = Append(disk[file.name], p)
    BY <1>8, <1>10, <2>1 DEF Written
  <2>3. file'.trans = p.trans /\ file'.index = file.index /\ file'.open = file.open /\ file'.name = file.name
    BY <2>1 DEF FilesInv, FileTypes
  <2>4. disk'[file.name] = Packets(p.index, p.trans)
    BY <1>5, <1>9, <1>10, <2>2, PacketsGrow
  <2>5. NextPacket' = LogBag(p.index, p.trans + 1)
    BY <1>2, <1>3, <1>10, AfterIs
  <2>6. p.trans <= LogPackets
    BY <1>5, <1>10
  <2>7. WriterIsThere'
    BY <1>1, <1>4, <1>5, <1>8, <1>9, <1>10, <2>3, <2>4, <2>5, <2>6 DEF WriterIsThere
  <2>8. ShownAreWhole'
    BY <1>9, <1>10, <2>2 DEF OneStream, ShownAreWhole
  <2>9. FilesBefore'
    BY <1>1, <1>6, <2>2 DEF FilesBefore, CreatedBefore
  <2> QED BY <1>1, <1>3, <2>7, <2>8, <2>9 DEF OneStream
<1>11. CASE p.flag = "end" /\ StopFile(p)
  <2>1. disk' = Renamed({file.name}) /\ file' = [file EXCEPT !.open = FALSE, !.trans = p.trans]
    <3>1. {file.name} \cap DOMAIN disk = {file.name}
      BY <1>8, <1>11
    <3> QED BY <1>8, <1>11, <3>1 DEF StopFile, WhenClosed
  <2>2. \A n \in DOMAIN disk' :
           \/ n \in DOMAIN disk /\ disk'[n] = disk[n]
           \/ n \in FileName /\ n.index = p.index /\ disk'[n] = disk[file.name]
    <3>1. Disk /\ {file.name} \in SUBSET DOMAIN disk /\ (\A n \in {file.name} : n.hidden)
      BY <1>8, <1>9, <1>11 DEF FilesInv, GoodDisk, Disk
    <3>2. \A n \in DOMAIN Renamed({file.name}) :
           \/ n \in DOMAIN disk \ {file.name} /\ Renamed({file.name})[n] = disk[n]
           \/ n \in FileName /\ ~n.hidden /\ \E m \in {file.name} : n = Shown(m) /\ Renamed({file.name})[n] = disk[m]
      BY <3>1, RenamedIs
    <3>3. Shown(file.name).index = p.index
      BY <1>9, <1>11 DEF Shown, FileName
    <3> QED BY <2>1, <3>2, <3>3
  <2>3. p.trans = LogPackets + 1 /\ disk[file.name] = Packets(p.index, LogPackets)
    BY <1>5, <1>9, <1>11
  <2>4. ShownAreWhole'
    BY <2>2, <2>3 DEF OneStream, ShownAreWhole
  <2>5. file'.open = FALSE
    BY <2>1 DEF FilesInv, FileTypes
  <2>6. NextPacket'.flag \in {"create", "none"}
    BY <1>2, <1>3, <1>11, AfterIs
  <2>7. WriterIsThere'
    BY <1>1, <1>4, <2>5, <2>6 DEF WriterIsThere
  <2>8. FilesBefore'
    <3>1. ASSUME NEW n \in DOMAIN disk'
          PROVE  /\ CreatedBefore(n, sending)'
                 /\ (\A i \in DOMAIN batch : CreatedBefore(n, batch[i]))'
                 /\ (\A i \in DOMAIN queue_ : CreatedBefore(n, queue_[i]))'
      <4>1. PICK m \in DOMAIN disk : m.index = n.index
        BY <1>8, <1>9, <1>11, <2>2
      <4> QED BY <1>1, <1>6, <4>1 DEF CreatedBefore
    <3> QED BY <3>1 DEF FilesBefore
  <2> QED BY <1>1, <1>3, <2>4, <2>7, <2>8 DEF OneStream
<1>12. \/ p.flag = "create" /\ CreateFile(p)
       \/ p.flag = "data" /\ WriteFile(p)
       \/ p.flag = "end" /\ StopFile(p)
  BY <1>5 DEF WritePacket, p
<1> QED BY <1>7, <1>10, <1>11, <1>12

LEMMA StepKeepsStream == FilesInv /\ StreamInv /\ [LoggerNext]_loggerVars => StreamInv'
<1> SUFFICES ASSUME FilesInv, StreamInv, [LoggerNext]_loggerVars PROVE StreamInv'
  OBVIOUS
<1>1. CASE AddDevice \/ Destory \/ JoinCycleDelete \/ StopHandler \/ UNCHANGED loggerVars
  <2>1. /\ UNCHANGED <<sending, late, repeats, queue_, batch, file, disk>>
        /\ logging = "off" => logging' = "off"
        /\ writing' = writing \/ (writing = "runs" /\ writing' = "stop")
    BY <1>1 DEF AddDevice, Destory, JoinCycleDelete, StopHandler, StopWrite, Stage, wireVars, writerVars,
       loggerVars
  <2> SUFFICES ASSUME OneStream PROVE OneStream'
    BY <2>1 DEF StreamInv
  <2>2. NextPacket' = NextPacket
    BY <2>1 DEF NextPacket, First
  <2> QED BY <2>1, <2>2 DEF OneStream, InOrder, Sorted, AllBefore, FilesBefore, CreatedBefore, Chained, First,
     WriterIsThere, ShownAreWhole
<1>2. CASE ChangeHiddenFiles
  BY <1>2 DEF ChangeHiddenFiles, Stage, StreamInv
<1> QED BY <1>1, <1>2, ReceiveKeepsStream, WriteKeepsStream, DeleteKeepsStream, SwapKeepsStream,
   ClearKeepsStream DEF LoggerNext, WriterThread, DestoryStep

LEMMA InitHasStream == LoggerInit => StreamInv
BY DEF LoggerInit, NoFile, StreamInv, OneStream, InOrder, Sorted, AllBefore, FilesBefore, Chained, WriterIsThere,
   ShownAreWhole

LEMMA StreamMeans == FilesInv /\ StreamInv => LogsAreKept
<1> SUFFICES ASSUME FilesInv, StreamInv PROVE LogsAreKept
  OBVIOUS
<1>1. ASSUME NEW n \in DOMAIN disk
      PROVE  /\ \A i \in DOMAIN disk[n] : disk[n][i].index = n.index
             /\ \A i, j \in DOMAIN disk[n] :
                  i < j => \/ disk[n][i].trans <= disk[n][j].trans
                           \/ \E k \in (i + 1)..j : disk[n][k].flag = "create"
  BY <1>1 DEF FilesInv, GoodDisk, Fits
<1>2. ASSUME NEW n \in DOMAIN disk, repeats = 0, logging # "off", ~n.hidden
      PROVE  disk[n] = [i \in 1..(LogPackets + 1) |-> LogBag(n.index, i - 1)]
  BY <1>2 DEF StreamInv, OneStream, ShownAreWhole, Packets
<1>3. file.open /\ logging # "off" => file.name \in DOMAIN disk
  BY DEF FilesInv, OpenFile
<1> QED BY <1>1, <1>2, <1>3 DEF LogsAreKept

\* However packets are repeated and whatever is lost or stopped, a file holds
\* packets of its own index that never go back; as long as none was repeated, a
\* file that has its name is whole; and the cleaning never takes the file that is
\* being written (LoggerHandler, LoggerManager).
THEOREM FilesAreKept == LoggerSpec => []LogsAreKept
<1>1. LoggerInit => FilesInv /\ StreamInv
  BY InitHasFiles, InitHasStream
<1>2. (FilesInv /\ StreamInv) /\ [LoggerNext]_loggerVars => (FilesInv /\ StreamInv)'
  BY StepKeepsFiles, StepKeepsStream
<1> QED BY <1>1, <1>2, StreamMeans, PTL DEF LoggerSpec
=============================================================================
