---------------------------- MODULE PamLoginProofs ----------------------------
(***************************************************************************)
(* The invariants of PamLogin, for any logins, profiles and numbers of     *)
(* calls and stops.                                                        *)
(***************************************************************************)
EXTENDS PamLogin, SequenceTheorems, TLAPS

Questions == Tokens \union {"ask", "opened"}
Answers   == {"established", "unrecognized", "blocked", "free"}

-----------------------------------------------------------------------------
(* Types.                                                                   *)

DaemonTypes ==
  /\ daemon \in {"up", "down"}
  /\ stops \in 0..MaxStops
  /\ profile \in [Profiles -> {"unused", "present", "deleted"}]
  /\ nameIndex \in [Names -> Profiles \union {NoProfile}]
  /\ blocked \in [Profiles -> BOOLEAN]

ModuleTypes ==
  /\ call \in [Logins -> Calls \union {"none"}]
  /\ calls \in [Logins -> 0..MaxCalls]
  /\ pc \in [Logins -> {"idle", "unconnected", "establishing", "ready", "asked", "ended"}]
  /\ stream \in [Logins -> {"none", "open", "shut"}]
  /\ answer \in [Logins -> {"none", "allowed", "denied"}]

TaskTypes ==
  /\ task \in [Logins -> {"establishing", "serving", "replying", "gone"}]
  /\ verdict \in [Logins -> BOOLEAN]

WireTypes ==
  /\ toDaemon \in [Logins -> Seq(Questions)]
  /\ toModule \in [Logins -> Seq(Answers)]

SeenType == seen \in [Logins -> SUBSET {"blocked", "free", "down"}]

LEMMA TypesAreParts ==
  PamTypeOK <=> DaemonTypes /\ ModuleTypes /\ TaskTypes /\ WireTypes /\ SeenType
  BY DEF PamTypeOK, DaemonTypes, ModuleTypes, TaskTypes, WireTypes, SeenType, Questions, Answers

\* The profile taken through the index is one of the ids, or none.
LEMMA IndexType ==
  ASSUME NEW ids \in SUBSET Profiles, NEW f \in IndexesOf(ids)
  PROVE  f \in [Names -> Profiles \union {NoProfile}]
  BY DEF IndexesOf

LEMMA JudgementIsBoolean ==
  ASSUME DaemonTypes, NEW name \in Names
  PROVE  IsUserSessionOpenBlocked(name) \in BOOLEAN
  BY DEF DaemonTypes, IsUserSessionOpenBlocked, Present

LEMMA PamTypesInit == PamInit => PamTypeOK
  <1> SUFFICES ASSUME PamInit PROVE PamTypeOK
    OBVIOUS
  <1>1. DaemonTypes
    <2>1. nameIndex \in [Names -> Profiles \union {NoProfile}]
      BY IndexType, PamLoginAssumption DEF PamInit
    <2>2. QED
      BY <2>1, PamLoginAssumption DEF PamInit, DaemonTypes
  <1>2. ModuleTypes /\ TaskTypes /\ SeenType
    BY PamLoginAssumption DEF PamInit, ModuleTypes, TaskTypes, SeenType
  <1>3. WireTypes
    BY DEF PamInit, WireTypes
  <1>4. QED
    BY <1>1, <1>2, <1>3, TypesAreParts

\* A call that returns keeps the types, whatever becomes of its stream.
LEMMA ReturnTypes ==
  ASSUME ModuleTypes, NEW l \in Logins, NEW result \in {"allowed", "denied"}, Return(l, result),
         calls' = calls,
         stream' = stream \/ \E end \in {"none", "shut"} : stream' = [stream EXCEPT ![l] = end]
  PROVE  ModuleTypes'
  BY DEF ModuleTypes, Return

\* The steps of the module: one leaf for what it keeps, one for the wires.
LEMMA ModuleStepTypes ==
  ASSUME ModuleTypes, TaskTypes, WireTypes, NEW l \in Logins,
         ModuleStep(l) \/ EndLogin(l) \/ \E kind \in Calls : BeginCall(l, kind)
  PROVE  ModuleTypes' /\ TaskTypes' /\ WireTypes' /\ UNCHANGED daemonVars
  <1> USE DEF ModuleTypes, TaskTypes, WireTypes, daemonVars, wireVars, taskVars
  <1>1. ASSUME NEW kind \in Calls, BeginCall(l, kind)
        PROVE  ModuleTypes' /\ TaskTypes' /\ WireTypes' /\ UNCHANGED daemonVars
    BY <1>1, PamLoginAssumption DEF BeginCall, Calls
  <1>2. CASE PamFails(l)
    BY <1>2 DEF PamFails, Return
  <1>3. CASE Connect(l)
    <2>1. PICK token \in Tokens : toDaemon' = [toDaemon EXCEPT ![l] = <<token>>]
      BY <1>3 DEF Connect
    <2>2. <<token>> \in Seq(Questions)
      BY DEF Questions
    <2>3. WireTypes'
      BY <1>3, <2>1, <2>2 DEF Connect
    <2>4. QED
      BY <1>3, <2>3 DEF Connect
  <1>4. CASE ConnectFails(l)
    <2>1. ModuleTypes' /\ UNCHANGED daemonVars
      BY <1>4, ReturnTypes DEF ConnectFails
    <2>2. TaskTypes' /\ WireTypes'
      <3>1. CASE NobodyListens
        BY <3>1 DEF NobodyListens
      <3>2. CASE TokenIsNotWritten(l)
        BY <3>2 DEF TokenIsNotWritten
      <3>3. QED
        BY <1>4, <3>1, <3>2 DEF ConnectFails
    <2>3. QED
      BY <2>1, <2>2
  <1>5. CASE ReadEstablished(l)
    BY <1>5 DEF ReadEstablished
  <1>6. CASE SetDataFails(l)
    <2>1. ModuleTypes' /\ UNCHANGED daemonVars
      BY <1>6, ReturnTypes DEF SetDataFails
    <2>2. TaskTypes' /\ WireTypes'
      BY <1>6 DEF SetDataFails
    <2>3. QED
      BY <2>1, <2>2
  <1>7. CASE EstablishFails(l)
    BY <1>7 DEF EstablishFails, Return
  <1>8. CASE Ask(l)
    BY <1>8 DEF Ask, Send, Questions
  <1>9. CASE ReadReply(l)
    BY <1>9 DEF ReadReply, Return
  <1>10. CASE Notify(l)
    BY <1>10 DEF Notify, Send, Return, Questions
  <1>11. CASE StreamFails(l)
    BY <1>11 DEF StreamFails, Return
  <1>12. CASE MessageFails(l)
    <2>1. ModuleTypes' /\ UNCHANGED daemonVars
      BY <1>12, ReturnTypes DEF MessageFails
    <2>2. TaskTypes' /\ WireTypes'
      BY <1>12 DEF MessageFails
    <2>3. QED
      BY <2>1, <2>2
  <1>13. CASE EndLogin(l)
    BY <1>13 DEF EndLogin
  <1>14. QED
    BY <1>1, <1>2, <1>3, <1>4, <1>5, <1>6, <1>7, <1>8, <1>9, <1>10, <1>11, <1>12, <1>13
       DEF ModuleStep

LEMMA TaskStepTypes ==
  ASSUME DaemonTypes, TaskTypes, WireTypes, NEW l \in Logins, TaskStep(l) \/ TaskFails(l)
  PROVE  TaskTypes' /\ WireTypes' /\ UNCHANGED <<daemonVars, moduleVars>>
  <1> USE DEF TaskTypes, WireTypes, daemonVars, moduleVars, taskVars
  <1>1. CASE Establish(l)
    BY <1>1 DEF Establish, Answers
  <1>2. CASE Judge(l)
    <2>1. IsUserSessionOpenBlocked(UserOf[l]) \in BOOLEAN
      BY JudgementIsBoolean, PamLoginAssumption
    <2>2. QED
      BY <1>2, <2>1 DEF Judge
  <1>3. CASE Reply(l)
    BY <1>3 DEF Reply, Answers
  <1>4. CASE HearNotification(l)
    BY <1>4 DEF HearNotification
  <1>5. CASE TaskEnds(l)
    BY <1>5 DEF TaskEnds, wireVars
  <1>6. CASE TaskFails(l)
    BY <1>6 DEF TaskFails
  <1>7. QED
    BY <1>1, <1>2, <1>3, <1>4, <1>5, <1>6 DEF TaskStep

LEMMA DaemonStepTypes ==
  ASSUME DaemonTypes, TaskTypes, WireTypes, DaemonStep
  PROVE  DaemonTypes' /\ TaskTypes' /\ WireTypes' /\ UNCHANGED moduleVars
  <1> USE DEF DaemonTypes, TaskTypes, WireTypes, moduleVars, wireVars, taskVars
  <1>1. CASE Stop
    BY <1>1, PamLoginAssumption DEF Stop
  <1>2. CASE Launch
    <2>1. nameIndex' \in [Names -> Profiles \union {NoProfile}]
      BY <1>2, IndexType DEF Launch, Present
    <2>2. QED
      BY <1>2, <2>1 DEF Launch
  <1>3. ASSUME NEW id \in Profiles, RulesChange(id)
        PROVE  DaemonTypes' /\ TaskTypes' /\ WireTypes' /\ UNCHANGED moduleVars
    BY <1>3 DEF RulesChange
  <1>4. ASSUME NEW id \in Profiles, AddUser(id) \/ DeleteUser(id)
        PROVE  DaemonTypes' /\ TaskTypes' /\ WireTypes' /\ UNCHANGED moduleVars
    BY <1>4 DEF AddUser, DeleteUser
  <1>5. QED
    BY <1>1, <1>2, <1>3, <1>4 DEF DaemonStep

LEMMA RecordType ==
  ASSUME SeenType, Record
  PROVE  SeenType'
  BY DEF SeenType, Record, Outlook

LEMMA PamTypesStep ==
  ASSUME PamTypeOK, [PamNext]_vars
  PROVE  PamTypeOK'
  <1>1. DaemonTypes /\ ModuleTypes /\ TaskTypes /\ WireTypes /\ SeenType
    BY TypesAreParts
  <1>2. (DaemonTypes /\ ModuleTypes /\ TaskTypes /\ WireTypes /\ SeenType)' => PamTypeOK'
    BY TypesAreParts, PTL
  <1>3. CASE UNCHANGED vars
    BY <1>3 DEF vars, daemonVars, moduleVars, wireVars, taskVars, PamTypeOK
  <1>4. CASE PamNext
    <2>1. SeenType'
      BY <1>1, <1>4, RecordType DEF PamNext
    <2>2. ASSUME NEW l \in Logins,
                 ModuleStep(l) \/ EndLogin(l) \/ \E kind \in Calls : BeginCall(l, kind)
          PROVE  PamTypeOK'
      BY <1>1, <1>2, <2>1, <2>2, ModuleStepTypes DEF daemonVars, DaemonTypes
    <2>3. ASSUME NEW l \in Logins, TaskStep(l) \/ TaskFails(l)
          PROVE  PamTypeOK'
      BY <1>1, <1>2, <2>1, <2>3, TaskStepTypes DEF daemonVars, DaemonTypes, moduleVars, ModuleTypes
    <2>4. CASE DaemonStep
      BY <1>1, <1>2, <2>1, <2>4, DaemonStepTypes DEF moduleVars, ModuleTypes
    <2>5. QED
      BY <1>4, <2>2, <2>3, <2>4 DEF PamNext
  <1>5. QED
    BY <1>3, <1>4

\* The variables of both ends stay in their types, for any number of logins,
\* calls and stops.
THEOREM PamTypeCorrect == PamSpec => []PamTypeOK
  <1>1. QED
    BY PamTypesInit, PamTypesStep, PTL DEF PamSpec

-----------------------------------------------------------------------------
(* The messages on a connection.                                            *)

\* Only notifications, and only notifications before a question.
Notified(s)  == \A i \in 1..Len(s) : s[i] = "opened"
AskedLast(s) ==
  /\ s # <<>>
  /\ s[Len(s)] = "ask"
  /\ \A i \in 1..(Len(s) - 1) : s[i] = "opened"

LEMMA OneMessage ==
  ASSUME NEW m
  PROVE  /\ <<m>> # <<>> /\ Head(<<m>>) = m /\ Tail(<<m>>) = <<>>
         /\ Append(<<>>, m) = <<m>>
  OBVIOUS

LEMMA NothingIsNotified == Notified(<<>>)
  BY DEF Notified

LEMMA WriteAfterNotifications ==
  ASSUME NEW s \in Seq(Questions), Notified(s)
  PROVE  Notified(Append(s, "opened")) /\ AskedLast(Append(s, "ask"))
  <1>1. ASSUME NEW m \in Questions
        PROVE  /\ Len(Append(s, m)) = Len(s) + 1
               /\ Append(s, m)[Len(s) + 1] = m
               /\ \A i \in 1..Len(s) : Append(s, m)[i] = s[i]
    BY AppendProperties
  <1>2. Len(s) \in Nat
    OBVIOUS
  <1>3. Notified(Append(s, "opened"))
    BY <1>1, <1>2 DEF Notified, Questions
  <1>4. AskedLast(Append(s, "ask"))
    BY <1>1, <1>2 DEF Notified, AskedLast, Questions
  <1>5. QED
    BY <1>3, <1>4

LEMMA ReadNotification ==
  ASSUME NEW s \in Seq(Questions), s # <<>>, Notified(s)
  PROVE  Head(s) = "opened" /\ Notified(Tail(s))
  <1>1. Len(s) \in Nat /\ Len(s) >= 1 /\ Head(s) = s[1]
    OBVIOUS
  <1>2. Len(Tail(s)) = Len(s) - 1 /\ \A i \in 1..(Len(s) - 1) : Tail(s)[i] = s[i + 1]
    OBVIOUS
  <1>3. QED
    BY <1>1, <1>2 DEF Notified

LEMMA ReadBeforeQuestion ==
  ASSUME NEW s \in Seq(Questions), AskedLast(s)
  PROVE  /\ Head(s) \in {"opened", "ask"}
         /\ Head(s) = "opened" => AskedLast(Tail(s))
         /\ Head(s) = "ask" => Tail(s) = <<>>
  <1>1. Len(s) \in Nat /\ Len(s) >= 1 /\ Head(s) = s[1]
    BY DEF AskedLast
  <1>2. /\ Len(Tail(s)) = Len(s) - 1
        /\ \A i \in 1..(Len(s) - 1) : Tail(s)[i] = s[i + 1]
        /\ Tail(s) \in Seq(Questions)
    BY DEF AskedLast
  <1>3. Tail(s) = <<>> <=> Len(Tail(s)) = 0
    BY <1>2, EmptySeq
  <1>4. CASE Len(s) = 1
    <2>1. Head(s) = "ask"
      BY <1>1, <1>4 DEF AskedLast
    <2>2. Tail(s) = <<>>
      <3>1. Len(Tail(s)) = 0
        BY <1>2, <1>4
      <3>2. QED
        BY <1>3, <3>1
    <2>3. QED
      BY <2>1, <2>2
  <1>5. CASE Len(s) # 1
    <2>1. Len(s) - 1 \in 1..Len(s) /\ Len(s) > 1
      <3>1. \A n \in Nat : n >= 1 /\ n # 1 => n - 1 \in 1..n /\ n > 1
        OBVIOUS
      <3>2. QED
        BY <1>1, <1>5, <3>1
    <2>2. Head(s) = "opened"
      BY <1>1, <2>1 DEF AskedLast
    <2>3. Tail(s) # <<>>
      BY <1>2, <1>3, <2>1
    <2>4. Tail(s)[Len(Tail(s))] = "ask"
      <3>1. Tail(s)[Len(s) - 1] = s[(Len(s) - 1) + 1]
        BY <1>1, <1>2, <2>1
      <3>2. (Len(s) - 1) + 1 = Len(s)
        BY <1>1
      <3>3. QED
        BY <1>2, <3>1, <3>2 DEF AskedLast
    <2>5. \A i \in 1..(Len(Tail(s)) - 1) : Tail(s)[i] = "opened"
      BY <1>1, <1>2, <2>1 DEF AskedLast
    <2>6. QED
      BY <2>2, <2>3, <2>4, <2>5 DEF AskedLast
  <1>6. QED
    BY <1>4, <1>5

-----------------------------------------------------------------------------
(* The inductive invariant of a login.                                      *)

\* Where a call is, and what it has.
CallShape(l) ==
  /\ call[l] = "account" => answer[l] = "none"
  /\ pc[l] \in {"idle", "ended"} <=> call[l] = "none"
  /\ pc[l] = "asked" => call[l] = "account"
  /\ pc[l] \in {"establishing", "asked"} => stream[l] = "open"
  /\ pc[l] \in {"unconnected", "ended"} => stream[l] = "none"

\* What is on the wires of an open stream, and what the task of the daemon does.
Establishing(l) ==
  /\ pc[l] = "establishing"
  /\ \/ /\ \E token \in Tokens : toDaemon[l] = <<token>>
        /\ toModule[l] = <<>> /\ task[l] = "establishing"
     \/ /\ toDaemon[l] = <<>> /\ task[l] \in {"serving", "gone"}
        /\ toModule[l] \in {<<"established">>, <<"unrecognized">>}
     \/ toDaemon[l] = <<>> /\ toModule[l] = <<>> /\ task[l] = "gone"

Quiet(l) ==
  /\ pc[l] \in {"idle", "ready"}
  /\ toModule[l] = <<>>
  /\ task[l] \in {"serving", "gone"}
  /\ Notified(toDaemon[l])

Asking(l) ==
  /\ pc[l] = "asked"
  /\ \/ toModule[l] = <<>> /\ task[l] = "serving" /\ AskedLast(toDaemon[l])
     \/ toModule[l] = <<>> /\ task[l] = "replying" /\ toDaemon[l] = <<>>
     \/ toModule[l] = <<>> /\ task[l] = "gone"
     \/ /\ toModule[l] \in {<<"blocked">>, <<"free">>}
        /\ task[l] \in {"serving", "gone"} /\ toDaemon[l] = <<>>

WireShape(l) == stream[l] = "open" => Establishing(l) \/ Quiet(l) \/ Asking(l)

\* The verdict under way was the daemon's at some moment of the call.
SeenShape(l) ==
  /\ answer[l] = "denied" => "blocked" \in seen[l]
  /\ pc[l] = "asked" /\ task[l] = "replying" =>
       IF verdict[l] THEN "blocked" \in seen[l] ELSE "free" \in seen[l]
  /\ pc[l] = "asked" /\ toModule[l] # <<>> => Head(toModule[l]) \in seen[l]

LoginInv(l) == CallShape(l) /\ WireShape(l) /\ SeenShape(l)

\* The index, however old, leads to a profile of the user who is asked about.
IndexShape ==
  \A name \in Names : nameIndex[name] \in Profiles => NameOf[nameIndex[name]] = name

PamIInv ==
  /\ PamTypeOK
  /\ IndexShape
  /\ \A l \in Logins : LoginInv(l)

LEMMA PamIInvInit == PamInit => PamIInv
  <1> SUFFICES ASSUME PamInit PROVE PamIInv
    OBVIOUS
  <1>1. PamTypeOK
    BY PamTypesInit
  <1>2. IndexShape
    BY PamLoginAssumption DEF PamInit, IndexesOf, IndexShape
  <1>3. ASSUME NEW l \in Logins
        PROVE  LoginInv(l)
    BY <1>3 DEF PamInit, LoginInv, CallShape, WireShape, SeenShape
  <1>4. QED
    BY <1>1, <1>2, <1>3 DEF PamIInv

\* Only what the daemon does to its index disturbs it.
LEMMA IndexStep ==
  ASSUME PamIInv, [PamNext]_vars
  PROVE  IndexShape'
  <1>1. CASE nameIndex' = nameIndex
    BY <1>1 DEF PamIInv, IndexShape
  <1>2. CASE nameIndex' \in IndexesOf(Present)
    BY <1>2, PamLoginAssumption DEF IndexesOf, IndexShape, Present
  <1>3. UNCHANGED vars => nameIndex' = nameIndex
    BY DEF vars, daemonVars
  <1>4. ASSUME NEW l \in Logins,
               \/ ModuleStep(l) \/ EndLogin(l) \/ \E kind \in Calls : BeginCall(l, kind)
               \/ TaskStep(l) \/ TaskFails(l)
        PROVE  nameIndex' = nameIndex
    <2>1. DaemonTypes /\ ModuleTypes /\ TaskTypes /\ WireTypes
      BY TypesAreParts DEF PamIInv
    <2>2. UNCHANGED daemonVars
      BY <1>4, <2>1, ModuleStepTypes, TaskStepTypes
    <2>3. QED
      BY <2>2 DEF daemonVars
  <1>5. CASE DaemonStep
    BY <1>1, <1>2, <1>5 DEF DaemonStep, Stop, Launch, RulesChange, AddUser, DeleteUser
  <1>6. QED
    BY <1>1, <1>2, <1>3, <1>4, <1>5 DEF PamNext

-----------------------------------------------------------------------------
(* The steps of one login leave the others alone.                           *)

Untouched(m) ==
  /\ call'[m] = call[m] /\ pc'[m] = pc[m] /\ stream'[m] = stream[m] /\ answer'[m] = answer[m]
  /\ toDaemon'[m] = toDaemon[m] /\ toModule'[m] = toModule[m]
  /\ task'[m] = task[m] /\ verdict'[m] = verdict[m]

LEMMA ModuleStepTouchesOne ==
  ASSUME PamTypeOK, NEW l \in Logins, NEW m \in Logins, m # l,
         ModuleStep(l) \/ EndLogin(l) \/ \E kind \in Calls : BeginCall(l, kind)
  PROVE  Untouched(m)
  <1> USE DEF PamTypeOK, Untouched, Return, wireVars, taskVars
  <1>1. ASSUME NEW kind \in Calls, BeginCall(l, kind)
        PROVE  Untouched(m)
    BY <1>1 DEF BeginCall
  <1>2. CASE PamFails(l) \/ ConnectFails(l)
    BY <1>2 DEF PamFails, ConnectFails, NobodyListens, TokenIsNotWritten
  <1>3. CASE Connect(l) \/ ReadEstablished(l) \/ SetDataFails(l)
    BY <1>3 DEF Connect, ReadEstablished, SetDataFails
  <1>4. CASE EstablishFails(l) \/ StreamFails(l) \/ MessageFails(l)
    BY <1>4 DEF EstablishFails, StreamFails, MessageFails
  <1>5. CASE Ask(l) \/ ReadReply(l)
    BY <1>5 DEF Ask, Send, ReadReply
  <1>6. CASE Notify(l) \/ EndLogin(l)
    BY <1>6 DEF Notify, Send, EndLogin
  <1>7. QED
    BY <1>1, <1>2, <1>3, <1>4, <1>5, <1>6 DEF ModuleStep

LEMMA TaskStepTouchesOne ==
  ASSUME PamTypeOK, NEW l \in Logins, NEW m \in Logins, m # l, TaskStep(l) \/ TaskFails(l)
  PROVE  Untouched(m)
  <1> USE DEF PamTypeOK, Untouched, moduleVars, wireVars, taskVars
  <1>1. CASE Establish(l) \/ Judge(l) \/ Reply(l)
    BY <1>1 DEF Establish, Judge, Reply
  <1>2. CASE HearNotification(l) \/ TaskEnds(l) \/ TaskFails(l)
    BY <1>2 DEF HearNotification, TaskEnds, TaskFails
  <1>3. QED
    BY <1>1, <1>2 DEF TaskStep

\* What was seen in a call stays seen until another one begins, and what the
\* daemon could say is seen while one is under way.
LEMMA SeenGrows ==
  ASSUME SeenType, Record, NEW l \in Logins, call'[l] = "account" => call[l] = "account"
  PROVE  seen[l] \subseteq seen'[l]
  BY DEF SeenType, Record

LEMMA OutlookIsSeen ==
  ASSUME Record, NEW l \in Logins, call[l] = "account"
  PROVE  Outlook(l)' \subseteq seen'[l]
  BY DEF Record

LEMMA UntouchedKeepsInv ==
  ASSUME NEW l \in Logins, LoginInv(l), Untouched(l), seen[l] \subseteq seen'[l]
  PROVE  LoginInv(l)'
  <1>1. CallShape(l)'
    BY DEF LoginInv, CallShape, Untouched
  <1>2. WireShape(l)'
    BY DEF LoginInv, WireShape, Untouched, Establishing, Quiet, Asking
  <1>3. SeenShape(l)'
    BY DEF LoginInv, SeenShape, Untouched
  <1>4. QED
    BY <1>1, <1>2, <1>3 DEF LoginInv

-----------------------------------------------------------------------------
(* The steps of the module keep the invariant of its login.                 *)

LEMMA BeginCallKeepsInv ==
  ASSUME PamTypeOK, NEW l \in Logins, LoginInv(l), NEW kind \in Calls, BeginCall(l, kind), Record
  PROVE  LoginInv(l)'
  <1> USE DEF LoginInv, PamTypeOK
  <1>1. /\ pc[l] = "idle" /\ call[l] = "none" /\ call'[l] = kind /\ kind # "none"
        /\ pc'[l] = (IF stream[l] = "none" THEN "unconnected" ELSE "ready")
        /\ answer'[l] = (IF kind = "account" THEN "none" ELSE answer[l])
        /\ stream'[l] = stream[l] /\ toDaemon'[l] = toDaemon[l] /\ toModule'[l] = toModule[l]
        /\ task'[l] = task[l]
    BY DEF BeginCall, CallShape, Calls, wireVars, taskVars
  <1>2. CallShape(l)'
    BY <1>1 DEF CallShape
  <1>3. WireShape(l)'
    BY <1>1 DEF WireShape, Establishing, Quiet, Asking
  <1>4. SeenShape(l)'
    <2>1. CASE kind = "account"
      BY <1>1, <2>1 DEF SeenShape
    <2>2. CASE kind # "account"
      <3>1. seen[l] \subseteq seen'[l]
        BY <1>1, <2>2, SeenGrows DEF SeenType
      <3>2. QED
        BY <1>1, <2>2, <3>1 DEF SeenShape
    <2>3. QED
      BY <2>1, <2>2
  <1>5. QED
    BY <1>2, <1>3, <1>4

\* A call that returns without having been denied.
LEMMA ReturnKeepsCall ==
  ASSUME PamTypeOK, NEW l \in Logins, LoginInv(l), NEW result, Return(l, result), Record,
         result = "denied" => call[l] = "account" /\ "blocked" \in seen[l],
         stream'[l] \in {"open", "none", "shut"}
  PROVE  CallShape(l)' /\ SeenShape(l)' /\ pc'[l] = "idle"
  <1> USE DEF LoginInv, PamTypeOK
  <1>1. /\ pc'[l] = "idle" /\ call'[l] = "none"
        /\ answer'[l] = (IF call[l] = "account" THEN result ELSE answer[l])
    BY DEF Return
  <1>2. seen[l] \subseteq seen'[l]
    BY <1>1, SeenGrows DEF SeenType
  <1>3. CallShape(l)'
    BY <1>1 DEF CallShape
  <1>4. SeenShape(l)'
    BY <1>1, <1>2 DEF SeenShape
  <1>5. QED
    BY <1>1, <1>3, <1>4

\* What fails makes the call return; the stream is kept as it is, or is not open any
\* more.
LEMMA FailuresKeepInv ==
  ASSUME PamTypeOK, NEW l \in Logins, LoginInv(l), Record,
         \/ PamFails(l) \/ ConnectFails(l) \/ SetDataFails(l) \/ EstablishFails(l)
         \/ StreamFails(l) \/ MessageFails(l)
  PROVE  LoginInv(l)'
  <1> USE DEF PamTypeOK
  <1>1. Return(l, "allowed")
    BY DEF PamFails, ConnectFails, SetDataFails, EstablishFails, StreamFails, MessageFails
  <1>2. CASE PamFails(l)
    <2>1. /\ pc[l] \in {"unconnected", "ready"} /\ stream'[l] = stream[l]
          /\ toDaemon'[l] = toDaemon[l] /\ toModule'[l] = toModule[l] /\ task'[l] = task[l]
      BY <1>2 DEF PamFails, wireVars, taskVars
    <2>2. CallShape(l)' /\ SeenShape(l)' /\ pc'[l] = "idle"
      BY <1>1, <2>1, ReturnKeepsCall
    <2>3. WireShape(l)'
      BY <2>1, <2>2 DEF LoginInv, CallShape, WireShape, Establishing, Quiet, Asking
    <2>4. QED
      BY <2>2, <2>3 DEF LoginInv
  <1>3. CASE \/ ConnectFails(l) \/ SetDataFails(l) \/ EstablishFails(l)
             \/ StreamFails(l) \/ MessageFails(l)
    <2>1. stream'[l] \in {"none", "shut"}
      BY <1>3 DEF LoginInv, CallShape, ConnectFails, SetDataFails, EstablishFails,
           StreamFails, MessageFails
    <2>2. CallShape(l)' /\ SeenShape(l)'
      BY <1>1, <2>1, ReturnKeepsCall
    <2>3. WireShape(l)'
      BY <2>1 DEF WireShape
    <2>4. QED
      BY <2>2, <2>3 DEF LoginInv
  <1>4. QED
    BY <1>2, <1>3

\* A reply is read: the call returns what the daemon said.
LEMMA ReadReplyKeepsInv ==
  ASSUME PamTypeOK, NEW l \in Logins, LoginInv(l), Record, ReadReply(l)
  PROVE  LoginInv(l)'
  <1> USE DEF PamTypeOK
  <1>1. /\ pc[l] = "asked" /\ call[l] = "account" /\ stream[l] = "open" /\ stream'[l] = "open"
        /\ toDaemon'[l] = toDaemon[l] /\ toModule'[l] = Tail(toModule[l]) /\ task'[l] = task[l]
        /\ toModule[l] # <<>>
    BY DEF ReadReply, LoginInv, CallShape, taskVars
  <1>2. /\ toModule[l] \in {<<"blocked">>, <<"free">>} /\ toDaemon[l] = <<>>
        /\ task[l] \in {"serving", "gone"}
    BY <1>1 DEF LoginInv, WireShape, Establishing, Quiet, Asking
  <1>3. Head(toModule[l]) \in seen[l]
    BY <1>1 DEF LoginInv, SeenShape
  <1>4. CallShape(l)' /\ SeenShape(l)' /\ pc'[l] = "idle"
    BY <1>1, <1>3, ReturnKeepsCall DEF ReadReply
  <1>5. toModule'[l] = <<>>
    <2>1. Tail(<<"blocked">>) = <<>> /\ Tail(<<"free">>) = <<>>
      BY OneMessage
    <2>2. QED
      BY <1>1, <1>2, <2>1, Zenon
  <1>6. WireShape(l)'
    BY <1>1, <1>2, <1>4, <1>5, NothingIsNotified DEF WireShape, Quiet
  <1>7. QED
    BY <1>4, <1>6 DEF LoginInv

\* A notification is written, and the call returns.
LEMMA NotifyKeepsInv ==
  ASSUME PamTypeOK, NEW l \in Logins, LoginInv(l), Record, Notify(l)
  PROVE  LoginInv(l)'
  <1> USE DEF PamTypeOK
  <1>1. /\ pc[l] = "ready" /\ stream[l] = "open" /\ stream'[l] = "open"
        /\ toDaemon'[l] = Append(toDaemon[l], "opened") /\ toModule'[l] = toModule[l]
        /\ task'[l] = task[l]
    BY DEF Notify, Send, Writable, taskVars
  <1>2. Quiet(l)
    BY <1>1 DEF LoginInv, WireShape, Establishing, Asking
  <1>3. CallShape(l)' /\ SeenShape(l)' /\ pc'[l] = "idle"
    BY <1>1, ReturnKeepsCall DEF Notify
  <1>4. Notified(Append(toDaemon[l], "opened"))
    BY <1>2, WriteAfterNotifications DEF Quiet, Questions
  <1>5. WireShape(l)'
    BY <1>1, <1>2, <1>3, <1>4 DEF WireShape, Quiet
  <1>6. QED
    BY <1>3, <1>5 DEF LoginInv

\* The question is written.
LEMMA AskKeepsInv ==
  ASSUME PamTypeOK, NEW l \in Logins, LoginInv(l), Record, Ask(l)
  PROVE  LoginInv(l)'
  <1> USE DEF PamTypeOK
  <1>1. /\ pc[l] = "ready" /\ call[l] = "account" /\ stream[l] = "open" /\ task[l] # "gone"
        /\ pc'[l] = "asked" /\ call'[l] = call[l] /\ stream'[l] = stream[l]
        /\ answer'[l] = answer[l] /\ toDaemon'[l] = Append(toDaemon[l], "ask")
        /\ toModule'[l] = toModule[l] /\ task'[l] = task[l]
    BY DEF Ask, Send, Writable, taskVars
  <1>2. Quiet(l) /\ task[l] = "serving"
    BY <1>1 DEF LoginInv, WireShape, Establishing, Asking, Quiet
  <1>3. AskedLast(Append(toDaemon[l], "ask"))
    BY <1>2, WriteAfterNotifications DEF Quiet, Questions
  <1>4. CallShape(l)'
    BY <1>1 DEF LoginInv, CallShape
  <1>5. WireShape(l)'
    BY <1>1, <1>2, <1>3 DEF WireShape, Quiet, Asking
  <1>6. SeenShape(l)'
    BY <1>1, <1>2 DEF LoginInv, CallShape, SeenShape, Quiet
  <1>7. QED
    BY <1>4, <1>5, <1>6 DEF LoginInv

\* The other steps of the module do not end a call.
LEMMA ConnectingKeepsInv ==
  ASSUME PamTypeOK, NEW l \in Logins, LoginInv(l), Record,
         Connect(l) \/ ReadEstablished(l) \/ EndLogin(l)
  PROVE  LoginInv(l)'
  <1> USE DEF PamTypeOK
  <1>1. call'[l] = call[l] /\ answer'[l] = answer[l]
    BY DEF Connect, ReadEstablished, EndLogin
  <1>2. seen[l] \subseteq seen'[l]
    BY <1>1, SeenGrows DEF SeenType
  <1>3. CASE Connect(l)
    <2>1. /\ pc[l] = "unconnected" /\ pc'[l] = "establishing" /\ stream'[l] = "open"
          /\ \E token \in Tokens : toDaemon'[l] = <<token>>
          /\ toModule'[l] = <<>> /\ task'[l] = "establishing"
      BY <1>3 DEF Connect
    <2>2. WireShape(l)'
      BY <2>1 DEF WireShape, Establishing
    <2>3. CallShape(l)' /\ SeenShape(l)'
      BY <1>1, <1>2, <2>1 DEF LoginInv, CallShape, SeenShape
    <2>4. QED
      BY <2>2, <2>3 DEF LoginInv
  <1>4. CASE ReadEstablished(l)
    <2>1. /\ pc[l] = "establishing" /\ pc'[l] = "ready" /\ stream'[l] = stream[l]
          /\ toModule[l] # <<>> /\ toModule'[l] = Tail(toModule[l])
          /\ toDaemon'[l] = toDaemon[l] /\ task'[l] = task[l]
      BY <1>4 DEF ReadEstablished, taskVars
    <2>2. /\ toModule[l] \in {<<"established">>, <<"unrecognized">>} /\ toDaemon[l] = <<>>
          /\ task[l] \in {"serving", "gone"}
      BY <2>1 DEF LoginInv, CallShape, WireShape, Establishing, Quiet, Asking
    <2>3. toModule'[l] = <<>>
      <3>1. Tail(<<"established">>) = <<>> /\ Tail(<<"unrecognized">>) = <<>>
        BY OneMessage
      <3>2. QED
        BY <2>1, <2>2, <3>1, Zenon
    <2>4. WireShape(l)'
      BY <2>1, <2>2, <2>3, NothingIsNotified DEF WireShape, Quiet
    <2>5. CallShape(l)' /\ SeenShape(l)'
      BY <1>1, <1>2, <2>1 DEF LoginInv, CallShape, SeenShape
    <2>6. QED
      BY <2>4, <2>5 DEF LoginInv
  <1>5. CASE EndLogin(l)
    <2>1. pc[l] = "idle" /\ pc'[l] = "ended" /\ stream'[l] = "none"
      BY <1>5 DEF EndLogin
    <2>2. WireShape(l)' /\ CallShape(l)' /\ SeenShape(l)'
      BY <1>1, <1>2, <2>1 DEF LoginInv, CallShape, WireShape, SeenShape
    <2>3. QED
      BY <2>2 DEF LoginInv
  <1>6. QED
    BY <1>3, <1>4, <1>5

-----------------------------------------------------------------------------
(* The steps of the daemon keep the invariant of a login.                   *)

\* The judgement is one the daemon can give at that moment.
LEMMA JudgementIsInOutlook ==
  ASSUME PamTypeOK, IndexShape, NEW l \in Logins
  PROVE  IF IsUserSessionOpenBlocked(UserOf[l]) THEN "blocked" \in Outlook(l)
                                                ELSE "free" \in Outlook(l)
  <1>1. CASE IsUserSessionOpenBlocked(UserOf[l])
    <2> DEFINE id == nameIndex[UserOf[l]]
    <2>1. id \in Present /\ blocked[id] /\ NameOf[id] = UserOf[l]
      BY <1>1, PamLoginAssumption DEF IsUserSessionOpenBlocked, IndexShape, Present
    <2>2. SomeProfileBlocks(UserOf[l])
      BY <2>1 DEF SomeProfileBlocks
    <2>3. QED
      BY <1>1, <2>2 DEF Outlook
  <1>2. CASE ~IsUserSessionOpenBlocked(UserOf[l])
    BY <1>2 DEF Outlook
  <1>3. QED
    BY <1>1, <1>2

\* What a step of the daemon leaves alone.
LEMMA CallIsKept ==
  ASSUME PamTypeOK, NEW l \in Logins, LoginInv(l), Record, UNCHANGED moduleVars
  PROVE  /\ CallShape(l)' /\ seen[l] \subseteq seen'[l]
         /\ call'[l] = call[l] /\ pc'[l] = pc[l] /\ stream'[l] = stream[l] /\ answer'[l] = answer[l]
  <1>1. call' = call /\ pc' = pc /\ stream' = stream /\ answer' = answer
    BY DEF moduleVars
  <1>2. seen[l] \subseteq seen'[l]
    BY <1>1, SeenGrows DEF PamTypeOK, SeenType
  <1>3. QED
    BY <1>1, <1>2 DEF LoginInv, CallShape

LEMMA EstablishKeepsInv ==
  ASSUME PamTypeOK, NEW l \in Logins, LoginInv(l), Record, Establish(l)
  PROVE  LoginInv(l)'
  <1> USE DEF PamTypeOK
  <1>1. UNCHANGED moduleVars
    BY DEF Establish
  <1>2. /\ task[l] = "establishing" /\ toDaemon'[l] = Tail(toDaemon[l])
        /\ task'[l] \in {"serving", "gone"}
        /\ \E m \in {"established", "unrecognized"} : toModule'[l] = Append(toModule[l], m)
    BY DEF Establish
  <1>3. CASE stream[l] # "open"
    BY <1>1, <1>2, <1>3, CallIsKept DEF LoginInv, CallShape, WireShape, SeenShape
  <1>4. CASE stream[l] = "open"
    <2>1. /\ pc[l] = "establishing" /\ toModule[l] = <<>>
          /\ \E token \in Tokens : toDaemon[l] = <<token>>
      BY <1>2, <1>4 DEF LoginInv, WireShape, Establishing, Quiet, Asking
    <2>2. toDaemon'[l] = <<>> /\ toModule'[l] \in {<<"established">>, <<"unrecognized">>}
      BY <1>2, <2>1, OneMessage
    <2>3. QED
      BY <1>1, <1>2, <2>1, <2>2, CallIsKept DEF LoginInv, WireShape, Establishing, SeenShape
  <1>5. QED
    BY <1>3, <1>4

LEMMA JudgeKeepsInv ==
  ASSUME PamTypeOK, IndexShape, NEW l \in Logins, LoginInv(l), Record, Judge(l)
  PROVE  LoginInv(l)'
  <1>1. UNCHANGED moduleVars /\ UNCHANGED daemonVars
    BY DEF Judge
  <1>2. /\ task[l] = "serving" /\ toDaemon[l] # <<>> /\ Head(toDaemon[l]) = "ask"
        /\ toDaemon'[l] = Tail(toDaemon[l]) /\ task'[l] = "replying"
        /\ verdict'[l] = IsUserSessionOpenBlocked(UserOf[l]) /\ toModule'[l] = toModule[l]
    BY DEF Judge, PamTypeOK
  <1>3. CASE stream[l] # "open"
    BY <1>1, <1>2, <1>3, CallIsKept DEF LoginInv, CallShape, WireShape, SeenShape
  <1>4. CASE stream[l] = "open"
    <2>1. toDaemon[l] \in Seq(Questions)
      BY DEF PamTypeOK, Questions
    <2>2. ~Quiet(l)
      BY <1>2, <2>1, ReadNotification DEF Quiet
    <2>3. pc[l] = "asked" /\ toModule[l] = <<>> /\ AskedLast(toDaemon[l])
      BY <1>2, <1>4, <2>2 DEF LoginInv, WireShape, Establishing, Asking
    <2>4. toDaemon'[l] = <<>>
      BY <1>2, <2>1, <2>3, ReadBeforeQuestion
    <2>5. WireShape(l)'
      BY <1>1, <1>2, <2>3, <2>4, CallIsKept DEF WireShape, Asking
    <2>6. Outlook(l)' \subseteq seen'[l]
      BY <2>3, OutlookIsSeen DEF LoginInv, CallShape
    <2>7. Outlook(l)' = Outlook(l)
      BY <1>1 DEF Outlook, SomeProfileBlocks, IsUserSessionOpenBlocked, Present, daemonVars
    <2>8. IF verdict'[l] THEN "blocked" \in seen'[l] ELSE "free" \in seen'[l]
      BY <1>2, <2>6, <2>7, JudgementIsInOutlook
    <2>9. SeenShape(l)'
      BY <1>1, <1>2, <2>3, <2>8, CallIsKept DEF LoginInv, SeenShape
    <2>10. QED
      BY <1>1, <2>5, <2>9, CallIsKept DEF LoginInv
  <1>5. QED
    BY <1>3, <1>4

LEMMA ReplyKeepsInv ==
  ASSUME PamTypeOK, NEW l \in Logins, LoginInv(l), Record, Reply(l)
  PROVE  LoginInv(l)'
  <1>1. UNCHANGED moduleVars
    BY DEF Reply
  <1>2. /\ task[l] = "replying" /\ task'[l] = "serving" /\ toDaemon'[l] = toDaemon[l]
        /\ toModule'[l] = Append(toModule[l], IF verdict[l] THEN "blocked" ELSE "free")
    BY DEF Reply, PamTypeOK
  <1>3. CASE stream[l] # "open"
    BY <1>1, <1>2, <1>3, CallIsKept DEF LoginInv, CallShape, WireShape, SeenShape
  <1>4. CASE stream[l] = "open"
    <2>1. pc[l] = "asked" /\ toModule[l] = <<>> /\ toDaemon[l] = <<>>
      BY <1>2, <1>4 DEF LoginInv, WireShape, Establishing, Quiet, Asking
    <2>2. toModule'[l] = <<IF verdict[l] THEN "blocked" ELSE "free">>
      BY <1>2, <2>1, OneMessage
    <2>3. WireShape(l)'
      BY <1>1, <1>2, <2>1, <2>2, CallIsKept DEF WireShape, Asking
    <2>4. IF verdict[l] THEN "blocked" \in seen'[l] ELSE "free" \in seen'[l]
      BY <1>1, <1>2, <2>1, CallIsKept DEF LoginInv, SeenShape
    <2>5. Head(toModule'[l]) \in seen'[l]
      BY <2>2, <2>4, OneMessage
    <2>6. SeenShape(l)'
      BY <1>1, <1>2, <2>5, CallIsKept DEF LoginInv, SeenShape
    <2>7. QED
      BY <1>1, <2>3, <2>6, CallIsKept DEF LoginInv
  <1>5. QED
    BY <1>3, <1>4

LEMMA HearNotificationKeepsInv ==
  ASSUME PamTypeOK, NEW l \in Logins, LoginInv(l), Record, HearNotification(l)
  PROVE  LoginInv(l)'
  <1>1. UNCHANGED moduleVars
    BY DEF HearNotification
  <1>2. /\ task[l] = "serving" /\ toDaemon[l] # <<>> /\ Head(toDaemon[l]) = "opened"
        /\ toDaemon'[l] = Tail(toDaemon[l]) /\ task'[l] = task[l] /\ toModule'[l] = toModule[l]
        /\ verdict'[l] = verdict[l]
    BY DEF HearNotification, PamTypeOK, taskVars
  <1>3. toDaemon[l] \in Seq(Questions)
    BY DEF PamTypeOK, Questions
  <1>4. SeenShape(l)'
    BY <1>1, <1>2, CallIsKept DEF LoginInv, SeenShape
  <1>5. WireShape(l)'
    <2>1. CASE Quiet(l)
      BY <1>1, <1>2, <1>3, <2>1, CallIsKept, ReadNotification DEF WireShape, Quiet
    <2>2. CASE Asking(l) /\ AskedLast(toDaemon[l])
      BY <1>1, <1>2, <1>3, <2>2, CallIsKept, ReadBeforeQuestion DEF WireShape, Asking
    <2>3. CASE stream[l] # "open"
      BY <1>1, <2>3, CallIsKept DEF WireShape
    <2>4. QED
      BY <1>2, <2>1, <2>2, <2>3 DEF LoginInv, WireShape, Establishing, Asking
  <1>6. QED
    BY <1>1, <1>4, <1>5, CallIsKept DEF LoginInv

LEMMA TaskEndsKeepsInv ==
  ASSUME PamTypeOK, NEW l \in Logins, LoginInv(l), Record, TaskEnds(l)
  PROVE  LoginInv(l)'
  <1>1. UNCHANGED moduleVars
    BY DEF TaskEnds
  <1>2. stream[l] # "open"
    BY DEF TaskEnds
  <1>3. QED
    BY <1>1, <1>2, CallIsKept DEF LoginInv, CallShape, WireShape, SeenShape

\* A task that is gone took what it had not read with it.
LEMMA GoneKeepsInv ==
  ASSUME PamTypeOK, NEW l \in Logins, LoginInv(l), Record, UNCHANGED moduleVars,
         task'[l] = "gone", toDaemon'[l] = <<>>, toModule'[l] = toModule[l]
  PROVE  LoginInv(l)'
  <1>1. WireShape(l)'
    BY CallIsKept, NothingIsNotified DEF LoginInv, WireShape, Establishing, Quiet, Asking
  <1>2. SeenShape(l)'
    BY CallIsKept DEF LoginInv, SeenShape
  <1>3. QED
    BY <1>1, <1>2, CallIsKept DEF LoginInv

-----------------------------------------------------------------------------

LEMMA PamIInvStep ==
  ASSUME PamIInv, [PamNext]_vars
  PROVE  PamIInv'
  <1> USE DEF PamIInv
  <1>1. PamTypeOK' /\ IndexShape'
    BY PamTypesStep, IndexStep
  <1>2. CASE UNCHANGED vars
    <2>1. ASSUME NEW m \in Logins
          PROVE  LoginInv(m)'
      <3>1. Untouched(m) /\ seen'[m] = seen[m]
        BY <1>2 DEF vars, moduleVars, wireVars, taskVars, Untouched
      <3>2. QED
        BY <3>1, UntouchedKeepsInv
    <2>2. QED
      BY <1>1, <2>1
  <1>3. ASSUME Record, NEW m \in Logins, Untouched(m)
        PROVE  LoginInv(m)'
    <2>1. seen[m] \subseteq seen'[m]
      BY <1>3, SeenGrows DEF PamTypeOK, SeenType, Untouched
    <2>2. QED
      BY <1>3, <2>1, UntouchedKeepsInv
  <1>4. ASSUME Record, NEW l \in Logins,
               ModuleStep(l) \/ EndLogin(l) \/ \E kind \in Calls : BeginCall(l, kind)
        PROVE  \A m \in Logins : LoginInv(m)'
    <2>1. LoginInv(l)'
      BY <1>4, BeginCallKeepsInv, FailuresKeepInv, ReadReplyKeepsInv, NotifyKeepsInv,
         AskKeepsInv, ConnectingKeepsInv DEF ModuleStep
    <2>2. QED
      BY <1>3, <1>4, <2>1, ModuleStepTouchesOne
  <1>5. ASSUME Record, NEW l \in Logins, TaskStep(l) \/ TaskFails(l)
        PROVE  \A m \in Logins : LoginInv(m)'
    <2>1. ASSUME TaskFails(l)
          PROVE  LoginInv(l)'
      <3>1. UNCHANGED moduleVars
        BY <2>1 DEF TaskFails
      <3>2. task'[l] = "gone" /\ toDaemon'[l] = <<>> /\ toModule'[l] = toModule[l]
        BY <2>1 DEF TaskFails, PamTypeOK
      <3>3. QED
        BY <1>5, <3>1, <3>2, GoneKeepsInv
    <2>2. LoginInv(l)'
      BY <1>5, <2>1, EstablishKeepsInv, JudgeKeepsInv, ReplyKeepsInv,
         HearNotificationKeepsInv, TaskEndsKeepsInv DEF TaskStep
    <2>3. QED
      BY <1>3, <1>5, <2>2, TaskStepTouchesOne
  <1>6. ASSUME Record, DaemonStep
        PROVE  \A m \in Logins : LoginInv(m)'
    <2>1. CASE Stop
      <3>1. UNCHANGED moduleVars
        BY <2>1 DEF Stop
      <3>2. ASSUME NEW m \in Logins
            PROVE  task'[m] = "gone" /\ toDaemon'[m] = <<>> /\ toModule'[m] = toModule[m]
        BY <2>1, <3>2 DEF Stop
      <3>3. QED
        BY <1>6, <3>1, <3>2, GoneKeepsInv
    <2>2. CASE Launch \/ \E id \in Profiles : RulesChange(id) \/ AddUser(id) \/ DeleteUser(id)
      <3>1. UNCHANGED <<moduleVars, wireVars, taskVars>>
        BY <2>2 DEF Launch, RulesChange, AddUser, DeleteUser
      <3>2. \A m \in Logins : Untouched(m)
        BY <3>1 DEF moduleVars, wireVars, taskVars, Untouched
      <3>3. QED
        BY <1>3, <1>6, <3>2
    <2>3. QED
      BY <1>6, <2>1, <2>2 DEF DaemonStep
  <1>7. QED
    BY <1>1, <1>2, <1>4, <1>5, <1>6 DEF PamNext

LEMMA PamIInvCorrect == PamSpec => []PamIInv
  <1>1. QED
    BY PamIInvInit, PamIInvStep, PTL DEF PamSpec

\* Whatever fails, stops or changes meanwhile, a login is denied only when a profile
\* of that user blocked him during the call (module_data.rs, server_connection.rs).
THEOREM DenialsAreJustified == PamSpec => []DeniedOnlyWhenBlocked
  <1>1. PamIInv => DeniedOnlyWhenBlocked
    BY DEF PamIInv, LoginInv, SeenShape, DeniedOnlyWhenBlocked
  <1>2. QED
    BY <1>1, PamIInvCorrect, PTL

\* A connection kept for many calls never gives a call the reply to an earlier one.
THEOREM RepliesAreThoseOfTheQuestions == PamSpec => []RepliesMatchQuestions
  <1>1. PamIInv => RepliesMatchQuestions
    <2> SUFFICES ASSUME PamIInv, NEW l \in Logins, stream[l] = "open"
                 PROVE  /\ pc[l] \in {"idle", "ready"} => toModule[l] = <<>>
                        /\ pc[l] = "establishing" =>
                             toModule[l] \in {<<>>, <<"established">>, <<"unrecognized">>}
                        /\ pc[l] = "asked" => toModule[l] \in {<<>>, <<"blocked">>, <<"free">>}
      BY DEF RepliesMatchQuestions
    <2>1. QED
      BY DEF PamIInv, LoginInv, WireShape, Establishing, Quiet, Asking
  <1>2. QED
    BY <1>1, PamIInvCorrect, PTL

\* A user whose question was answered is let in only when the daemon would have let
\* him in at some moment of the call.
THEOREM AdmissionsAreJustified == PamSpec => AllowedOnlyWhenFree
  <1>1. PamIInv /\ [PamNext]_vars =>
          [\A l \in Logins :
             ReadReply(l) /\ answer'[l] = "allowed" => "free" \in seen'[l]]_vars
    <2> SUFFICES ASSUME PamIInv, PamNext, NEW l \in Logins, ReadReply(l), answer'[l] = "allowed"
                 PROVE  "free" \in seen'[l]
      OBVIOUS
    <2>1. /\ pc[l] = "asked" /\ call[l] = "account" /\ stream[l] = "open" /\ toModule[l] # <<>>
      BY DEF ReadReply, PamIInv, LoginInv, CallShape
    <2>2. toModule[l] \in {<<"blocked">>, <<"free">>}
      BY <2>1 DEF PamIInv, LoginInv, WireShape, Establishing, Quiet, Asking
    <2>3. answer'[l] = (IF Head(toModule[l]) = "blocked" THEN "denied" ELSE "allowed")
      BY <2>1 DEF ReadReply, Return, PamIInv, PamTypeOK
    <2>4. Head(toModule[l]) = "free"
      BY <2>2, <2>3, OneMessage
    <2>5. "free" \in seen[l]
      BY <2>1, <2>4 DEF PamIInv, LoginInv, SeenShape
    <2>6. seen[l] \subseteq seen'[l]
      BY <2>1, SeenGrows DEF PamIInv, PamTypeOK, SeenType, PamNext
    <2>7. QED
      BY <2>5, <2>6
  <1>2. QED
    BY <1>1, PamIInvCorrect, PTL DEF PamSpec, AllowedOnlyWhenFree

-----------------------------------------------------------------------------
(* Why every call returns.  What TLC checks as EveryCallReturns rests on two *)
(* facts about steps, proved here for any number of logins: a call under way *)
(* always has a step that its module or its task can take, and every such    *)
(* step brings the end of the call nearer, while no other step of anyone     *)
(* takes it farther away.                                                    *)

\* The steps a module can take that is not waiting, and those of a task.
ModuleCanGoOn(l) ==
  \/ pc[l] \in {"unconnected", "ready"}
  \/ pc[l] \in {"establishing", "asked"} /\ (toModule[l] # <<>> \/ task[l] = "gone")

TaskCanGoOn(l) ==
  \/ task[l] = "establishing" /\ toDaemon[l] # <<>>
  \/ task[l] = "serving" /\ toDaemon[l] # <<>> /\ Head(toDaemon[l]) \in {"ask", "opened"}
  \/ task[l] = "replying"

\* What a call has before it, and what its task still has to do for it.
Distance(l) ==
  [idle |-> 0, ended |-> 0, asked |-> 1, ready |-> 2, establishing |-> 3,
   unconnected |-> 4][pc[l]]

Work(l) ==
  3 * Len(toDaemon[l]) + [gone |-> 0, serving |-> 1, establishing |-> 2, replying |-> 2][task[l]]

Nearer(l) ==
  \/ Distance(l)' < Distance(l)
  \/ Distance(l)' = Distance(l) /\ Work(l)' < Work(l)

NoFarther(l) ==
  Nearer(l) \/ (Distance(l)' = Distance(l) /\ Work(l)' = Work(l))

LEMMA RanksAreNumbers ==
  ASSUME PamTypeOK, NEW l \in Logins
  PROVE  Distance(l) \in Nat /\ Work(l) \in Nat
  <1>1. pc[l] \in {"idle", "unconnected", "establishing", "ready", "asked", "ended"}
    BY DEF PamTypeOK
  <1>2. task[l] \in {"establishing", "serving", "replying", "gone"}
    BY DEF PamTypeOK
  <1>3. Len(toDaemon[l]) \in Nat
    BY DEF PamTypeOK
  <1>4. Distance(l) \in Nat
    BY <1>1 DEF Distance
  <1>5. Work(l) \in Nat
    BY <1>2, <1>3 DEF Work
  <1>6. QED
    BY <1>4, <1>5

\* Every step of the module takes its call to a place nearer to the end.
LEMMA ModuleStepComesNearer ==
  ASSUME PamTypeOK, NEW l \in Logins, ModuleStep(l)
  PROVE  Distance(l)' < Distance(l)
  <1> USE DEF PamTypeOK, Distance, Return
  <1>1. CASE PamFails(l)
    BY <1>1 DEF PamFails
  <1>2. CASE Connect(l)
    BY <1>2 DEF Connect
  <1>3. CASE ConnectFails(l)
    BY <1>3 DEF ConnectFails
  <1>4. CASE ReadEstablished(l) \/ SetDataFails(l)
    BY <1>4 DEF ReadEstablished, SetDataFails
  <1>5. CASE EstablishFails(l)
    BY <1>5 DEF EstablishFails
  <1>6. CASE Ask(l)
    BY <1>6 DEF Ask
  <1>7. CASE ReadReply(l)
    BY <1>7 DEF ReadReply
  <1>8. CASE Notify(l)
    BY <1>8 DEF Notify
  <1>9. CASE StreamFails(l) \/ MessageFails(l)
    BY <1>9 DEF StreamFails, MessageFails
  <1>10. QED
    BY <1>1, <1>2, <1>3, <1>4, <1>5, <1>6, <1>7, <1>8, <1>9 DEF ModuleStep

\* A task reads a message, or writes the reply it owes, or ends.
LEMMA ReadingShortens ==
  ASSUME NEW s \in Seq(Questions), s # <<>>
  PROVE  Len(s) \in Nat /\ Len(s) >= 1 /\ Len(Tail(s)) = Len(s) - 1
  OBVIOUS

LEMMA TaskStepWorks ==
  ASSUME PamTypeOK, NEW l \in Logins, TaskStep(l) \/ TaskFails(l)
  PROVE  Distance(l)' = Distance(l) /\ Work(l)' < Work(l)
  <1>1. toDaemon[l] \in Seq(Questions) /\ Len(toDaemon[l]) \in Nat
    BY DEF PamTypeOK, Questions
  <1>2. task[l] \in {"establishing", "serving", "replying", "gone"}
    BY DEF PamTypeOK
  <1>3. pc'[l] = pc[l]
    BY DEF TaskStep, Establish, Judge, Reply, HearNotification, TaskEnds, TaskFails, moduleVars
  <1>4. Distance(l)' = Distance(l)
    BY <1>3 DEF Distance
  <1>5. ASSUME toDaemon[l] # <<>>, toDaemon'[l] = Tail(toDaemon[l]),
               \/ task[l] = "establishing" /\ task'[l] \in {"serving", "gone"}
               \/ task[l] = "serving" /\ task'[l] \in {"serving", "replying"}
        PROVE  Work(l)' < Work(l)
    <2>1. /\ Len(toDaemon[l]) >= 1
          /\ Len(toDaemon'[l]) = Len(toDaemon[l]) - 1
      BY <1>1, <1>5, ReadingShortens
    <2>2. QED
      BY <1>1, <1>5, <2>1 DEF Work
  <1>6. CASE Establish(l) \/ Judge(l) \/ HearNotification(l)
    <2>1. /\ toDaemon[l] # <<>> /\ toDaemon'[l] = Tail(toDaemon[l])
          /\ \/ task[l] = "establishing" /\ task'[l] \in {"serving", "gone"}
             \/ task[l] = "serving" /\ task'[l] \in {"serving", "replying"}
      BY <1>6 DEF PamTypeOK, Establish, Judge, HearNotification, taskVars
    <2>2. QED
      BY <1>4, <1>5, <2>1
  <1>7. CASE Reply(l)
    <2>1. toDaemon'[l] = toDaemon[l] /\ task[l] = "replying" /\ task'[l] = "serving"
      BY <1>7 DEF PamTypeOK, Reply
    <2>2. QED
      BY <1>1, <1>4, <2>1 DEF Work
  <1>8. CASE TaskEnds(l)
    <2>1. toDaemon'[l] = toDaemon[l] /\ task[l] # "gone" /\ task'[l] = "gone"
      BY <1>8 DEF PamTypeOK, TaskEnds, wireVars
    <2>2. QED
      BY <1>1, <1>2, <1>4, <2>1 DEF Work
  <1>9. CASE TaskFails(l)
    <2>1. toDaemon'[l] = <<>> /\ task[l] # "gone" /\ task'[l] = "gone"
      BY <1>9 DEF PamTypeOK, TaskFails
    <2>2. Len(toDaemon'[l]) = 0
      BY <2>1
    <2>3. QED
      BY <1>1, <1>2, <1>4, <2>1, <2>2 DEF Work
  <1>10. QED
    BY <1>4, <1>6, <1>7, <1>8, <1>9 DEF TaskStep

\* The stop of the daemon leaves nothing to do; its other steps change no work.
LEMMA DaemonStepTakesNoneFarther ==
  ASSUME PamTypeOK, DaemonStep, NEW l \in Logins
  PROVE  NoFarther(l)
  <1>1. pc'[l] = pc[l]
    BY DEF DaemonStep, Stop, Launch, RulesChange, AddUser, DeleteUser, moduleVars
  <1>2. Distance(l)' = Distance(l)
    BY <1>1 DEF Distance
  <1>3. CASE Stop
    <2>1. task'[l] = "gone" /\ toDaemon'[l] = <<>>
      BY <1>3 DEF Stop
    <2>2. Work(l)' = 0
      BY <2>1 DEF Work
    <2>3. Work(l) \in Nat
      BY RanksAreNumbers
    <2>4. QED
      BY <1>2, <2>2, <2>3 DEF NoFarther, Nearer
  <1>4. CASE Launch \/ \E id \in Profiles : RulesChange(id) \/ AddUser(id) \/ DeleteUser(id)
    <2>1. toDaemon' = toDaemon /\ task' = task
      BY <1>4 DEF Launch, RulesChange, AddUser, DeleteUser, wireVars, taskVars
    <2>2. QED
      BY <1>2, <2>1 DEF NoFarther, Work
  <1>5. QED
    BY <1>3, <1>4 DEF DaemonStep

\* A login that is left alone stays where it is.
LEMMA UntouchedStays ==
  ASSUME NEW l \in Logins, Untouched(l)
  PROVE  NoFarther(l)
  BY DEF Untouched, NoFarther, Distance, Work

\* No call waits for what nobody will write: while one is under way, its module can
\* go on, or its task can, which has something to read or a reply to write
\* (client_connection.rs reads without a timeout).
THEOREM NobodyWaitsForNothing ==
  PamSpec => [](\A l \in Logins : call[l] # "none" => ModuleCanGoOn(l) \/ TaskCanGoOn(l))
  <1>1. ASSUME PamIInv, NEW l \in Logins, call[l] # "none"
        PROVE  ModuleCanGoOn(l) \/ TaskCanGoOn(l)
    <2>1. pc[l] \in {"unconnected", "establishing", "ready", "asked"}
      BY <1>1 DEF PamIInv, PamTypeOK, LoginInv, CallShape
    <2>2. toDaemon[l] \in Seq(Questions)
      BY <1>1 DEF PamIInv, PamTypeOK, Questions
    <2>3. CASE pc[l] = "establishing"
      <3>1. Establishing(l)
        BY <1>1, <2>3 DEF PamIInv, LoginInv, CallShape, WireShape, Quiet, Asking
      <3>2. QED
        BY <2>3, <3>1, OneMessage DEF Establishing, ModuleCanGoOn, TaskCanGoOn
    <2>4. CASE pc[l] = "asked"
      <3>1. Asking(l)
        BY <1>1, <2>4 DEF PamIInv, LoginInv, CallShape, WireShape, Quiet, Establishing
      <3>2. CASE task[l] = "serving" /\ AskedLast(toDaemon[l])
        BY <2>2, <3>2, ReadBeforeQuestion DEF AskedLast, TaskCanGoOn
      <3>3. CASE task[l] = "replying" \/ task[l] = "gone" \/ toModule[l] # <<>>
        BY <2>4, <3>3 DEF ModuleCanGoOn, TaskCanGoOn
      <3>4. QED
        BY <3>1, <3>2, <3>3, OneMessage DEF Asking
    <2>5. QED
      BY <2>1, <2>3, <2>4 DEF ModuleCanGoOn
  <1>2. PamIInv => \A l \in Logins : call[l] # "none" => ModuleCanGoOn(l) \/ TaskCanGoOn(l)
    BY <1>1
  <1>3. QED
    BY <1>2, PamIInvCorrect, PTL

\* Every step of the module and of the task brings the call of its login nearer to
\* its return, and no step of PAM, of another login or of the daemon takes a call
\* farther from it: the fairness of the two is enough for a call to return.
THEOREM CallsComeNearerToTheirEnd ==
  PamSpec =>
    [][\A l \in Logins :
         call[l] # "none" =>
           /\ NoFarther(l)
           /\ ModuleStep(l) \/ TaskStep(l) \/ TaskFails(l) => Nearer(l)]_vars
  <1>1. ASSUME PamIInv, PamNext, NEW l \in Logins, call[l] # "none"
        PROVE  /\ NoFarther(l)
               /\ ModuleStep(l) \/ TaskStep(l) \/ TaskFails(l) => Nearer(l)
    <2>1. PamTypeOK /\ CallShape(l)
      BY <1>1 DEF PamIInv, LoginInv
    <2>2. ASSUME ModuleStep(l) \/ TaskStep(l) \/ TaskFails(l)
          PROVE  Nearer(l)
      BY <1>1, <2>1, <2>2, ModuleStepComesNearer, TaskStepWorks DEF Nearer
    <2>3. ASSUME NEW m \in Logins,
                 ModuleStep(m) \/ EndLogin(m) \/ \E kind \in Calls : BeginCall(m, kind)
          PROVE  NoFarther(l)
      <3>1. CASE m # l
        BY <2>1, <2>3, <3>1, ModuleStepTouchesOne, UntouchedStays
      <3>2. CASE m = l /\ ModuleStep(l)
        BY <2>2, <3>2 DEF NoFarther
      <3>3. CASE m = l /\ (EndLogin(l) \/ \E kind \in Calls : BeginCall(l, kind))
        BY <1>1, <2>1, <3>3 DEF CallShape, EndLogin, BeginCall
      <3>4. QED
        BY <2>3, <3>1, <3>2, <3>3
    <2>4. ASSUME NEW m \in Logins, TaskStep(m) \/ TaskFails(m)
          PROVE  NoFarther(l)
      <3>1. CASE m # l
        BY <2>1, <2>4, <3>1, TaskStepTouchesOne, UntouchedStays
      <3>2. CASE m = l
        BY <2>2, <2>4, <3>2 DEF NoFarther
      <3>3. QED
        BY <3>1, <3>2
    <2>5. ASSUME DaemonStep
          PROVE  NoFarther(l)
      BY <2>1, <2>5, DaemonStepTakesNoneFarther
    <2>6. NoFarther(l)
      BY <1>1, <2>3, <2>4, <2>5 DEF PamNext
    <2>7. QED
      BY <2>2, <2>6
  <1>2. PamIInv /\ [PamNext]_vars =>
          [\A l \in Logins :
             call[l] # "none" =>
               /\ NoFarther(l)
               /\ ModuleStep(l) \/ TaskStep(l) \/ TaskFails(l) => Nearer(l)]_vars
    BY <1>1
  <1>3. QED
    BY <1>2, PamIInvCorrect, PTL DEF PamSpec

\* After a failure the stream is shut down and kept, and nothing sets the field of
\* ClientStream that would make a later call connect again (client_connection.rs):
\* until its end the login asks the daemon nothing more, and is denied nothing more.
THEOREM AFailedStreamAsksNoMore ==
  PamSpec =>
    [][\A l \in Logins :
         stream[l] = "shut" =>
           /\ stream'[l] = "shut" \/ pc'[l] = "ended"
           /\ pc'[l] \notin {"establishing", "asked"}
           /\ answer'[l] = "denied" => answer[l] = "denied"]_vars
  <1>1. ASSUME PamIInv, PamNext, NEW l \in Logins, stream[l] = "shut"
        PROVE  /\ stream'[l] = "shut" \/ pc'[l] = "ended"
               /\ pc'[l] \notin {"establishing", "asked"}
               /\ answer'[l] = "denied" => answer[l] = "denied"
    <2>1. PamTypeOK /\ CallShape(l)
      BY <1>1 DEF PamIInv, LoginInv
    <2>2. pc[l] \in {"idle", "ready"}
      BY <1>1, <2>1 DEF PamTypeOK, CallShape
    <2>3. CASE Untouched(l)
      BY <1>1, <2>2, <2>3 DEF Untouched
    <2>4. CASE ModuleStep(l)
      <3>1. PamFails(l) \/ StreamFails(l)
        BY <1>1, <2>2, <2>4 DEF ModuleStep, Connect, ConnectFails, ReadEstablished, SetDataFails,
             EstablishFails, Ask, ReadReply, Notify, MessageFails, Writable
      <3>2. QED
        BY <1>1, <2>1, <3>1 DEF PamTypeOK, PamFails, StreamFails, Return
    <2>5. CASE EndLogin(l)
      BY <1>1, <2>1, <2>5 DEF PamTypeOK, EndLogin
    <2>6. ASSUME NEW kind \in Calls, BeginCall(l, kind)
          PROVE  /\ stream'[l] = "shut" /\ pc'[l] = "ready"
                 /\ answer'[l] \in {"none", answer[l]}
      BY <1>1, <2>1, <2>6 DEF PamTypeOK, BeginCall
    <2>7. CASE UNCHANGED moduleVars
      BY <1>1, <2>2, <2>7 DEF moduleVars
    <2>8. ASSUME NEW m \in Logins, m # l,
                 ModuleStep(m) \/ EndLogin(m) \/ \E kind \in Calls : BeginCall(m, kind)
          PROVE  Untouched(l)
      BY <2>1, <2>8, ModuleStepTouchesOne
    <2>9. ASSUME NEW m \in Logins, TaskStep(m) \/ TaskFails(m)
          PROVE  UNCHANGED moduleVars
      BY <2>9 DEF TaskStep, TaskFails, Establish, Judge, Reply, HearNotification, TaskEnds
    <2>10. ASSUME DaemonStep
           PROVE  UNCHANGED moduleVars
      BY <2>10 DEF DaemonStep, Stop, Launch, RulesChange, AddUser, DeleteUser
    <2>11. QED
      BY <1>1, <2>3, <2>4, <2>5, <2>6, <2>7, <2>8, <2>9, <2>10 DEF PamNext
  <1>2. PamIInv /\ [PamNext]_vars =>
          [\A l \in Logins :
             stream[l] = "shut" =>
               /\ stream'[l] = "shut" \/ pc'[l] = "ended"
               /\ pc'[l] \notin {"establishing", "asked"}
               /\ answer'[l] = "denied" => answer[l] = "denied"]_vars
    BY <1>1
  <1>3. QED
    BY <1>2, PamIInvCorrect, PTL DEF PamSpec
=============================================================================
