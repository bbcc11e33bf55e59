------------------------------ MODULE PamLogin -------------------------------
(***************************************************************************)
(* A login on Linux.  PAM loads discipline_linux_pam_module into the       *)
(* program that logs a user in; the module connects to the daemon over a   *)
(* Unix stream, proves itself with a token, and asks whether the user's    *)
(* session is blocked.  Each PAM handle (a login) has a connection of its  *)
(* own, served by a task of the daemon, which reads the user profiles      *)
(* while other tasks change them.  The daemon may stop at any moment, and  *)
(* the module lets the user in whenever it cannot get an answer.           *)
(*                                                                         *)
(* pam_get_data, pam_get_user and the configuration file are outside the   *)
(* repository: each may fail.  The loop that accepts connections is not    *)
(* written yet (protocol/server.rs), so a connection has its task from     *)
(* the moment it is made.                                                  *)
(***************************************************************************)
EXTENDS Integers, Sequences

CONSTANTS
  Logins,         \* PAM handles
  Profiles,       \* ids of user profiles, never used twice
  Names,          \* names of users of the operating system
  UserOf,         \* of each login: the name of its user
  NameOf,         \* of each profile: its user_name
  FirstProfiles,  \* the profiles that exist at the beginning
  MaxCalls,       \* bound on the PAM calls of a login
  MaxStops,       \* bound on the stops of the daemon
  NoProfile

ASSUME PamLoginAssumption ==
  /\ UserOf \in [Logins -> Names]
  /\ NameOf \in [Profiles -> Names]
  /\ FirstProfiles \subseteq Profiles
  /\ MaxCalls \in Nat
  /\ MaxStops \in Nat
  /\ NoProfile \notin Profiles

VARIABLES
  daemon,    \* "up" or "down"
  stops,     \* how often the daemon has stopped
  profile,   \* of each id: "unused", "present" or "deleted"
  nameIndex, \* user_names_to_profile_ids
  blocked,   \* of each profile: whether some rule of its screen is active
  call,      \* of each login: the PAM call it is in, or "none"
  calls,     \* of each login: how many calls it has begun
  pc,        \* of each login: where it is in that call
  stream,    \* of each login: its end of the connection: "none", "open" or "shut"
  toDaemon,  \* of each connection: the messages the daemon has not read
  toModule,  \* of each connection: the replies the module has not read
  task,      \* of each connection: what its task in the daemon is doing
  verdict,   \* of each connection: the reply its task is about to write
  answer,    \* of each login: what its last pam_sm_acct_mgmt returned
  seen       \* of each login: what the daemon could have said since that call began

daemonVars == <<daemon, stops, profile, nameIndex, blocked>>
moduleVars == <<call, calls, pc, stream, answer>>
wireVars   == <<toDaemon, toModule>>
taskVars   == <<task, verdict>>
vars       == <<daemonVars, moduleVars, wireVars, taskVars, seen>>

Calls == {"account", "open", "close"}

\* What the configuration may hold when it is loaded: the daemon's token or another.
Tokens == {"token", "another token"}

-----------------------------------------------------------------------------
(* The user profiles.                                                       *)

Present == {id \in Profiles : profile[id] = "present"}

\* UserProfiles::construct: the index of the profiles by the name of their user,
\* with one of the profiles when several have that name.
IndexesOf(ids) ==
  {f \in [Names -> ids \union {NoProfile}] :
     \A name \in Names :
       IF \E id \in ids : NameOf[id] = name
       THEN f[name] \in ids /\ NameOf[f[name]] = name
       ELSE f[name] = NoProfile}

\* Mutant: the profile is taken without looking whether it still exists.
IsBlockedThroughIndex(name) ==
  nameIndex[name] # NoProfile /\ blocked[nameIndex[name]]

\* Daemon::is_user_session_open_blocked: through the index, then the profile.
IsUserSessionOpenBlocked(name) ==
  LET id == nameIndex[name]
  IN  id \in Present /\ blocked[id]

\* Whether some profile of that user blocks him, index or not.
SomeProfileBlocks(name) ==
  \E id \in Present : NameOf[id] = name /\ blocked[id]

-----------------------------------------------------------------------------
(* The module.  A call that cannot go on returns PAM_SUCCESS.               *)

PamInit ==
  /\ daemon = "up"
  /\ stops = 0
  /\ profile = [id \in Profiles |-> IF id \in FirstProfiles THEN "present" ELSE "unused"]
  /\ nameIndex \in IndexesOf(FirstProfiles)
  /\ blocked \in [Profiles -> BOOLEAN]
  /\ call = [l \in Logins |-> "none"]
  /\ calls = [l \in Logins |-> 0]
  /\ pc = [l \in Logins |-> "idle"]
  /\ stream = [l \in Logins |-> "none"]
  /\ toDaemon = [l \in Logins |-> <<>>]
  /\ toModule = [l \in Logins |-> <<>>]
  /\ task = [l \in Logins |-> "gone"]
  /\ verdict = [l \in Logins |-> FALSE]
  /\ answer = [l \in Logins |-> "none"]
  /\ seen = [l \in Logins |-> {}]

\* The call ends; pam_sm_acct_mgmt answers what it was given, the others have
\* no answer to give.
Return(l, result) ==
  /\ pc' = [pc EXCEPT ![l] = "idle"]
  /\ call' = [call EXCEPT ![l] = "none"]
  /\ answer' = [answer EXCEPT ![l] = IF call[l] = "account" THEN result ELSE @]

\* PAM enters the module; a login that ended is not used again.
BeginCall(l, kind) ==
  /\ pc[l] = "idle"
  /\ calls[l] < MaxCalls
  /\ call' = [call EXCEPT ![l] = kind]
  /\ calls' = [calls EXCEPT ![l] = @ + 1]
  /\ pc' = [pc EXCEPT ![l] = IF stream[l] = "none" THEN "unconnected" ELSE "ready"]
  /\ answer' = [answer EXCEPT ![l] = IF kind = "account" THEN "none" ELSE @]
  /\ UNCHANGED <<daemonVars, stream, wireVars, taskVars>>

\* PAM gives no data, or no user: the call returns.
PamFails(l) ==
  /\ pc[l] \in {"unconnected", "ready"}
  /\ Return(l, "allowed")
  /\ UNCHANGED <<daemonVars, calls, stream, wireVars, taskVars>>

\* ModuleData::open loads the configuration; ClientConnection::connect, up to the
\* reply it waits for.
Connect(l) ==
  /\ pc[l] = "unconnected"
  /\ daemon = "up"
  /\ pc' = [pc EXCEPT ![l] = "establishing"]
  /\ stream' = [stream EXCEPT ![l] = "open"]
  /\ \E token \in Tokens : toDaemon' = [toDaemon EXCEPT ![l] = <<token>>]
  /\ toModule' = [toModule EXCEPT ![l] = <<>>]
  /\ task' = [task EXCEPT ![l] = "establishing"]
  /\ UNCHANGED <<daemonVars, call, calls, answer, verdict>>

\* Nobody listens at the path of the socket.
NobodyListens ==
  /\ daemon = "down"
  /\ UNCHANGED <<wireVars, taskVars>>

\* The daemon took the connection, but the token cannot be written to it: the
\* connection is dropped and its task finds nothing to read.
TokenIsNotWritten(l) ==
  /\ daemon = "up"
  /\ toDaemon' = [toDaemon EXCEPT ![l] = <<>>]
  /\ toModule' = [toModule EXCEPT ![l] = <<>>]
  /\ task' = [task EXCEPT ![l] = "establishing"]
  /\ UNCHANGED verdict

ConnectFails(l) ==
  /\ pc[l] = "unconnected"
  /\ NobodyListens \/ TokenIsNotWritten(l)
  /\ Return(l, "allowed")
  /\ UNCHANGED <<daemonVars, calls, stream>>

\* The connection is established, and pam_set_data keeps it for the next calls.
ReadEstablished(l) ==
  /\ pc[l] = "establishing"
  /\ toModule[l] # <<>> /\ Head(toModule[l]) = "established"
  /\ toModule' = [toModule EXCEPT ![l] = Tail(@)]
  /\ pc' = [pc EXCEPT ![l] = "ready"]
  /\ UNCHANGED <<daemonVars, call, calls, stream, answer, toDaemon, taskVars>>

\* The connection is established, but pam_set_data fails: the module data is freed,
\* its connection with it, and the next call makes another.  The task of a dropped
\* connection can only end, so that a login needs no second one here.
SetDataFails(l) ==
  /\ pc[l] = "establishing"
  /\ toModule[l] # <<>> /\ Head(toModule[l]) = "established"
  /\ toModule' = [toModule EXCEPT ![l] = Tail(@)]
  /\ stream' = [stream EXCEPT ![l] = "none"]
  /\ Return(l, "allowed")
  /\ UNCHANGED <<daemonVars, calls, toDaemon, taskVars>>

\* The token is not recognized, the reply cannot be read, or the stream ends before
\* it: there is no module data, and its connection is dropped.
EstablishFails(l) ==
  /\ pc[l] = "establishing"
  /\ toModule[l] # <<>> \/ task[l] = "gone"
  /\ stream' = [stream EXCEPT ![l] = "none"]
  /\ Return(l, "allowed")
  /\ UNCHANGED <<daemonVars, calls, wireVars, taskVars>>

\* The stream can be written to until either end closes it.
Writable(l) == stream[l] = "open" /\ task[l] # "gone"

Send(l, message) == toDaemon' = [toDaemon EXCEPT ![l] = Append(@, message)]

\* write_is_user_session_open_blocked.
Ask(l) ==
  /\ pc[l] = "ready" /\ call[l] = "account"
  /\ Writable(l)
  /\ Send(l, "ask")
  /\ pc' = [pc EXCEPT ![l] = "asked"]
  /\ UNCHANGED <<daemonVars, call, calls, stream, answer, toModule, taskVars>>

\* read_is_user_session_open_blocked_reply, and what pam_sm_acct_mgmt makes of it.
ReadReply(l) ==
  /\ pc[l] = "asked"
  /\ toModule[l] # <<>>
  /\ toModule' = [toModule EXCEPT ![l] = Tail(@)]
  /\ Return(l, IF Head(toModule[l]) = "blocked" THEN "denied" ELSE "allowed")
  /\ UNCHANGED <<daemonVars, calls, stream, toDaemon, taskVars>>

\* The notifications; that of a closed session is written as one of an opened
\* session.
Notify(l) ==
  /\ pc[l] = "ready" /\ call[l] \in {"open", "close"}
  /\ Writable(l)
  /\ Send(l, "opened")
  /\ Return(l, "allowed")
  /\ UNCHANGED <<daemonVars, calls, stream, toModule, taskVars>>

\* Mutant: the end of the stream is read as a reply that is not complete yet.
StreamFailsWriting(l) ==
  /\ pc[l] = "ready" /\ ~Writable(l)
  /\ stream' = [stream EXCEPT ![l] = "shut"]
  /\ Return(l, "allowed")
  /\ UNCHANGED <<daemonVars, calls, wireVars, taskVars>>

\* A write or a read of ClientStream fails because the other end is gone: the stream
\* is shut down.  Nothing sets its field closed, so that no later call connects
\* again.
StreamFails(l) ==
  /\ \/ pc[l] = "ready" /\ ~Writable(l)
     \/ pc[l] = "asked" /\ toModule[l] = <<>> /\ task[l] = "gone"
  /\ stream' = [stream EXCEPT ![l] = "shut"]
  /\ Return(l, "allowed")
  /\ UNCHANGED <<daemonVars, calls, wireVars, taskVars>>

\* It fails although the stream is whole: the message cannot be serialized or is
\* longer than 89 bytes, or what arrived is not a message.  The stream is shut down
\* all the same, while its task still serves it.
MessageFails(l) ==
  /\ \/ pc[l] = "ready" /\ Writable(l)
     \/ pc[l] = "asked" /\ toModule[l] # <<>>
  /\ toModule' = [toModule EXCEPT ![l] = <<>>]
  /\ stream' = [stream EXCEPT ![l] = "shut"]
  /\ Return(l, "allowed")
  /\ UNCHANGED <<daemonVars, calls, toDaemon, taskVars>>

\* pam_end: cleanup frees the module data, and with it the connection.
EndLogin(l) ==
  /\ pc[l] = "idle"
  /\ pc' = [pc EXCEPT ![l] = "ended"]
  /\ stream' = [stream EXCEPT ![l] = "none"]
  /\ UNCHANGED <<daemonVars, call, calls, answer, wireVars, taskVars>>

-----------------------------------------------------------------------------
(* The daemon: one task for each connection.                                *)

\* ServerConnection::establish.
Establish(l) ==
  /\ task[l] = "establishing"
  /\ toDaemon[l] # <<>>
  /\ toDaemon' = [toDaemon EXCEPT ![l] = Tail(@)]
  /\ LET isRecognized == Head(toDaemon[l]) = "token"
     IN  /\ toModule' = [toModule EXCEPT ![l] =
              Append(@, IF isRecognized THEN "established" ELSE "unrecognized")]
         /\ task' = [task EXCEPT ![l] = IF isRecognized THEN "serving" ELSE "gone"]
  /\ UNCHANGED <<daemonVars, moduleVars, verdict>>

\* start_auto_processing reads a question and asks the daemon.
Judge(l) ==
  /\ task[l] = "serving"
  /\ toDaemon[l] # <<>> /\ Head(toDaemon[l]) = "ask"
  /\ toDaemon' = [toDaemon EXCEPT ![l] = Tail(@)]
  /\ task' = [task EXCEPT ![l] = "replying"]
  /\ verdict' = [verdict EXCEPT ![l] = IsUserSessionOpenBlocked(UserOf[l])]
  /\ UNCHANGED <<daemonVars, moduleVars, toModule>>

\* Mutant: the reply is written with the default of its field.
ReplyDefault(l) ==
  /\ task[l] = "replying"
  /\ toModule' = [toModule EXCEPT ![l] = Append(@, "free")]
  /\ task' = [task EXCEPT ![l] = "serving"]
  /\ UNCHANGED <<daemonVars, moduleVars, toDaemon, verdict>>

\* It writes the reply; meanwhile the profiles may have changed.
Reply(l) ==
  /\ task[l] = "replying"
  /\ toModule' = [toModule EXCEPT ![l] = Append(@, IF verdict[l] THEN "blocked" ELSE "free")]
  /\ task' = [task EXCEPT ![l] = "serving"]
  /\ UNCHANGED <<daemonVars, moduleVars, toDaemon, verdict>>

\* Mutant: a notification is acknowledged like a question.
HearNotificationAndReply(l) ==
  /\ task[l] = "serving"
  /\ toDaemon[l] # <<>> /\ Head(toDaemon[l]) = "opened"
  /\ toDaemon' = [toDaemon EXCEPT ![l] = Tail(@)]
  /\ toModule' = [toModule EXCEPT ![l] = Append(@, "free")]
  /\ UNCHANGED <<daemonVars, moduleVars, taskVars>>

\* Mutant: a notification has an acknowledgement of its own.
HearNotificationAndAcknowledge(l) ==
  /\ task[l] = "serving"
  /\ toDaemon[l] # <<>> /\ Head(toDaemon[l]) = "opened"
  /\ toDaemon' = [toDaemon EXCEPT ![l] = Tail(@)]
  /\ toModule' = [toModule EXCEPT ![l] = Append(@, "heard")]
  /\ UNCHANGED <<daemonVars, moduleVars, taskVars>>

\* It reads a notification; what the profile makes of it is not written yet.
HearNotification(l) ==
  /\ task[l] = "serving"
  /\ toDaemon[l] # <<>> /\ Head(toDaemon[l]) = "opened"
  /\ toDaemon' = [toDaemon EXCEPT ![l] = Tail(@)]
  /\ UNCHANGED <<daemonVars, moduleVars, toModule, taskVars>>

\* The module's end is closed and everything it wrote is read: the next read fails
\* and the task ends.
TaskEnds(l) ==
  /\ task[l] \in {"establishing", "serving"}
  /\ stream[l] # "open"
  /\ toDaemon[l] = <<>>
  /\ task' = [task EXCEPT ![l] = "gone"]
  /\ UNCHANGED <<daemonVars, moduleVars, wireVars, verdict>>

\* A read or a write fails while the module's end is open: the task returns, and
\* its end of the stream is closed with what it had not read.
TaskFails(l) ==
  /\ task[l] # "gone"
  /\ task' = [task EXCEPT ![l] = "gone"]
  /\ toDaemon' = [toDaemon EXCEPT ![l] = <<>>]
  /\ UNCHANGED <<daemonVars, moduleVars, toModule, verdict>>

\* The daemon stops: its tasks are gone, and with them what they had not read;
\* what they had written can still be read.
Stop ==
  /\ daemon = "up"
  /\ stops < MaxStops
  /\ daemon' = "down"
  /\ stops' = stops + 1
  /\ task' = [l \in Logins |-> "gone"]
  /\ toDaemon' = [l \in Logins |-> <<>>]
  /\ UNCHANGED <<profile, nameIndex, blocked, moduleVars, toModule, verdict>>

\* It starts again with the profiles it kept, and makes the index of their names.
Launch ==
  /\ daemon = "down"
  /\ daemon' = "up"
  /\ nameIndex' \in IndexesOf(Present)
  /\ UNCHANGED <<stops, profile, blocked, moduleVars, wireVars, taskVars>>

\* A rule of a profile becomes active or stops being active: is_session_open_blocked.
RulesChange(id) ==
  /\ blocked' = [blocked EXCEPT ![id] = ~@]
  /\ UNCHANGED <<daemon, stops, profile, nameIndex, moduleVars, wireVars, taskVars>>

\* UserProfiles::add_user and delete_user; neither touches the index.
AddUser(id) ==
  /\ daemon = "up"
  /\ profile[id] = "unused"
  /\ profile' = [profile EXCEPT ![id] = "present"]
  /\ UNCHANGED <<daemon, stops, nameIndex, blocked, moduleVars, wireVars, taskVars>>

DeleteUser(id) ==
  /\ daemon = "up"
  /\ profile[id] = "present"
  /\ profile' = [profile EXCEPT ![id] = "deleted"]
  /\ UNCHANGED <<daemon, stops, nameIndex, blocked, moduleVars, wireVars, taskVars>>

-----------------------------------------------------------------------------

\* What the daemon could say to a login at this moment.
Outlook(l) ==
  (IF SomeProfileBlocks(UserOf[l]) THEN {"blocked"} ELSE {})
    \union (IF IsUserSessionOpenBlocked(UserOf[l]) THEN {} ELSE {"free"})
    \union (IF daemon = "down" THEN {"down"} ELSE {})

\* History: everything it could have said since the call began.
Record ==
  seen' = [l \in Logins |->
    IF call'[l] = "account" /\ call[l] # "account" THEN Outlook(l)'
    ELSE IF call[l] = "account" THEN seen[l] \union Outlook(l)'
    ELSE seen[l]]

ModuleStep(l) ==
  \/ PamFails(l) \/ Connect(l) \/ ConnectFails(l)
  \/ ReadEstablished(l) \/ SetDataFails(l) \/ EstablishFails(l)
  \/ Ask(l) \/ ReadReply(l) \/ Notify(l) \/ StreamFails(l) \/ MessageFails(l)

TaskStep(l) ==
  Establish(l) \/ Judge(l) \/ Reply(l) \/ HearNotification(l) \/ TaskEnds(l)

DaemonStep ==
  \/ Stop \/ Launch
  \/ \E id \in Profiles : RulesChange(id) \/ AddUser(id) \/ DeleteUser(id)

PamNext ==
  /\ \/ \E l \in Logins :
          \/ \E kind \in Calls : BeginCall(l, kind)
          \/ ModuleStep(l) \/ EndLogin(l) \/ TaskStep(l) \/ TaskFails(l)
     \/ DaemonStep
  /\ Record

PamSpec == PamInit /\ [][PamNext]_vars

\* The program that logs the user in goes on with a call it began, and the runtime
\* of the daemon runs each of its tasks that can go on.  Neither calls nor the
\* daemon's return after a stop are promised.
PamFairness ==
  \A l \in Logins :
    /\ WF_vars(ModuleStep(l) /\ Record)
    /\ WF_vars(TaskStep(l) /\ Record)

FairPamSpec == PamSpec /\ PamFairness

-----------------------------------------------------------------------------
(* Correctness.                                                             *)

PamTypeOK ==
  /\ daemon \in {"up", "down"}
  /\ stops \in 0..MaxStops
  /\ profile \in [Profiles -> {"unused", "present", "deleted"}]
  /\ nameIndex \in [Names -> Profiles \union {NoProfile}]
  /\ blocked \in [Profiles -> BOOLEAN]
  /\ call \in [Logins -> Calls \union {"none"}]
  /\ calls \in [Logins -> 0..MaxCalls]
  /\ pc \in [Logins -> {"idle", "unconnected", "establishing", "ready", "asked", "ended"}]
  /\ stream \in [Logins -> {"none", "open", "shut"}]
  /\ toDaemon \in [Logins -> Seq(Tokens \union {"ask", "opened"})]
  /\ toModule \in [Logins -> Seq({"established", "unrecognized", "blocked", "free"})]
  /\ task \in [Logins -> {"establishing", "serving", "replying", "gone"}]
  /\ verdict \in [Logins -> BOOLEAN]
  /\ answer \in [Logins -> {"none", "allowed", "denied"}]
  /\ seen \in [Logins -> SUBSET {"blocked", "free", "down"}]

\* Nobody is kept out of his account by mistake: a login is denied only when a
\* profile of that very user blocked him at some moment of the call, whatever the
\* daemon, its profiles and the other logins did meanwhile.
DeniedOnlyWhenBlocked ==
  \A l \in Logins : answer[l] = "denied" => "blocked" \in seen[l]

\* And nobody slips in while the gate works: if PAM and the stream did not fail, a
\* login is allowed only when at some moment of the call the daemon, asked through
\* its index, would have let the user in, or was not there to be asked.
AllowedOnlyWhenFree ==
  [][\A l \in Logins :
       ReadReply(l) /\ answer'[l] = "allowed" => "free" \in seen'[l]]_vars

\* The replies on a stream are those of its questions: nothing waits to be read
\* before a question is asked, and a question has one reply or none yet, so that a
\* call never reads what was meant for an earlier one.
RepliesMatchQuestions ==
  \A l \in Logins :
    stream[l] = "open" =>
      /\ pc[l] \in {"idle", "ready"} => toModule[l] = <<>>
      /\ pc[l] = "establishing" =>
           toModule[l] \in {<<>>, <<"established">>, <<"unrecognized">>}
      /\ pc[l] = "asked" => toModule[l] \in {<<>>, <<"blocked">>, <<"free">>}

\* A call into the module always returns: the streams have no timeouts, so it
\* rests on each task answering or ending.
EveryCallReturns ==
  \A l \in Logins : call[l] # "none" ~> call[l] = "none"

\* What the module says it is doing: when a call that closes a session writes its
\* notification, that is the one of a closed session.
ClosedIsToldAsClosed ==
  [][\A l \in Logins :
       Notify(l) /\ call[l] = "close" =>
         toDaemon'[l][Len(toDaemon'[l])] = "closed"]_vars
=============================================================================
