------------------------------- MODULE Server --------------------------------
(***************************************************************************)
(* The HTTP server in front of the Program (server.ts) and the page it     *)
(* serves (html.ts): what a request's parameters must be for a procedure   *)
(* to be called, with which arguments it is called, what is answered, and  *)
(* which requests the forms and links of the page send.                    *)
(*                                                                         *)
(* A parameter is missing (not in the DOMAIN of params), an integer or a   *)
(* value that stands for a text: Infinite for a text of so many digits     *)
(* that parseInt makes Infinity of it, the names VaultName.create accepts  *)
(* (Names), the texts VaultData.create accepts (DataTexts), the locations  *)
(* (Locations); any other value is a text that nothing accepts.            *)
(***************************************************************************)
EXTENDS Program

CONSTANTS
  Requests,        \* the requests that arrive: their paths and parameters
  DataTexts,       \* texts of 1 to 500 characters
  Infinite,        \* a text of very many digits
  HoursPerDay,     \* 24
  MinutesPerHour,  \* 60
  MsPerMinute,     \* Duration.MILLISECONDS_PER_MINUTE
  LongestAsked     \* the most minutes a field of the page's forms takes, 10080

SpanOf(minutes)      == minutes * MsPerMinute
TimeOf(hour, minute) == (hour * MinutesPerHour + minute) * MsPerMinute
MaxMinutes           == MaxMilliseconds \div MsPerMinute

Minutes       == 0..MaxMinutes
HoursOfDay    == 0..(HoursPerDay - 1)
MinutesOfHour == 0..(MinutesPerHour - 1)

ASSUME ServerAssumption ==
  /\ {HoursPerDay, MinutesPerHour, MsPerMinute} \subseteq Nat \ {0}
  /\ LongestAsked \in Minutes
  /\ MsPerDay = HoursPerDay * MinutesPerHour * MsPerMinute
  /\ {SpanOf(m) : m \in Minutes} \subseteq Spans
  /\ {TimeOf(h, m) : h \in HoursOfDay, m \in MinutesOfHour} \subseteq Times

VARIABLE answers   \* the status each client was answered last; 0: none, or it waits

serverVars == <<vars, answers>>

Ok == 200
BadRequest == 400
NotFound == 404
InternalServerError == 500

\* A client that waits for its save has no answer yet.
ServerTypeOK ==
  /\ answers \in [Clients -> {0, Ok, BadRequest, NotFound, InternalServerError}]
  /\ \A c \in Clients : inFlight[c] # {} => answers[c] = 0

-----------------------------------------------------------------------------
(* Parameters.                                                              *)

\* parseInteger: only NaN is refused.
ReadsInteger(p, name) == name \in DOMAIN p /\ p[name] \in Int \union {Infinite}

\* Duration.fromMinutes.
ReadsMinutes(p, name) == name \in DOMAIN p /\ p[name] \in Minutes

\* Mutant: the hour may be the one after the last.
ReadsTimeTooLate(p, hour, minute) ==
  /\ {hour, minute} \subseteq DOMAIN p
  /\ p[hour] \in 0..HoursPerDay
  /\ p[minute] \in MinutesOfHour

\* Time.fromHourAndMinuteOrError.
ReadsTime(p, hour, minute) ==
  /\ {hour, minute} \subseteq DOMAIN p
  /\ p[hour] \in HoursOfDay
  /\ p[minute] \in MinutesOfHour

ReadsLocation(p) == "location" \in DOMAIN p /\ p.location \in Locations
ReadsName(p)     == "name" \in DOMAIN p /\ p.name \in Names

ReadsCountdownConditional(p) == ReadsLocation(p) /\ ReadsMinutes(p, "duration")

\* The second Time is made of the parameters of the first: those of its own need
\* only be integers.
ReadsTimeRangeConditional(p) ==
  /\ ReadsLocation(p)
  /\ ReadsTime(p, "fromHour", "fromMinute")
  /\ ReadsInteger(p, "tillHour") /\ ReadsInteger(p, "tillMinute")
  /\ ReadsMinutes(p, "lifetime")

ReadsUptimeAllowanceConditional(p) ==
  ReadsLocation(p) /\ ReadsMinutes(p, "allowance") /\ ReadsMinutes(p, "lifetime")

ReadsVault(p) ==
  ReadsName(p) /\ "data" \in DOMAIN p /\ p.data \in DataTexts /\ ReadsMinutes(p, "protectionDuration")

-----------------------------------------------------------------------------
(* Handlers: the procedure is called and its client waits, or the request   *)
(* is refused, before the procedure or by it.                               *)

Answer(c, code) == answers' = [answers EXCEPT ![c] = code]

Refuse(c, code) ==
  /\ status = "up" /\ inFlight[c] = {}
  /\ Answer(c, code)
  /\ UNCHANGED vars

OnCreateCountdownConditional(c, p) ==
  \/ /\ ReadsCountdownConditional(p)
     /\ CreateCountdownConditional(c, p.location, SpanOf(p.duration))
     /\ Answer(c, 0)
  \/ /\ ~(ReadsCountdownConditional(p) /\ MayAddConditional(data1))
     /\ Refuse(c, BadRequest)

OnCreateTimeRangeConditional(c, p) ==
  \/ /\ ReadsTimeRangeConditional(p)
     /\ LET from == TimeOf(p.fromHour, p.fromMinute)
        IN  CreateTimeRangeConditional(c, p.location, from, from, SpanOf(p.lifetime))
     /\ Answer(c, 0)
  \/ /\ ~(ReadsTimeRangeConditional(p) /\ MayAddConditional(data1))
     /\ Refuse(c, BadRequest)

OnCreateUptimeAllowanceConditional(c, p) ==
  \/ /\ ReadsUptimeAllowanceConditional(p)
     /\ CreateUptimeAllowanceConditional(c, p.location, SpanOf(p.allowance), SpanOf(p.lifetime))
     /\ Answer(c, 0)
  \/ /\ ~ /\ ReadsUptimeAllowanceConditional(p)
          /\ MayAddConditional(data1)
          /\ IsAllowance(SpanOf(p.allowance), SpanOf(p.lifetime))
     /\ Refuse(c, BadRequest)

OnCreateVault(c, p) ==
  \/ /\ ReadsVault(p)
     /\ CreateVault(c, p.name, SpanOf(p.protectionDuration))
     /\ Answer(c, 0)
  \/ /\ ~(ReadsVault(p) /\ MayAddVault(data1, p.name))
     /\ Refuse(c, BadRequest)

OnDeleteVault(c, p) ==
  \/ /\ ReadsName(p)
     /\ DeleteVault(c, p.name)
     /\ Answer(c, 0)
  \/ /\ ~(ReadsName(p) /\ \E v \in VaultsNamed(data1, p.name) : MayDelete(v))
     /\ Refuse(c, BadRequest)

\* Mutant: the client is answered before the save has ended.
OnProlongVaultProtectionUnawaited(c, p) ==
  \/ /\ ReadsName(p)
     /\ ProlongVaultProtection(c, p.name)
     /\ Answer(c, Ok)
  \/ /\ ~(ReadsName(p) /\ VaultsNamed(data1, p.name) # {})
     /\ Refuse(c, BadRequest)

OnProlongVaultProtection(c, p) ==
  \/ /\ ReadsName(p)
     /\ ProlongVaultProtection(c, p.name)
     /\ Answer(c, 0)
  \/ /\ ~(ReadsName(p) /\ VaultsNamed(data1, p.name) # {})
     /\ Refuse(c, BadRequest)

Paths ==
  {"/", "/create-countdown-conditional", "/create-time-range-conditional",
   "/create-uptime-allowance-conditional", "/create-vault", "/delete-vault",
   "/prolong-vault-protection"}

\* process: the path chooses the handler.
Process(c, r) ==
  \/ r.path = "/create-countdown-conditional" /\ OnCreateCountdownConditional(c, r.params)
  \/ r.path = "/create-time-range-conditional" /\ OnCreateTimeRangeConditional(c, r.params)
  \/ r.path = "/create-uptime-allowance-conditional"
       /\ OnCreateUptimeAllowanceConditional(c, r.params)
  \/ r.path = "/create-vault" /\ OnCreateVault(c, r.params)
  \/ r.path = "/delete-vault" /\ OnDeleteVault(c, r.params)
  \/ r.path = "/prolong-vault-protection" /\ OnProlongVaultProtection(c, r.params)
  \/ r.path = "/" /\ Refuse(c, Ok)
  \/ r.path \notin Paths /\ Refuse(c, NotFound)

\* The procedure's status becomes the answer.
AnswerSave(c) ==
  \/ SaveData1Succeeds(c) /\ Answer(c, Ok)
  \/ SaveData1Fails(c) /\ Answer(c, InternalServerError)

\* No answer of the process outlives it.
Die ==
  /\ Crash
  /\ answers' = [c \in Clients |-> 0]

Background ==
  /\ Environment \/ CreateData1File \/ Launch \/ Start \/ Synchronization \/ ClockSaveEnds
  /\ UNCHANGED answers

ServerInit == ProgramInit /\ answers = [c \in Clients |-> 0]

ServerNext ==
  \/ Background \/ Die
  \/ \E c \in Clients : AnswerSave(c) \/ \E r \in Requests : Process(c, r)

ServerSpec == ServerInit /\ [][ServerNext]_serverVars

-----------------------------------------------------------------------------
(* The page.                                                                *)

\* Mutant: the data of a vault is shown once its protection has lasted its duration.
IsShownEarly(vault) == RemainingTimeOrZero(vault.protection, Now) = 0

\* Vault_toHtml shows the data of a vault that is not protected.
IsShown(vault) == ~IsRunning(vault.protection, Now)

Asked == 1..LongestAsked

\* Mutant: the form calls the hours of a day 1 to 24.
TimeRangeFormFromOne ==
  [location : Locations, fromHour : 1..HoursPerDay, fromMinute : MinutesOfHour,
   tillHour : 1..HoursPerDay, tillMinute : MinutesOfHour, lifetime : Asked]

\* What the fields of the forms let their user send.
TimeRangeForm ==
  [location : Locations, fromHour : HoursOfDay, fromMinute : MinutesOfHour,
   tillHour : HoursOfDay, tillMinute : MinutesOfHour, lifetime : Asked]

CountdownForm == [location : Locations, duration : Asked]
AllowanceForm == [location : Locations, lifetime : Asked, allowance : Asked]
VaultForm     == [name : Names, data : DataTexts, protectionDuration : Asked]

\* The link of a vault's card.
ProlongLink == [name : Names]

IsOffered(r) ==
  \/ r.path = "/create-time-range-conditional" /\ r.params \in TimeRangeForm
  \/ r.path = "/create-countdown-conditional" /\ r.params \in CountdownForm
  \/ r.path = "/create-uptime-allowance-conditional" /\ r.params \in AllowanceForm
  \/ r.path = "/create-vault" /\ r.params \in VaultForm
  \/ r.path = "/prolong-vault-protection" /\ r.params \in ProlongLink

Offered == {r \in Requests : IsOffered(r)}

-----------------------------------------------------------------------------
(* Correctness.                                                             *)

\* The data of a vault is on the page only after its protection was served in real
\* time, through crashes and lost saves, if the wall clock was never set back.
ShownOnlyOnceServed ==
  (status = "up" /\ backSteps = 0) =>
    \A v \in data1.vaults :
      IsShown(v) => wall > origin + v.protection.from + v.protection.duration

\* Why a well-formed request may be refused: a limit, a name that is used, or a
\* vault that has gone.
IsHindered(r) ==
  \/ r.path \in {"/create-time-range-conditional", "/create-countdown-conditional",
                 "/create-uptime-allowance-conditional"} /\ ~MayAddConditional(data1)
  \/ r.path = "/create-vault" /\ ~MayAddVault(data1, r.params.name)
  \/ r.path = "/prolong-vault-protection" /\ VaultsNamed(data1, r.params.name) = {}

IsRefused(c, r) == answers'[c] \in {BadRequest, NotFound} /\ Process(c, r)

\* What the page offers the server understands: forms and handlers agree on paths,
\* names and bounds, and such a request is refused only if it is hindered, or if
\* its allowance is outside the bounds of the procedure.
OffersAreUnderstood ==
  [][\A c \in Clients, r \in Offered :
       IsRefused(c, r) =>
         \/ IsHindered(r)
         \/ /\ r.path = "/create-uptime-allowance-conditional"
            /\ ~IsAllowance(SpanOf(r.params.allowance), SpanOf(r.params.lifetime))]_serverVars
=============================================================================
