---------------------------- MODULE ServerProofs -----------------------------
(***************************************************************************)
(* Whatever requests arrive, the Server is a Program; so that what is      *)
(* proved of the program holds of the daemon behind its server, and the    *)
(* page shows no data too early.                                           *)
(***************************************************************************)
EXTENDS Server, ProgramProofs

\* A duration that a handler reads is one that Program allows.
LEMMA MinutesAreSpans ==
  ASSUME NEW p, NEW name, ReadsMinutes(p, name)
  PROVE  SpanOf(p[name]) \in Spans
  BY ServerAssumption DEF ReadsMinutes

\* A time that a handler reads is one that Program allows.
LEMMA HoursAreTimes ==
  ASSUME NEW p, NEW hour, NEW minute, ReadsTime(p, hour, minute)
  PROVE  TimeOf(p[hour], p[minute]) \in Times
  BY ServerAssumption DEF ReadsTime

\* A request makes a step of Program or none.
LEMMA ProcessIsRequest ==
  ASSUME NEW c \in Clients, NEW r, Process(c, r)
  PROVE  Request(c) \/ UNCHANGED vars
  <1> DEFINE p == r.params
  <1>1. CASE OnCreateCountdownConditional(c, p)
    <2>1. CASE /\ ReadsCountdownConditional(p)
               /\ CreateCountdownConditional(c, p.location, SpanOf(p.duration))
      <3>1. p.location \in Locations /\ SpanOf(p.duration) \in Spans
        BY <2>1, MinutesAreSpans DEF ReadsCountdownConditional, ReadsLocation
      <3>2. QED
        BY <2>1, <3>1 DEF Request
    <2>2. QED
      BY <1>1, <2>1 DEF OnCreateCountdownConditional, Refuse
  <1>2. CASE OnCreateTimeRangeConditional(c, p)
    <2> DEFINE from == TimeOf(p.fromHour, p.fromMinute)
    <2>1. CASE /\ ReadsTimeRangeConditional(p)
               /\ CreateTimeRangeConditional(c, p.location, from, from, SpanOf(p.lifetime))
      <3>1. p.location \in Locations /\ SpanOf(p.lifetime) \in Spans /\ from \in Times
        BY <2>1, MinutesAreSpans, HoursAreTimes
           DEF ReadsTimeRangeConditional, ReadsLocation
      <3>2. QED
        BY <2>1, <3>1 DEF Request
    <2>2. QED
      BY <1>2, <2>1 DEF OnCreateTimeRangeConditional, Refuse
  <1>3. CASE OnCreateUptimeAllowanceConditional(c, p)
    <2>1. CASE /\ ReadsUptimeAllowanceConditional(p)
               /\ CreateUptimeAllowanceConditional(c, p.location, SpanOf(p.allowance),
                                                   SpanOf(p.lifetime))
      <3>1. /\ p.location \in Locations
            /\ SpanOf(p.lifetime) \in Spans /\ SpanOf(p.allowance) \in Spans
        BY <2>1, MinutesAreSpans DEF ReadsUptimeAllowanceConditional, ReadsLocation
      <3>2. QED
        BY <2>1, <3>1 DEF Request
    <2>2. QED
      BY <1>3, <2>1 DEF OnCreateUptimeAllowanceConditional, Refuse
  <1>4. CASE OnCreateVault(c, p)
    <2>1. CASE ReadsVault(p) /\ CreateVault(c, p.name, SpanOf(p.protectionDuration))
      <3>1. p.name \in Names /\ SpanOf(p.protectionDuration) \in Spans
        BY <2>1, MinutesAreSpans DEF ReadsVault, ReadsName
      <3>2. QED
        BY <2>1, <3>1 DEF Request
    <2>2. QED
      BY <1>4, <2>1 DEF OnCreateVault, Refuse
  <1>5. CASE OnDeleteVault(c, p)
    BY <1>5 DEF OnDeleteVault, ReadsName, Refuse, Request
  <1>6. CASE OnProlongVaultProtection(c, p)
    BY <1>6 DEF OnProlongVaultProtection, ReadsName, Refuse, Request
  <1>7. CASE Refuse(c, Ok) \/ Refuse(c, NotFound)
    BY <1>7 DEF Refuse
  <1>8. QED
    BY <1>1, <1>2, <1>3, <1>4, <1>5, <1>6, <1>7 DEF Process

LEMMA ServerStep == [ServerNext]_serverVars => [ProgramNext]_vars
  <1> SUFFICES ASSUME [ServerNext]_serverVars PROVE [ProgramNext]_vars
    OBVIOUS
  <1>1. CASE Background \/ Die
    BY <1>1 DEF Background, Die, ProgramNext
  <1>2. ASSUME NEW c \in Clients, AnswerSave(c) PROVE ProgramNext
    BY <1>2 DEF AnswerSave, SaveData1Ends, ProgramNext
  <1>3. ASSUME NEW c \in Clients, NEW r \in Requests, Process(c, r)
        PROVE  ProgramNext \/ UNCHANGED vars
    BY <1>3, ProcessIsRequest DEF ProgramNext
  <1>4. CASE UNCHANGED serverVars
    BY <1>4 DEF serverVars
  <1>5. QED
    BY <1>1, <1>2, <1>3, <1>4 DEF ServerNext

\* Whatever the requests and their parameters, the handlers of server.ts call the
\* procedures only with arguments that the model of the procedures allows.
THEOREM ServerImplementsProgram == ServerSpec => ProgramSpec
  <1>1. ServerInit => ProgramInit
    BY DEF ServerInit
  <1>2. QED
    BY <1>1, ServerStep, PTL DEF ServerSpec, ProgramSpec

-----------------------------------------------------------------------------

\* Vault_toHtml (html.ts) shows the data of a vault only after its protection was
\* served in real time, if the wall clock was never set back.
THEOREM DataIsShownOnlyOnceServed == ServerSpec => []ShownOnlyOnceServed
  <1>1. ProgramIInv => ShownOnlyOnceServed
    <2> SUFFICES ASSUME ProgramIInv, status = "up", backSteps = 0,
                        NEW v \in data1.vaults, IsShown(v)
                 PROVE  wall > origin + v.protection.from + v.protection.duration
      BY DEF ShownOnlyOnceServed
    <2>1. v.protection \in Countdown /\ v.protection \in Countdowns(data1)
      BY DEF ProgramIInv, ProgramTypeOK, Data1, Vault, Countdowns
    <2>2. ~IsPending(v.protection, Now)
      BY <2>1, StartedCountdowns DEF NothingIsPending
    <2>3. v.protection.duration \in Nat /\ Now \in Nat /\ v.protection.from \in Nat
      BY <2>1, ReadingHasPassed, ChronicAssumption
         DEF ReadingInv, ProgramIInv, Countdown, Durations
    <2>4. IsFinished(v.protection, Now)
      BY <2>2, <2>3 DEF IsShown, IsRunning, IsFinished, IsPending, TillOrZero
    <2>5. QED
      BY <2>1, <2>4, FinishedIsServed DEF ProgramIInv
  <1>2. QED
    BY <1>1, ServerImplementsProgram, ProgramInvariant, PTL

-----------------------------------------------------------------------------
(* Answers.                                                                 *)

\* A request either changes the data and waits for the save, or is answered at once.
LEMMA ProcessAnswers ==
  ASSUME NEW c \in Clients, NEW r, Process(c, r)
  PROVE  \/ \E d : Handle(c, d) /\ Answer(c, 0)
         \/ \E code \in {Ok, BadRequest, NotFound} : Refuse(c, code)
  <1> DEFINE p    == r.params
             Goal == \/ \E d : Handle(c, d) /\ Answer(c, 0)
                     \/ \E code \in {Ok, BadRequest, NotFound} : Refuse(c, code)
  <1>1. OnCreateCountdownConditional(c, p) => Goal
    BY DEF OnCreateCountdownConditional, CreateCountdownConditional
  <1>2. OnCreateTimeRangeConditional(c, p) => Goal
    BY DEF OnCreateTimeRangeConditional, CreateTimeRangeConditional
  <1>3. OnCreateUptimeAllowanceConditional(c, p) => Goal
    BY DEF OnCreateUptimeAllowanceConditional, CreateUptimeAllowanceConditional
  <1>4. OnCreateVault(c, p) => Goal
    BY DEF OnCreateVault, CreateVault
  <1>5. OnDeleteVault(c, p) => Goal
    BY DEF OnDeleteVault, DeleteVault
  <1>6. OnProlongVaultProtection(c, p) => Goal
    BY DEF OnProlongVaultProtection, ProlongVaultProtection
  <1>7. Refuse(c, Ok) \/ Refuse(c, NotFound) => Goal
    OBVIOUS
  <1>8. QED
    BY <1>1, <1>2, <1>3, <1>4, <1>5, <1>6, <1>7 DEF Process

LEMMA ServerTypeStep ==
  ASSUME ProgramTypeOK, ServerTypeOK, [ServerNext]_serverVars
  PROVE  ServerTypeOK'
  <1> DEFINE Codes == {0, Ok, BadRequest, NotFound, InternalServerError}
  <1>1. /\ answers \in [Clients -> Codes]
        /\ \A o \in Clients : inFlight[o] # {} => answers[o] = 0
        /\ inFlight \in [Clients -> SUBSET Save]
    BY DEF ServerTypeOK, ProgramTypeOK
  <1>2. ASSUME NEW c \in Clients, NEW code \in Codes, Answer(c, code)
        PROVE  /\ answers' \in [Clients -> Codes]
               /\ answers'[c] = code
               /\ \A o \in Clients : o # c => answers'[o] = answers[o]
    BY <1>1, <1>2 DEF Answer
  <1>3. CASE Background
    <2>1. UNCHANGED <<inFlight, answers>>
      BY <1>3 DEF Background, Environment, CreateData1File, Launch, Start,
                  Synchronization, ClockSaveEnds, dataVars
    <2>2. QED
      BY <2>1 DEF ServerTypeOK
  <1>4. CASE Die
    BY <1>4 DEF Die, Crash, ServerTypeOK
  <1>5. ASSUME NEW c \in Clients, AnswerSave(c) PROVE ServerTypeOK'
    <2>1. inFlight' = [inFlight EXCEPT ![c] = {}]
      BY <1>5 DEF AnswerSave, SaveData1Succeeds, SaveData1Fails
    <2>2. \E code \in Codes : Answer(c, code)
      BY <1>5 DEF AnswerSave
    <2>3. QED
      BY <1>1, <1>2, <2>1, <2>2 DEF ServerTypeOK
  <1>6. ASSUME NEW c \in Clients, NEW r \in Requests, Process(c, r) PROVE ServerTypeOK'
    <2>1. ASSUME NEW d, Handle(c, d), Answer(c, 0) PROVE ServerTypeOK'
      <3>1. \A o \in Clients : o # c =>
              inFlight'[o] = {[s EXCEPT !.alone = FALSE] : s \in inFlight[o]}
        BY <2>1, Zenon DEF Handle
      <3>2. QED
        BY <1>1, <1>2, <2>1, <3>1 DEF ServerTypeOK
    <2>2. ASSUME NEW code \in {Ok, BadRequest, NotFound}, Refuse(c, code)
          PROVE  ServerTypeOK'
      <3>1. inFlight' = inFlight /\ inFlight[c] = {} /\ Answer(c, code)
        BY <2>2 DEF Refuse, vars, dataVars
      <3>2. QED
        BY <1>1, <1>2, <3>1 DEF ServerTypeOK
    <2>3. QED
      BY <1>6, <2>1, <2>2, ProcessAnswers
  <1>7. CASE UNCHANGED serverVars
    BY <1>7 DEF serverVars, vars, dataVars, ServerTypeOK
  <1>8. QED
    BY <1>3, <1>4, <1>5, <1>6, <1>7 DEF ServerNext

\* The answers stay statuses, and no client is answered before its save has ended.
THEOREM ServerTypeCorrect == ServerSpec => []ServerTypeOK
  <1>1. ServerInit => ServerTypeOK
    BY DEF ServerInit, ProgramInit, ServerTypeOK
  <1>2. ServerSpec => []ProgramTypeOK
    BY ServerImplementsProgram, ProgramTypeCorrect, PTL
  <1>3. QED
    BY <1>1, <1>2, ServerTypeStep, PTL DEF ServerSpec

-----------------------------------------------------------------------------
(* Offers.                                                                  *)

\* The minutes the page's forms let its user ask for make a duration.
LEMMA AskedAreMinutes ==
  ASSUME NEW p, NEW name, name \in DOMAIN p, p[name] \in Asked
  PROVE  ReadsMinutes(p, name)
  <1>1. MaxMinutes \in Int
    BY ChronicAssumption, ServerAssumption DEF MaxMinutes
  <1>2. Asked \subseteq Minutes
    BY <1>1, ServerAssumption DEF Asked, Minutes
  <1>3. QED
    BY <1>2 DEF ReadsMinutes

\* A request that is refused at once has its handler's reason.
LEMMA OffersStep ==
  ASSUME ServerTypeOK, NEW c \in Clients, NEW r, IsOffered(r), IsRefused(c, r)
  PROVE  \/ IsHindered(r)
         \/ /\ r.path = "/create-uptime-allowance-conditional"
            /\ ~IsAllowance(SpanOf(r.params.allowance), SpanOf(r.params.lifetime))
  <1> DEFINE p == r.params
  <1>1. answers \in [Clients -> {0, Ok, BadRequest, NotFound, InternalServerError}]
    BY DEF ServerTypeOK
  <1>2. Process(c, r) /\ answers'[c] \in {BadRequest, NotFound}
    BY DEF IsRefused
  <1>3. ~Answer(c, 0)
    BY <1>1, <1>2 DEF Answer, BadRequest, NotFound
  <1>4. CASE r.path = "/create-time-range-conditional" /\ p \in TimeRangeForm
    <2>1. ReadsTimeRangeConditional(p)
      <3>1. ReadsLocation(p) /\ ReadsTime(p, "fromHour", "fromMinute")
        BY <1>4 DEF TimeRangeForm, ReadsLocation, ReadsTime
      <3>2. ReadsInteger(p, "tillHour") /\ ReadsInteger(p, "tillMinute")
        BY <1>4 DEF TimeRangeForm, ReadsInteger, HoursOfDay, MinutesOfHour
      <3>3. "lifetime" \in DOMAIN p /\ p["lifetime"] \in Asked
        BY <1>4 DEF TimeRangeForm
      <3>4. QED
        BY <3>1, <3>2, <3>3, AskedAreMinutes DEF ReadsTimeRangeConditional
    <2>2. OnCreateTimeRangeConditional(c, p)
      BY <1>2, <1>4 DEF Process, Paths
    <2>3. QED
      BY <1>3, <1>4, <2>1, <2>2 DEF OnCreateTimeRangeConditional, IsHindered
  <1>5. CASE r.path = "/create-countdown-conditional" /\ p \in CountdownForm
    <2>1. ReadsCountdownConditional(p)
      <3>1. ReadsLocation(p) /\ "duration" \in DOMAIN p /\ p["duration"] \in Asked
        BY <1>5 DEF CountdownForm, ReadsLocation
      <3>2. QED
        BY <3>1, AskedAreMinutes DEF ReadsCountdownConditional
    <2>2. OnCreateCountdownConditional(c, p)
      BY <1>2, <1>5 DEF Process, Paths
    <2>3. QED
      BY <1>3, <1>5, <2>1, <2>2 DEF OnCreateCountdownConditional, IsHindered
  <1>6. CASE r.path = "/create-uptime-allowance-conditional" /\ p \in AllowanceForm
    <2>1. ReadsUptimeAllowanceConditional(p)
      <3>1. /\ ReadsLocation(p)
            /\ "lifetime" \in DOMAIN p /\ p["lifetime"] \in Asked
            /\ "allowance" \in DOMAIN p /\ p["allowance"] \in Asked
        BY <1>6 DEF AllowanceForm, ReadsLocation
      <3>2. QED
        BY <3>1, AskedAreMinutes DEF ReadsUptimeAllowanceConditional
    <2>2. OnCreateUptimeAllowanceConditional(c, p)
      BY <1>2, <1>6 DEF Process, Paths
    <2>3. QED
      BY <1>3, <1>6, <2>1, <2>2 DEF OnCreateUptimeAllowanceConditional, IsHindered
  <1>7. CASE r.path = "/create-vault" /\ p \in VaultForm
    <2>1. ReadsVault(p)
      <3>1. /\ ReadsName(p) /\ "data" \in DOMAIN p /\ p.data \in DataTexts
            /\ "protectionDuration" \in DOMAIN p /\ p["protectionDuration"] \in Asked
        BY <1>7 DEF VaultForm, ReadsName
      <3>2. QED
        BY <3>1, AskedAreMinutes DEF ReadsVault
    <2>2. OnCreateVault(c, p)
      BY <1>2, <1>7 DEF Process, Paths
    <2>3. QED
      BY <1>3, <1>7, <2>1, <2>2 DEF OnCreateVault, IsHindered
  <1>8. CASE r.path = "/prolong-vault-protection" /\ p \in ProlongLink
    <2>1. ReadsName(p)
      BY <1>8 DEF ProlongLink, ReadsName
    <2>2. OnProlongVaultProtection(c, p)
      BY <1>2, <1>8 DEF Process, Paths
    <2>3. QED
      BY <1>3, <1>8, <2>1, <2>2 DEF OnProlongVaultProtection, IsHindered
  <1>9. QED
    BY <1>4, <1>5, <1>6, <1>7, <1>8 DEF IsOffered

\* The forms of html.ts and the handlers of server.ts agree: an offered request is
\* refused only by a limit, a name, a vault that has gone or the allowance's bounds.
THEOREM OffersAreAlwaysUnderstood == ServerSpec => OffersAreUnderstood
  <1> DEFINE Reason(r) ==
        \/ IsHindered(r)
        \/ /\ r.path = "/create-uptime-allowance-conditional"
           /\ ~IsAllowance(SpanOf(r.params.allowance), SpanOf(r.params.lifetime))
  <1>1. ServerTypeOK
          => [\A c \in Clients, r \in Offered : IsRefused(c, r) => Reason(r)]_serverVars
    BY OffersStep DEF Offered
  <1>2. QED
    BY <1>1, ServerTypeCorrect, PTL DEF OffersAreUnderstood
=============================================================================
