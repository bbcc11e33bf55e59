-------------------------- MODULE AndroidRegulations --------------------------
(***************************************************************************)
(* The regulations of the Android application: the rules of the screen and *)
(* of each application, how requests create and delete them, and the two   *)
(* counters kept beside them (RulesStats, ApplicationRegulationsStats).    *)
(* The rules' enablers and the clock are those of AndroidRules.            *)
(*                                                                         *)
(* A request changes the database first and the memory only if that did    *)
(* not throw, so that one that fails changes nothing here.  Ids of rules   *)
(* are keys the database gives out and never gives out again.              *)
(***************************************************************************)
EXTENDS AndroidRules, FiniteSets

CONSTANTS
  Applications,                        \* names of applications
  Screen,                              \* the place of the screen's rules
  PlaceOf,                             \* of each rule: where its group is
  KindOf,                              \* of each rule: the table it is in
  MaximumApplicationRegulationsNumber

Kinds  == {"always", "timeRange", "timeAllowance"}
Places == Applications \union {Screen}

ASSUME AndroidRegulationsAssumption ==
  /\ IsFiniteSet(Rules)
  /\ IsFiniteSet(Applications)
  /\ Screen \notin Applications
  /\ PlaceOf \in [Rules -> Places]
  /\ KindOf \in [Rules -> Kinds]
  /\ MaximumApplicationRegulationsNumber \in Nat

VARIABLES
  regulated,                    \* the applications that have a regulation
  created,                      \* the rules the database has given an id
  held,                         \* the rules in memory
  rulesNumber,                  \* RulesStats
  applicationRegulationsNumber  \* ApplicationRegulationsStats

statsVars      == <<rulesNumber, applicationRegulationsNumber>>
regulationVars == <<regulated, created, held, statsVars>>
allVars        == <<vars, regulationVars>>

-----------------------------------------------------------------------------

RulesAt(place) == {rule \in held : PlaceOf[rule] = place}

HasPlace(rule) == PlaceOf[rule] = Screen \/ PlaceOf[rule] \in regulated

\* ApplicationRegulation.isEnabled: a rule of each of the three kinds is enabled.
RegulationIsEnabled(application) ==
  \A kind \in Kinds :
    \E rule \in RulesAt(application) : KindOf[rule] = kind /\ IsEnabled(rule, GetNow)

RegulationsInit ==
  /\ Init
  /\ regulated = {}
  /\ created = {}
  /\ held = {}
  /\ rulesNumber = 0
  /\ applicationRegulationsNumber = 0

\* Mutant: the new rule is not counted.
CreateRuleUncounted(rule) ==
  /\ rule \notin created
  /\ created' = created \union {rule}
  /\ held' = IF HasPlace(rule) THEN held \union {rule} ELSE held
  /\ UNCHANGED <<vars, regulated, statsVars>>

\* Mutant: the new rule is counted before its place is looked up.
CreateRuleCountedFirst(rule) ==
  /\ rule \notin created
  /\ created' = created \union {rule}
  /\ held' = IF HasPlace(rule) THEN held \union {rule} ELSE held
  /\ rulesNumber' = rulesNumber + 1
  /\ UNCHANGED <<vars, regulated, applicationRegulationsNumber>>

\* Procedures.create and createRuleOrNoop.  The group of an application's rules
\* stays known when its regulation is deleted; a rule created there is in the
\* database only.
CreateRule(rule) ==
  /\ rule \notin created
  /\ created' = created \union {rule}
  /\ held' = IF HasPlace(rule) THEN held \union {rule} ELSE held
  /\ rulesNumber' = IF HasPlace(rule) THEN rulesNumber + 1 ELSE rulesNumber
  /\ UNCHANGED <<vars, regulated, applicationRegulationsNumber>>

\* Mutant: a rule is deleted without asking whether it is enabled.
DeleteRuleUnasked(rule) ==
  /\ rule \in held
  /\ held' = held \ {rule}
  /\ rulesNumber' = rulesNumber - 1
  /\ UNCHANGED <<vars, regulated, created, applicationRegulationsNumber>>

\* Procedures.delete and deleteRuleOrNoop.
DeleteRule(rule) ==
  /\ rule \in held
  /\ ~IsEnabled(rule, GetNow)
  /\ held' = held \ {rule}
  /\ rulesNumber' = rulesNumber - 1
  /\ UNCHANGED <<vars, regulated, created, applicationRegulationsNumber>>

\* ApplicationRegulationProcedure.create.
CreateRegulation(application) ==
  /\ applicationRegulationsNumber < MaximumApplicationRegulationsNumber
  /\ application \notin regulated
  /\ regulated' = regulated \union {application}
  /\ applicationRegulationsNumber' = applicationRegulationsNumber + 1
  /\ UNCHANGED <<vars, created, held, rulesNumber>>

\* Mutant: every rule ever created for the application is taken off the count.
DeleteRegulationUncounting(application) ==
  /\ application \in regulated
  /\ ~RegulationIsEnabled(application)
  /\ regulated' = regulated \ {application}
  /\ held' = held \ RulesAt(application)
  /\ rulesNumber' = rulesNumber - Cardinality({rule \in created : PlaceOf[rule] = application})
  /\ applicationRegulationsNumber' = applicationRegulationsNumber - 1
  /\ UNCHANGED <<vars, created>>

\* ApplicationRegulationProcedure.delete: its rules go with it, and stay counted.
DeleteRegulation(application) ==
  /\ application \in regulated
  /\ ~RegulationIsEnabled(application)
  /\ regulated' = regulated \ {application}
  /\ held' = held \ RulesAt(application)
  /\ applicationRegulationsNumber' = applicationRegulationsNumber - 1
  /\ UNCHANGED <<vars, created, rulesNumber>>

\* The conditionals of the rules in memory, and the clock.
ConditionalStep ==
  \/ \E now \in Readings : Synchronize(now)
  \/ \E rule \in held \intersect CountdownRules : ReactivateCountdown(rule)
  \/ \E rule \in held \intersect PleaRules : ReactivatePlea(rule) \/ ReDeactivatePlea(rule)

RegulationsNext ==
  \/ ConditionalStep /\ UNCHANGED regulationVars
  \/ \E rule \in Rules : CreateRule(rule) \/ DeleteRule(rule)
  \/ \E application \in Applications :
       CreateRegulation(application) \/ DeleteRegulation(application)

RegulationsSpec == RegulationsInit /\ [][RegulationsNext]_allVars

-----------------------------------------------------------------------------
(* Correctness.                                                             *)

RegulationsTypeOK ==
  /\ AndroidTypeOK
  /\ regulated \subseteq Applications
  /\ created \subseteq Rules
  /\ held \subseteq created
  /\ rulesNumber \in Nat
  /\ applicationRegulationsNumber \in Nat

\* The counters that limits are compared with never fall behind: no order of
\* requests, a regulation deleted with its rules among them, lets there be more
\* rules than are counted, or more regulations than the maximum.
CountersKeepUp ==
  /\ Cardinality(held) <= rulesNumber
  /\ Cardinality(regulated) = applicationRegulationsNumber
  /\ applicationRegulationsNumber <= MaximumApplicationRegulationsNumber

\* The counter of rules comes apart from the rules in memory in one way only: a
\* regulation is deleted with its rules, which stay counted.  A rule created where
\* no regulation is left to hold it is not counted either, and no other order of
\* requests makes the counter drift.
CountDriftsOnlyWithRegulations ==
  [][rulesNumber' - Cardinality(held') # rulesNumber - Cardinality(held) =>
       \E application \in regulated \ regulated' : held' = held \ RulesAt(application)]_allVars

\* A rule that is enabled is there, and enabled, until its countdown is over on the
\* clock, whatever is requested: only the regulation of its application can take
\* it away before, as a whole.
EnabledRulesStay ==
  [][\A rule \in held :
       IsEnabled(rule, GetNow)
         /\ (countdown'[rule] = NoCountdown \/ GetNow' <= GetTill(countdown'[rule]))
       => \/ rule \in held' /\ IsEnabled(rule, GetNow)'
          \/ PlaceOf[rule] \in regulated \ regulated']_allVars
=============================================================================
