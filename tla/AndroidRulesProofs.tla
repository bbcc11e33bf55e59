-------------------------- MODULE AndroidRulesProofs --------------------------
(***************************************************************************)
(* The clock, the conditionals and the regulations of the Android          *)
(* application, for any rules, durations and applications.                 *)
(***************************************************************************)
EXTENDS AndroidRegulations, FiniteSetTheorems, TLAPS

\* The arithmetic of Duration stays within its bounds; a sum is no less than its
\* first term.
LEMMA SumIsDuration ==
  ASSUME NEW a \in Durations, NEW b \in Durations
  PROVE  SaturatingAdd(a, b) \in Durations /\ SaturatingAdd(a, b) >= a
  BY AndroidRulesAssumption DEF SaturatingAdd, Durations

LEMMA DifferenceIsDuration ==
  ASSUME NEW a \in Durations, NEW b \in Durations
  PROVE  SaturatingSub(a, b) \in Durations
  BY AndroidRulesAssumption DEF SaturatingSub, Durations

\* A countdown that begins now lasts as long as its rule says.
LEMMA StartedIsCountdown ==
  ASSUME NEW rule \in Rules, NEW now \in Durations
  PROVE  Started(rule, now) \in Countdown
  BY AndroidRulesAssumption DEF Started, Countdown

LEMMA NoCountdownIsNone == NoCountdown \notin Countdown
  <1>1. -1 \notin Durations
    BY AndroidRulesAssumption DEF Durations
  <1>2. QED
    BY <1>1 DEF NoCountdown, Countdown

\* A synchronisation keeps the clock's type and never sets it back.
LEMMA SynchronizeAdds ==
  ASSUME AndroidTypeOK, NEW now \in Readings, Synchronize(now)
  PROVE  /\ elapsedTime' \in Durations
         /\ elapsedTime' >= elapsedTime
         /\ previousSynchronizationTime' \in Durations
         /\ countdown' = countdown
  <1>1. now \in Durations
    BY AndroidRulesAssumption
  <1>2. TillOrZero(previousSynchronizationTime, now) \in Durations
    BY <1>1, DifferenceIsDuration DEF TillOrZero, AndroidTypeOK
  <1>3. QED
    BY <1>1, <1>2, SumIsDuration DEF Synchronize, AndroidTypeOK

\* A step gives a conditional no countdown, or one that begins now.
LEMMA OneCountdownChanges ==
  ASSUME AndroidTypeOK, [Next]_vars, NEW rule \in Rules
  PROVE  \/ countdown'[rule] = countdown[rule]
         \/ rule \in PleaRules /\ countdown'[rule] = NoCountdown /\ elapsedTime' = elapsedTime
         \/ countdown'[rule] = Started(rule, elapsedTime) /\ elapsedTime' = elapsedTime
  <1>1. CASE UNCHANGED vars
    BY <1>1 DEF vars
  <1>2. CASE \E now \in Readings : Synchronize(now)
    BY <1>2 DEF Synchronize
  <1>3. CASE \E r \in CountdownRules : ReactivateCountdown(r)
    BY <1>3 DEF ReactivateCountdown, AndroidTypeOK, GetNow, Rules
  <1>4. CASE \E r \in PleaRules : ReactivatePlea(r)
    BY <1>4 DEF ReactivatePlea, AndroidTypeOK, Rules
  <1>5. CASE \E r \in PleaRules : ReDeactivatePlea(r)
    BY <1>5 DEF ReDeactivatePlea, AndroidTypeOK, GetNow, Rules
  <1>6. QED
    BY <1>1, <1>2, <1>3, <1>4, <1>5 DEF Next

-----------------------------------------------------------------------------

LEMMA AndroidTypeInit == Init => AndroidTypeOK
  BY AndroidRulesAssumption DEF Init, AndroidTypeOK, Durations

LEMMA AndroidTypeStep ==
  ASSUME AndroidTypeOK, [Next]_vars
  PROVE  AndroidTypeOK'
  <1>1. CASE UNCHANGED vars
    BY <1>1 DEF vars, AndroidTypeOK
  <1>2. ASSUME NEW now \in Readings, Synchronize(now)
        PROVE  AndroidTypeOK'
    BY <1>2, SynchronizeAdds DEF AndroidTypeOK
  <1>3. ASSUME NEW rule \in CountdownRules, ReactivateCountdown(rule)
        PROVE  AndroidTypeOK'
    BY <1>3, StartedIsCountdown DEF ReactivateCountdown, AndroidTypeOK, GetNow, Rules
  <1>4. ASSUME NEW rule \in PleaRules, ReactivatePlea(rule)
        PROVE  AndroidTypeOK'
    BY <1>4 DEF ReactivatePlea, AndroidTypeOK, Rules
  <1>5. ASSUME NEW rule \in PleaRules, ReDeactivatePlea(rule)
        PROVE  AndroidTypeOK'
    BY <1>5, StartedIsCountdown DEF ReDeactivatePlea, AndroidTypeOK, GetNow, Rules
  <1>6. QED
    BY <1>1, <1>2, <1>3, <1>4, <1>5 DEF Next

\* The clock and every countdown stay within what a Duration can hold, whatever
\* the clock is synchronised with.
THEOREM AndroidTypeCorrect == Spec => []AndroidTypeOK
  <1>1. QED
    BY AndroidTypeInit, AndroidTypeStep, PTL DEF Spec

LEMMA ClockStep ==
  ASSUME AndroidTypeOK, [Next]_vars
  PROVE  [elapsedTime' >= elapsedTime]_vars
  <1>1. elapsedTime \in Int
    BY AndroidRulesAssumption DEF AndroidTypeOK, Durations
  <1>2. CASE UNCHANGED vars
    BY <1>2 DEF vars
  <1>3. CASE \E now \in Readings : Synchronize(now)
    BY <1>3, SynchronizeAdds
  <1>4. CASE \/ \E rule \in CountdownRules : ReactivateCountdown(rule)
             \/ \E rule \in PleaRules : ReactivatePlea(rule) \/ ReDeactivatePlea(rule)
    BY <1>1, <1>4 DEF ReactivateCountdown, ReactivatePlea, ReDeactivatePlea
  <1>5. QED
    BY <1>2, <1>3, <1>4 DEF Next

\* The Android clock never moves back, whatever it is synchronised with
\* (MonotonicClock.synchronize).
THEOREM AndroidClockMovesForward == Spec => ClockOnlyMovesForward
  <1>1. QED
    BY AndroidTypeCorrect, ClockStep, PTL DEF Spec, ClockOnlyMovesForward

-----------------------------------------------------------------------------

\* The elapsed time is capped with the duration, so that a countdown is never
\* finished, only not begun yet.
LEMMA NeverFinished ==
  ASSUME NEW c \in Countdown, NEW now \in Durations
  PROVE  GetStatus(c, now) = IF now < c.from THEN "Pending" ELSE "Running"
  <1>1. c.from \in Durations /\ c.duration \in Durations
    BY DEF Countdown
  <1>2. SinceOrZero(now, c.from) \in Durations
    BY <1>1, DifferenceIsDuration DEF SinceOrZero
  <1>3. ElapsedTimeOrZero(c, now) <= c.duration
    BY <1>1, <1>2, AndroidRulesAssumption DEF ElapsedTimeOrZero, Durations
  <1>4. QED
    BY <1>3 DEF GetStatus

\* No countdown is ever over, however long the clock runs and whatever its duration:
\* the state Finished, in which a rule may be deleted, is not reached
\* (Countdown.getStatus).
THEOREM NoCountdownIsEverOver ==
  Spec => [](\A rule \in Rules :
               countdown[rule] # NoCountdown =>
                 GetStatus(countdown[rule], GetNow) \in {"Pending", "Running"})
  <1>1. AndroidTypeOK =>
          \A rule \in Rules :
            countdown[rule] # NoCountdown =>
              GetStatus(countdown[rule], GetNow) \in {"Pending", "Running"}
    BY NeverFinished DEF AndroidTypeOK, GetNow
  <1>2. QED
    BY <1>1, AndroidTypeCorrect, PTL

\* What it takes for a rule to be enabled: a plea rule is enabled whatever
\* happens, the other kind from the moment its countdown begins.
SwitchedOn(rule) ==
  \/ rule \in PleaRules
  \/ /\ rule \in CountdownRules
     /\ countdown[rule] # NoCountdown
     /\ elapsedTime >= countdown[rule].from

LEMMA EnabledWhenSwitchedOn ==
  AndroidTypeOK => \A rule \in Rules : IsEnabled(rule, GetNow) <=> SwitchedOn(rule)
  <1> SUFFICES ASSUME AndroidTypeOK, NEW rule \in Rules
               PROVE  IsEnabled(rule, GetNow) <=> SwitchedOn(rule)
    OBVIOUS
  <1>1. elapsedTime \in Durations /\ elapsedTime \in Int
    BY AndroidRulesAssumption DEF AndroidTypeOK, Durations
  <1>2. countdown[rule] \in Countdown \union {NoCountdown}
    BY DEF AndroidTypeOK
  <1>3. CASE countdown[rule] = NoCountdown
    BY <1>3, AndroidRulesAssumption
       DEF IsEnabled, GetNow, CountdownIsActive, IsActiveOrDeactivating, PleaState, Rules, SwitchedOn
  <1>4. CASE countdown[rule] \in Countdown
    <2>1. countdown[rule].from \in Int
      BY <1>4, AndroidRulesAssumption DEF Countdown, Durations
    <2>2. countdown[rule] # NoCountdown
      BY <1>4, NoCountdownIsNone
    <2>3. GetStatus(countdown[rule], elapsedTime) =
            IF elapsedTime < countdown[rule].from THEN "Pending" ELSE "Running"
      BY <1>1, <1>4, NeverFinished
    <2>4. CountdownIsActive(countdown[rule], elapsedTime) <=> elapsedTime >= countdown[rule].from
      BY <1>1, <2>1, <2>2, <2>3 DEF CountdownIsActive
    <2>5. IsActiveOrDeactivating(countdown[rule], elapsedTime)
      BY <2>2, <2>3 DEF IsActiveOrDeactivating, PleaState
    <2>6. QED
      BY <2>2, <2>4, <2>5, AndroidRulesAssumption DEF IsEnabled, GetNow, Rules, SwitchedOn
  <1>5. QED
    BY <1>2, <1>3, <1>4

\* What is switched on stays so in every step of the conditionals or the clock.
LEMMA SwitchedOnStays ==
  ASSUME AndroidTypeOK, [Next]_vars, NEW rule \in Rules, SwitchedOn(rule)
  PROVE  SwitchedOn(rule)'
  <1>1. elapsedTime \in Int /\ elapsedTime \in Durations
    BY AndroidRulesAssumption DEF AndroidTypeOK, Durations
  <1>2. elapsedTime' \in Int /\ elapsedTime' >= elapsedTime
    <2>1. elapsedTime' \in Durations
      BY AndroidTypeStep DEF AndroidTypeOK
    <2>2. elapsedTime' >= elapsedTime
      BY <1>1, ClockStep DEF vars
    <2>3. QED
      BY <2>1, <2>2, AndroidRulesAssumption DEF Durations
  <1>3. CASE rule \in PleaRules
    BY <1>3 DEF SwitchedOn
  <1>4. CASE rule \notin PleaRules /\ countdown'[rule] = countdown[rule]
    <2>1. countdown[rule] \in Countdown
      BY <1>4 DEF SwitchedOn, AndroidTypeOK
    <2>2. countdown[rule].from \in Int
      BY <2>1, AndroidRulesAssumption DEF Countdown, Durations
    <2>3. QED
      BY <1>1, <1>2, <1>4, <2>2 DEF SwitchedOn
  <1>5. CASE rule \notin PleaRules /\ countdown'[rule] = Started(rule, elapsedTime)
             /\ elapsedTime' = elapsedTime
    <2>1. Started(rule, elapsedTime) # NoCountdown
      BY <1>1, StartedIsCountdown, NoCountdownIsNone
    <2>2. Started(rule, elapsedTime).from = elapsedTime
      BY DEF Started
    <2>3. QED
      BY <1>1, <1>5, <2>1, <2>2 DEF SwitchedOn
  <1>6. QED
    BY <1>3, <1>4, <1>5, OneCountdownChanges

LEMMA EnabledUntilTheEndStep ==
  ASSUME AndroidTypeOK, AndroidTypeOK', [Next]_vars
  PROVE  \A rule \in Rules : IsEnabled(rule, GetNow) => IsEnabled(rule, GetNow)'
  <1>1. \A rule \in Rules : IsEnabled(rule, GetNow) <=> SwitchedOn(rule)
    BY EnabledWhenSwitchedOn
  <1>2. \A rule \in Rules : IsEnabled(rule, GetNow)' <=> SwitchedOn(rule)'
    <2>1. (AndroidTypeOK => \A rule \in Rules : IsEnabled(rule, GetNow) <=> SwitchedOn(rule))'
      BY EnabledWhenSwitchedOn, PTL
    <2>2. QED
      BY <2>1
  <1>3. QED
    BY <1>1, <1>2, SwitchedOnStays

\* No plea, no plea repeated or taken back and no reading of the clock switches a
\* rule off before its countdown is over (RuleEnabler.isActive).
THEOREM RulesStayEnabled == Spec => EnabledUntilTheEnd
  <1>1. AndroidTypeOK /\ AndroidTypeOK' /\ [Next]_vars =>
          [\A rule \in Rules :
             IsEnabled(rule, GetNow)
               /\ (countdown'[rule] = NoCountdown \/ GetNow' <= GetTill(countdown'[rule]))
             => IsEnabled(rule, GetNow)']_vars
    BY EnabledUntilTheEndStep
  <1>2. QED
    BY <1>1, AndroidTypeCorrect, PTL DEF Spec, EnabledUntilTheEnd

-----------------------------------------------------------------------------
(* The regulations.                                                         *)

\* Whatever is done to the regulations, the conditionals take a step of theirs or
\* none.
LEMMA RegulationsStepIsAndroidStep ==
  ASSUME [RegulationsNext]_allVars
  PROVE  [Next]_vars
  <1>1. CASE UNCHANGED allVars
    BY <1>1 DEF allVars
  <1>2. CASE ConditionalStep
    BY <1>2 DEF ConditionalStep, Next
  <1>3. ASSUME NEW rule \in Rules, CreateRule(rule) \/ DeleteRule(rule)
        PROVE  UNCHANGED vars
    BY <1>3 DEF CreateRule, DeleteRule
  <1>4. ASSUME NEW application \in Applications,
               CreateRegulation(application) \/ DeleteRegulation(application)
        PROVE  UNCHANGED vars
    BY <1>4 DEF CreateRegulation, DeleteRegulation
  <1>5. QED
    BY <1>1, <1>2, <1>3, <1>4 DEF RegulationsNext

\* The rest of the type of the regulations, and their counters.
RegulationsIInv ==
  /\ AndroidTypeOK
  /\ regulated \subseteq Applications
  /\ created \subseteq Rules
  /\ held \subseteq created
  /\ rulesNumber \in Nat
  /\ applicationRegulationsNumber \in Nat
  /\ CountersKeepUp

LEMMA RegulationsIInvInit == RegulationsInit => RegulationsIInv
  <1> SUFFICES ASSUME RegulationsInit PROVE RegulationsIInv
    OBVIOUS
  <1>1. Cardinality({}) = 0
    BY FS_EmptySet
  <1>2. QED
    BY <1>1, AndroidTypeInit, AndroidRegulationsAssumption
       DEF RegulationsInit, RegulationsIInv, CountersKeepUp

\* The sets that are counted are finite.
LEMMA CountedAreFinite ==
  ASSUME RegulationsIInv
  PROVE  /\ IsFiniteSet(held) /\ Cardinality(held) \in Nat
         /\ IsFiniteSet(regulated) /\ Cardinality(regulated) \in Nat
  <1>1. IsFiniteSet(held) /\ IsFiniteSet(regulated)
    <2>1. held \subseteq Rules /\ regulated \subseteq Applications
      BY DEF RegulationsIInv
    <2>2. QED
      BY <2>1, FS_Subset, AndroidRegulationsAssumption
  <1>2. QED
    BY <1>1, FS_CardinalityType

LEMMA RegulationsIInvStep ==
  ASSUME RegulationsIInv, [RegulationsNext]_allVars
  PROVE  RegulationsIInv'
  <1>1. AndroidTypeOK'
    BY RegulationsStepIsAndroidStep, AndroidTypeStep DEF RegulationsIInv
  <1> USE CountedAreFinite DEF RegulationsIInv, CountersKeepUp
  <1>2. CASE UNCHANGED regulationVars
    BY <1>1, <1>2 DEF regulationVars, statsVars
  <1>3. ASSUME NEW rule \in Rules, CreateRule(rule)
        PROVE  RegulationsIInv'
    <2>1. rule \notin held
      BY <1>3 DEF CreateRule
    <2>2. Cardinality(held \union {rule}) = Cardinality(held) + 1
      BY <2>1, FS_AddElement
    <2>3. CASE HasPlace(rule)
      BY <1>1, <1>3, <2>2, <2>3 DEF CreateRule
    <2>4. CASE ~HasPlace(rule)
      BY <1>1, <1>3, <2>4 DEF CreateRule
    <2>5. QED
      BY <2>3, <2>4
  <1>4. ASSUME NEW rule \in Rules, DeleteRule(rule)
        PROVE  RegulationsIInv'
    <2>1. Cardinality(held \ {rule}) = Cardinality(held) - 1 /\ Cardinality(held \ {rule}) \in Nat
      <3>1. IsFiniteSet(held \ {rule}) /\ Cardinality(held \ {rule}) = Cardinality(held) - 1
        BY <1>4, FS_RemoveElement DEF DeleteRule
      <3>2. QED
        BY <3>1, FS_CardinalityType
    <2>2. QED
      BY <1>1, <1>4, <2>1 DEF DeleteRule
  <1>5. ASSUME NEW application \in Applications, CreateRegulation(application)
        PROVE  RegulationsIInv'
    <2>1. Cardinality(regulated \union {application}) = Cardinality(regulated) + 1
      BY <1>5, FS_AddElement DEF CreateRegulation
    <2>2. QED
      BY <1>1, <1>5, <2>1, AndroidRegulationsAssumption DEF CreateRegulation
  <1>6. ASSUME NEW application \in Applications, DeleteRegulation(application)
        PROVE  RegulationsIInv'
    <2>1. /\ Cardinality(regulated \ {application}) = Cardinality(regulated) - 1
          /\ Cardinality(regulated \ {application}) \in Nat
      <3>1. /\ IsFiniteSet(regulated \ {application})
            /\ Cardinality(regulated \ {application}) = Cardinality(regulated) - 1
        BY <1>6, FS_RemoveElement DEF DeleteRegulation
      <3>2. QED
        BY <3>1, FS_CardinalityType
    <2>2. held \ RulesAt(application) \subseteq held
      OBVIOUS
    <2>3. /\ Cardinality(held \ RulesAt(application)) <= Cardinality(held)
          /\ Cardinality(held \ RulesAt(application)) \in Nat
      <3>1. /\ IsFiniteSet(held \ RulesAt(application))
            /\ Cardinality(held \ RulesAt(application)) <= Cardinality(held)
        BY <2>2, FS_Subset
      <3>2. QED
        BY <3>1, FS_CardinalityType
    <2>4. QED
      BY <1>1, <1>6, <2>1, <2>3, AndroidRegulationsAssumption DEF DeleteRegulation
  <1>7. QED
    BY <1>2, <1>3, <1>4, <1>5, <1>6 DEF RegulationsNext, allVars

LEMMA RegulationsIInvCorrect == RegulationsSpec => []RegulationsIInv
  <1>1. QED
    BY RegulationsIInvInit, RegulationsIInvStep, PTL DEF RegulationsSpec

\* The rules, the regulations and their counters stay in their types; no counter
\* goes below zero.
THEOREM RegulationsTypeCorrect == RegulationsSpec => []RegulationsTypeOK
  <1>1. RegulationsIInv => RegulationsTypeOK
    BY DEF RegulationsIInv, RegulationsTypeOK
  <1>2. QED
    BY <1>1, RegulationsIInvCorrect, PTL

\* The counters never fall behind the tables they count, for any number of rules
\* and applications and any order of requests.
THEOREM CountersAreSafe == RegulationsSpec => []CountersKeepUp
  <1>1. RegulationsIInv => CountersKeepUp
    BY DEF RegulationsIInv
  <1>2. QED
    BY <1>1, RegulationsIInvCorrect, PTL

\* What a step makes of the distance between the counter of rules and the rules.
LEMMA CountDriftStep ==
  ASSUME RegulationsIInv, [RegulationsNext]_allVars,
         rulesNumber' - Cardinality(held') # rulesNumber - Cardinality(held)
  PROVE  \E application \in regulated \ regulated' : held' = held \ RulesAt(application)
  <1>1. /\ IsFiniteSet(held) /\ Cardinality(held) \in Nat
        /\ rulesNumber \in Nat
    BY CountedAreFinite DEF RegulationsIInv
  <1>2. ~UNCHANGED regulationVars
    BY DEF regulationVars, statsVars
  <1>3. ASSUME NEW rule \in Rules, CreateRule(rule)
        PROVE  FALSE
    <2>1. rule \notin held
      BY <1>3 DEF CreateRule, RegulationsIInv
    <2>2. Cardinality(held \union {rule}) = Cardinality(held) + 1
      BY <1>1, <2>1, FS_AddElement
    <2>3. QED
      BY <1>1, <1>3, <2>2 DEF CreateRule
  <1>4. ASSUME NEW rule \in Rules, DeleteRule(rule)
        PROVE  FALSE
    <2>1. Cardinality(held \ {rule}) = Cardinality(held) - 1
      BY <1>1, <1>4, FS_RemoveElement DEF DeleteRule
    <2>2. QED
      BY <1>1, <1>4, <2>1 DEF DeleteRule
  <1>5. ASSUME NEW application \in Applications, CreateRegulation(application)
        PROVE  FALSE
    BY <1>5 DEF CreateRegulation
  <1>6. ASSUME NEW application \in Applications, DeleteRegulation(application)
        PROVE  application \in regulated \ regulated' /\ held' = held \ RulesAt(application)
    BY <1>6 DEF DeleteRegulation
  <1>7. QED
    BY <1>2, <1>3, <1>4, <1>5, <1>6 DEF RegulationsNext, allVars

\* Only the deletion of a regulation with its rules makes the counter of rules drift
\* from the rules in memory (operations/ApplicationRegulation.kt, delete).
THEOREM CountsDriftOnlyWithRegulations ==
  RegulationsSpec => CountDriftsOnlyWithRegulations
  <1>1. RegulationsIInv /\ [RegulationsNext]_allVars =>
          [rulesNumber' - Cardinality(held') # rulesNumber - Cardinality(held) =>
             \E application \in regulated \ regulated' :
               held' = held \ RulesAt(application)]_allVars
    BY CountDriftStep
  <1>2. QED
    BY <1>1, RegulationsIInvCorrect, PTL DEF RegulationsSpec, CountDriftsOnlyWithRegulations

\* A rule in memory that is enabled leaves it only with its regulation.
LEMMA EnabledRuleLeaves ==
  ASSUME RegulationsIInv, [RegulationsNext]_allVars, NEW rule \in held,
         IsEnabled(rule, GetNow)
  PROVE  rule \in held' \/ PlaceOf[rule] \in regulated \ regulated'
  <1>1. CASE UNCHANGED regulationVars
    BY <1>1 DEF regulationVars
  <1>2. ASSUME NEW r \in Rules, CreateRule(r)
        PROVE  rule \in held'
    BY <1>2 DEF CreateRule
  <1>3. ASSUME NEW r \in Rules, DeleteRule(r)
        PROVE  rule \in held'
    BY <1>3 DEF DeleteRule
  <1>4. ASSUME NEW application \in Applications, CreateRegulation(application)
        PROVE  rule \in held'
    BY <1>4 DEF CreateRegulation
  <1>5. ASSUME NEW application \in Applications, DeleteRegulation(application)
        PROVE  rule \in held' \/ PlaceOf[rule] \in regulated \ regulated'
    BY <1>5 DEF DeleteRegulation, RulesAt
  <1>6. QED
    BY <1>1, <1>2, <1>3, <1>4, <1>5 DEF RegulationsNext, allVars

\* What the two facts make of the rules: one that is enabled is so for good.  It
\* leaves the memory only with the regulation of its application, however long ago
\* its countdown was over (Procedures.delete of AlwaysRule.kt).
THEOREM EnabledRulesStayForGood ==
  RegulationsSpec =>
    [][\A rule \in held :
         IsEnabled(rule, GetNow) =>
           \/ rule \in held' /\ IsEnabled(rule, GetNow)'
           \/ PlaceOf[rule] \in regulated \ regulated']_allVars
  <1>1. RegulationsIInv /\ RegulationsIInv' /\ [RegulationsNext]_allVars =>
          [\A rule \in held :
             IsEnabled(rule, GetNow) =>
               \/ rule \in held' /\ IsEnabled(rule, GetNow)'
               \/ PlaceOf[rule] \in regulated \ regulated']_allVars
    <2> SUFFICES ASSUME RegulationsIInv, RegulationsIInv', [RegulationsNext]_allVars,
                        NEW rule \in held, IsEnabled(rule, GetNow)
                 PROVE  \/ rule \in held' /\ IsEnabled(rule, GetNow)'
                        \/ PlaceOf[rule] \in regulated \ regulated'
      OBVIOUS
    <2>1. IsEnabled(rule, GetNow)'
      BY RegulationsStepIsAndroidStep, EnabledUntilTheEndStep DEF RegulationsIInv
    <2>2. QED
      BY <2>1, EnabledRuleLeaves
  <1>2. QED
    BY <1>1, RegulationsIInvCorrect, PTL DEF RegulationsSpec

\* An enabled rule stays, and stays enabled, until its countdown is over, unless
\* the regulation of its application is deleted as a whole.
THEOREM EnabledRulesAreKept == RegulationsSpec => EnabledRulesStay
  <1>1. RegulationsIInv /\ RegulationsIInv' /\ [RegulationsNext]_allVars =>
          [\A rule \in held :
             IsEnabled(rule, GetNow)
               /\ (countdown'[rule] = NoCountdown \/ GetNow' <= GetTill(countdown'[rule]))
             => \/ rule \in held' /\ IsEnabled(rule, GetNow)'
                \/ PlaceOf[rule] \in regulated \ regulated']_allVars
    <2> SUFFICES ASSUME RegulationsIInv, RegulationsIInv', [RegulationsNext]_allVars,
                        NEW rule \in held, IsEnabled(rule, GetNow)
                 PROVE  \/ rule \in held' /\ IsEnabled(rule, GetNow)'
                        \/ PlaceOf[rule] \in regulated \ regulated'
      OBVIOUS
    <2>1. IsEnabled(rule, GetNow)'
      BY RegulationsStepIsAndroidStep, EnabledUntilTheEndStep DEF RegulationsIInv
    <2>2. QED
      BY <2>1, EnabledRuleLeaves
  <1>2. QED
    BY <1>1, RegulationsIInvCorrect, PTL DEF RegulationsSpec, EnabledRulesStay
=============================================================================
