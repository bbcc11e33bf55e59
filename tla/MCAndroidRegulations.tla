------------------------ MODULE MCAndroidRegulations -------------------------
(* One application with a rule of each kind, and one rule of the screen.    *)
EXTENDS AndroidRegulations

CONSTANTS game, films, always, range, allowance, night

MCCountdownRules == {always, allowance, night}
MCPleaRules      == {range}
MCRules          == MCCountdownRules \union MCPleaRules
MCRuleDuration   == [rule \in MCRules |-> 1]
MCReadings       == 0..2
MCApplications   == {game, films}
MCPlaceOf        == [rule \in MCRules |-> IF rule = night THEN Screen ELSE game]
MCKindOf         ==
  [rule \in MCRules |-> CASE rule = range -> "timeRange"
                          [] rule = allowance -> "timeAllowance"
                          [] OTHER -> "always"]
=============================================================================
