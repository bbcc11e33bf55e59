------------------------------ MODULE MCServer -------------------------------
(* Server with one complete request for every path that takes parameters,   *)
(* and every request that differs from it in one parameter: a missing one,  *)
(* a text, too many digits, and the integers around the bounds.             *)
EXTENDS Server

CONSTANTS aLocation, aName, aText, anotherText

NoParams == [name \in {} |-> anotherText]

Complete ==
  {[path |-> "/create-countdown-conditional",
    params |-> [location |-> aLocation, duration |-> 1]],
   [path |-> "/create-time-range-conditional",
    params |-> [location |-> aLocation, fromHour |-> 1, fromMinute |-> 0,
                tillHour |-> 1, tillMinute |-> 1, lifetime |-> 1]],
   [path |-> "/create-uptime-allowance-conditional",
    params |-> [location |-> aLocation, allowance |-> 1, lifetime |-> 1]],
   [path |-> "/create-vault",
    params |-> [name |-> aName, data |-> aText, protectionDuration |-> 1]],
   [path |-> "/delete-vault", params |-> [name |-> aName]],
   [path |-> "/prolong-vault-protection", params |-> [name |-> aName]]}

\* The first integer that a parameter may not be.
Bound(name) ==
  CASE name \in {"fromHour", "tillHour"}     -> HoursPerDay
    [] name \in {"fromMinute", "tillMinute"} -> MinutesPerHour
    [] OTHER                                 -> MaxMinutes + 1

\* What a parameter may be instead; one that is no integer is only another text.
Variations(name, value) ==
  IF value \in Int THEN {-1, Bound(name), Infinite, anotherText} ELSE {anotherText}

Without(p, name) == [n \in DOMAIN p \ {name} |-> p[n]]
Variants(p)      == {Without(p, name) : name \in DOMAIN p}
  \union UNION {{[p EXCEPT ![name] = v] : v \in Variations(name, p[name])} : name \in DOMAIN p}

MCRequests ==
  {[path |-> path, params |-> NoParams] : path \in {"/", "/program"}}
    \union UNION {{[r EXCEPT !.params = p] : p \in {r.params} \union Variants(r.params)} : r \in Complete}
=============================================================================
