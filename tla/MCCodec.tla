------------------------------ MODULE MCCodec -------------------------------
(* Codec with every range of a day of three units.                           *)
EXTENDS Codec

MCRanges    == {FromTimes(from, till) : from, till \in TimesOfDay}
MCLifetimes == {[from |-> 1, duration |-> MaxMilliseconds]}
=============================================================================
