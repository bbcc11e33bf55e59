------------------------------- MODULE Codec --------------------------------
(***************************************************************************)
(* serialization.ts: the data of the daemon as the flat array of integers  *)
(* and strings its two files hold.  Nothing in the array names a field or  *)
(* ends a list: what a token means depends on all the tokens before it.    *)
(* The data grow, are written, and are read back by later processes, any   *)
(* number of times; the order of every list is kept.                       *)
(***************************************************************************)
EXTENDS Chronic, SequencesExt

CONSTANTS
  Names,            \* the vault names and the secrets: strings
  Ranges,           \* the time ranges that are asked for
  Spans,            \* the durations
  Lifetimes,        \* the countdowns
  Stamps,           \* the timestamps
  MaxItems,         \* bound: the conditionals and vaults ever added
  MaxLaunches       \* bound: how often the files are read

ASSUME CodecAssumption ==
  /\ Ranges \subseteq {FromTimes(from, till) : from, till \in TimesOfDay}
  /\ Spans \subseteq Durations
  /\ Lifetimes \subseteq Countdown
  /\ Stamps \subseteq Nat
  /\ MaxItems \in Nat
  /\ MaxLaunches \in Nat

VARIABLES
  data1,    \* Data1 in memory
  data2,    \* Data2 in memory
  file1,    \* data_1.json: a sequence of tokens
  file2,    \* data_2.json
  saved1,   \* history: the Data1 the file was written from
  saved2,   \* history: the Data2 the file was written from
  asked,    \* history: data1 with every range as it was asked for
  saved,    \* history: asked, when the file was written
  launches  \* how often the files were read since

codecVars == <<data1, data2, file1, file2, saved1, saved2, asked, saved, launches>>

Conditional == [tag : {"Countdown"}, lifetime : Lifetimes]
                 \union [tag : {"TimeRange"}, range : Ranges, lifetime : Lifetimes]
                 \union [tag : {"UptimeAllowance"}, allowance : Spans, lifetime : Lifetimes]
Vault       == [name : Names, data : Names, protection : Lifetimes]
Clock       == [counted : Spans, prev : Stamps]

EmptyUser  == [screen |-> <<>>, internet |-> <<>>]
EmptyData1 == [luny |-> EmptyUser, ruru |-> EmptyUser, vaults |-> <<>>]

-----------------------------------------------------------------------------
(* Writing.  Every value is a sequence of tokens.                           *)

WriteInteger(n) == << <<"int", n>> >>
WriteString(s)  == << <<"str", s>> >>

\* An array of items, each of which is already a sequence of tokens.
WriteArray(items) == WriteInteger(Len(items)) \o FlattenSeq(items)

WriteCountdown(c) == WriteInteger(c.from) \o WriteInteger(c.duration)

\* Mutant: an end after midnight is written as it is kept.
WriteTimeRangeAsKept(range) == WriteInteger(range.from) \o WriteInteger(range.till)

\* getTill brings an end after midnight back into the day.
WriteTimeRange(range) == WriteInteger(range.from) \o WriteInteger(RangeTill(range))

TagNumber == [Countdown |-> 0, TimeRange |-> 1, UptimeAllowance |-> 2]

WriteConditional(c) ==
  WriteInteger(TagNumber[c.tag])
    \o (CASE c.tag = "Countdown"       -> <<>>
          [] c.tag = "TimeRange"       -> WriteTimeRange(c.range)
          [] c.tag = "UptimeAllowance" -> WriteInteger(c.allowance))
    \o WriteCountdown(c.lifetime)

WriteVault(v) ==
  WriteString(v.name) \o WriteString(v.data) \o WriteCountdown(v.protection)

WriteConditionals(list) == WriteArray([i \in DOMAIN list |-> WriteConditional(list[i])])
WriteVaults(list)       == WriteArray([i \in DOMAIN list |-> WriteVault(list[i])])

WriteUser(u) == WriteConditionals(u.screen) \o WriteConditionals(u.internet)

WriteData1(d) == WriteUser(d.luny) \o WriteUser(d.ruru) \o WriteVaults(d.vaults)

WriteClock(clock) == WriteInteger(clock.counted) \o WriteInteger(clock.prev)

\* Mutant: the clocks are written in the order the constructor takes them.
WriteData2Swapped(d) == WriteClock(d.mono) \o WriteClock(d.uptime)

WriteData2(d) == WriteClock(d.uptime) \o WriteClock(d.mono)

-----------------------------------------------------------------------------
(* Reading.  A reader takes the tokens that are left and returns the value  *)
(* and the tokens after it, or fails.                                       *)

Failure          == [ok |-> FALSE]
Got(value, rest) == [ok |-> TRUE, value |-> value, rest |-> rest]

\* A reading a, then a reading b of what a left, from which a value is made.
Both(a, b, value) == IF a.ok /\ b.ok THEN Got(value, b.rest) ELSE Failure

\* One token of a kind, with a value that the constructor of its type accepts.
ReadToken(kind, accepted, tokens) ==
  IF tokens # <<>> /\ Head(tokens)[1] = kind /\ Head(tokens)[2] \in accepted
  THEN Got(Head(tokens)[2], Tail(tokens))
  ELSE Failure

ReadInteger(tokens)  == ReadToken("int", Int, tokens)
ReadDuration(tokens) == ReadToken("int", Durations, tokens)
ReadDateTime(tokens) == ReadToken("int", Nat, tokens)
ReadTime(tokens)     == ReadToken("int", TimesOfDay, tokens)
ReadName(tokens)     == ReadToken("str", Names, tokens)

ReadCountdown(tokens) ==
  LET from     == ReadDuration(tokens)
      duration == ReadDuration(from.rest)
  IN  Both(from, duration, [from |-> from.value, duration |-> duration.value])

\* Mutant: the two times are taken for the two timestamps of the range.
ReadTimeRangeRaw(tokens) ==
  LET from == ReadTime(tokens)
      till == ReadTime(from.rest)
  IN  Both(from, till, [from |-> from.value, till |-> till.value])

ReadTimeRange(tokens) ==
  LET from == ReadTime(tokens)
      till == ReadTime(from.rest)
  IN  Both(from, till, FromTimes(from.value, till.value))

\* The three kinds of conditional, behind their tag.
ReadCountdownConditional(tokens) ==
  LET lifetime == ReadCountdown(tokens)
  IN  IF lifetime.ok
      THEN Got([tag |-> "Countdown", lifetime |-> lifetime.value], lifetime.rest)
      ELSE Failure

ReadTimeRangeConditional(tokens) ==
  LET range    == ReadTimeRange(tokens)
      lifetime == ReadCountdown(range.rest)
  IN  Both(range, lifetime,
           [tag |-> "TimeRange", range |-> range.value, lifetime |-> lifetime.value])

ReadAllowanceConditional(tokens) ==
  LET allowance == ReadDuration(tokens)
      lifetime  == ReadCountdown(allowance.rest)
  IN  Both(allowance, lifetime,
           [tag |-> "UptimeAllowance", allowance |-> allowance.value,
            lifetime |-> lifetime.value])

ReadConditional(tokens) ==
  LET tag == ReadInteger(tokens)
  IN  CASE tag.ok /\ tag.value = TagNumber.Countdown       -> ReadCountdownConditional(tag.rest)
        [] tag.ok /\ tag.value = TagNumber.TimeRange       -> ReadTimeRangeConditional(tag.rest)
        [] tag.ok /\ tag.value = TagNumber.UptimeAllowance -> ReadAllowanceConditional(tag.rest)
        [] OTHER -> Failure

ReadVault(tokens) ==
  LET name       == ReadName(tokens)
      data       == ReadName(name.rest)
      protection == ReadCountdown(data.rest)
  IN  IF name.ok
      THEN Both(data, protection,
                [name |-> name.value, data |-> data.value, protection |-> protection.value])
      ELSE Failure

ReadItem(type, tokens) ==
  IF type = "Conditional" THEN ReadConditional(tokens) ELSE ReadVault(tokens)

\* The loop of readArray: what it has read after each number of items.
ReadItems(type, tokens) ==
  LET read[n \in Nat] ==
        IF n = 0 THEN Got(<<>>, tokens)
        ELSE LET item == ReadItem(type, read[n - 1].rest)
             IN  Both(read[n - 1], item, Append(read[n - 1].value, item.value))
  IN  read

ReadArray(type, tokens) ==
  LET length == ReadInteger(tokens)
  IN  IF length.ok /\ length.value >= 0
      THEN ReadItems(type, length.rest)[length.value]
      ELSE Failure

ReadConditionals(tokens) == ReadArray("Conditional", tokens)
ReadVaults(tokens)       == ReadArray("Vault", tokens)

UserOf(screen, internet) ==
  Both(screen, internet, [screen |-> screen.value, internet |-> internet.value])

ReadUserAfter(screen) == UserOf(screen, ReadConditionals(screen.rest))
ReadUser(tokens)      == ReadUserAfter(ReadConditionals(tokens))

Data1Of(luny, ruru, vaults) ==
  IF luny.ok
  THEN Both(ruru, vaults,
            [luny |-> luny.value, ruru |-> ruru.value, vaults |-> vaults.value])
  ELSE Failure

ReadVaultsAfter(luny, ruru) == Data1Of(luny, ruru, ReadVaults(ruru.rest))
ReadRuruAfter(luny)         == ReadVaultsAfter(luny, ReadUser(luny.rest))
ReadData1(tokens)           == ReadRuruAfter(ReadUser(tokens))

ReadClock(tokens) ==
  LET counted == ReadDuration(tokens)
      prev    == ReadDateTime(counted.rest)
  IN  Both(counted, prev, [counted |-> counted.value, prev |-> prev.value])

ReadData2(tokens) ==
  LET uptime == ReadClock(tokens)
      mono   == ReadClock(uptime.rest)
  IN  Both(uptime, mono, [uptime |-> uptime.value, mono |-> mono.value])

-----------------------------------------------------------------------------
(* The data of a program, and its processes.                                *)

Items(d) == Len(d.luny.screen) + Len(d.luny.internet) + Len(d.ruru.screen)
              + Len(d.ruru.internet) + Len(d.vaults)

CodecInit ==
  /\ data1 = EmptyData1 /\ file1 = WriteData1(EmptyData1) /\ saved1 = EmptyData1
  /\ data2 \in [uptime : Clock, mono : Clock] /\ file2 = WriteData2(data2) /\ saved2 = data2
  /\ asked = EmptyData1 /\ saved = EmptyData1
  /\ launches = 0

\* addConditional pushes to one of the four lists.
AddConditional(user, list, c) ==
  /\ Items(data1) < MaxItems
  /\ data1' = [data1 EXCEPT ![user][list] = Append(@, c)]
  /\ asked' = [asked EXCEPT ![user][list] = Append(@, c)]
  /\ UNCHANGED <<data2, file1, file2, saved1, saved2, saved, launches>>

\* createVault.
AddVault(v) ==
  /\ Items(data1) < MaxItems
  /\ data1' = [data1 EXCEPT !.vaults = Append(@, v)]
  /\ asked' = [asked EXCEPT !.vaults = Append(@, v)]
  /\ UNCHANGED <<data2, file1, file2, saved1, saved2, saved, launches>>

\* saveData1 and saveData2.
SaveBoth ==
  /\ file1' = WriteData1(data1) /\ saved1' = data1 /\ saved' = asked
  /\ file2' = WriteData2(data2) /\ saved2' = data2
  /\ UNCHANGED <<data1, data2, asked, launches>>

\* A new process is launched with what the files hold.
Relaunch ==
  /\ launches < MaxLaunches
  /\ launches' = launches + 1
  /\ ReadData1(file1).ok /\ data1' = ReadData1(file1).value
  /\ ReadData2(file2).ok /\ data2' = ReadData2(file2).value
  /\ asked' = saved
  /\ UNCHANGED <<file1, file2, saved1, saved2, saved>>

CodecNext ==
  \/ \E user \in {"luny", "ruru"}, list \in {"screen", "internet"}, c \in Conditional :
       AddConditional(user, list, c)
  \/ \E v \in Vault : AddVault(v)
  \/ SaveBoth \/ Relaunch

CodecSpec == CodecInit /\ [][CodecNext]_codecVars

-----------------------------------------------------------------------------
(* Correctness.                                                             *)

\* Applies Op to every conditional.
Mapped(d, Op(_)) ==
  LET list(s) == [i \in DOMAIN s |-> Op(s[i])]
      user(u) == [screen |-> list(u.screen), internet |-> list(u.internet)]
  IN  [luny |-> user(d.luny), ruru |-> user(d.ruru), vaults |-> d.vaults]

\* What reading back does to a conditional, by the definition Program goes by.
ReadBackOf(c) ==
  IF c.tag = "TimeRange" THEN [c EXCEPT !.range = RangeReadBack(@)] ELSE c

\* A file that was written can be read, to the last token.  (A file that cannot
\* would keep the daemon from ever being launched again.)
FilesAreReadable ==
  /\ ReadData1(file1).ok /\ ReadData1(file1).rest = <<>>
  /\ ReadData2(file2).ok /\ ReadData2(file2).rest = <<>>

\* What is read is what was written, in every list, in order, but for the ends of
\* the ranges that pass midnight: what Program assumes of the files.
ReadsWhatWasWritten ==
  /\ ReadData1(file1).value = Mapped(saved1, ReadBackOf)
  /\ ReadData2(file2).value = saved2

\* The times of day at which a range applies.
Covered(range) == {time \in TimesOfDay : ContainsTime(range, time)}

\* A range within one day is restored exactly by every process.  One that passes
\* midnight drifts by one unit with each process that reads what another one wrote,
\* but applies at the same times of the day until its end has drifted all the way
\* to its beginning.
RangesKeepApplying ==
  LET KeepsApplying(mine, original) ==
        (original.tag = "TimeRange") =>
          /\ original.range.till \in TimesOfDay => mine.range = original.range
          /\ original.range.till + launches < MsPerDay + original.range.from
               => Covered(mine.range) = Covered(original.range)
      InList(a, b) == \A i \in DOMAIN a : KeepsApplying(a[i], b[i])
  IN  \A user \in {"luny", "ruru"} : \A list \in {"screen", "internet"} :
        InList(data1[user][list], asked[user][list])
=============================================================================
