----------------------------- MODULE Scheduler -----------------------------
(***************************************************************************)
(* rustasea-schedule: the cron evaluation of command.rs and the tick,      *)
(* registry and pause state of scheduler.rs and pause.rs.                  *)
(*                                                                         *)
(* The calendar is scaled: a minute has SECS seconds, an hour MINS         *)
(* minutes, a day HOURS hours, a month DAYS days, a year MONTHS months, a  *)
(* week WEEK days, all months alike.  An expression is its five fields; a  *)
(* field is a sequence of parts [lo, hi, step, kind], its text parsed.     *)
(* dispatch_command answers with an error in every case (no queue is wired *)
(* to it yet), which is how the tick is modelled.                          *)
(***************************************************************************)
EXTENDS Integers, Sequences, FiniteSets, FiniteSetsExt

CONSTANTS
  SECS, MINS, HOURS, DAYS, MONTHS, WEEK,
  Commands,      \* name -> [fields, zone, skip_if_running]
  NoZone,        \* a command without a timezone
  Ticker,        \* tasks that run a tick
  LastSecond     \* BOUND: the clock stops here

ASSUME ScheduleAssumption ==
  /\ {SECS, MINS, HOURS, DAYS, MONTHS, WEEK} \subseteq Nat \ {0, 1}
  /\ LastSecond \in Nat
  /\ \A c \in DOMAIN Commands :
        Commands[c].zone = NoZone \/ Commands[c].zone \in [at : Int, before : Int, after : Int]

VARIABLES
  second,      \* the clock
  registry,    \* registered names, in order
  running,     \* names marked as running
  paused,      \* the pause flag
  ticks        \* per ticker: where its tick is

schedVars == <<second, registry, running, paused, ticks>>

-----------------------------------------------------------------------------
(* Cron expressions. *)

\* The values of one part: "*" and "a-b" step by one, "x/n" by n (at least 1).
\* A single value out of range makes the field invalid.
PartValues(p, min, max) ==
  LET lo   == IF p.kind = "star" THEN min ELSE p.lo
      hi   == CASE p.kind = "star" -> max
                [] p.kind = "from" -> max
                [] OTHER           -> p.hi
      step == IF p.step > 1 THEN p.step ELSE 1
      low  == IF lo > min THEN lo ELSE min
  IN  {v \in low .. max : v <= hi /\ (v - low) % step = 0}

PartValid(p, min, max) == p.kind = "one" => p.lo \in min .. max

parse_field(f, min, max) == UNION {PartValues(f[i], min, max) : i \in DOMAIN f}

FieldRange == <<<<0, MINS - 1>>, <<0, HOURS - 1>>, <<1, DAYS>>, <<1, MONTHS>>, <<0, WEEK - 1>>>>

Valid(c) ==
  \A i \in 1 .. 5 : \A j \in DOMAIN Commands[c].fields[i] :
     PartValid(Commands[c].fields[i][j], FieldRange[i][1], FieldRange[i][2])

Values ==
  [c \in DOMAIN Commands |->
     [i \in 1 .. 5 |-> parse_field(Commands[c].fields[i], FieldRange[i][1], FieldRange[i][2])]]

Year == MINS * HOURS * DAYS * MONTHS

\* The fields of a minute since the epoch.
MinuteOf(m)  == m % MINS
HourOf(m)    == (m \div MINS) % HOURS
DayNo(m)     == m \div (MINS * HOURS)
DayOf(m)     == (DayNo(m) % DAYS) + 1
MonthOf(m)   == ((DayNo(m) \div DAYS) % MONTHS) + 1
WeekdayOf(m) == DayNo(m) % WEEK

is_dom_unrestricted(days) == Cardinality(days) >= DAYS

fields_match(c, m) ==
  LET days == Values[c][3] IN
  /\ \/ DayOf(m) \in days
     \/ is_dom_unrestricted(days) /\ WeekdayOf(m) \in Values[c][5]
  /\ MonthOf(m) \in Values[c][4]
  /\ HourOf(m) \in Values[c][2]
  /\ MinuteOf(m) \in Values[c][1]

\* A zone changes its offset once: [at, before, after], in minutes.
Offset(z, m) == IF m < z.at THEN z.before ELSE z.after

\* from_local_datetime: none in a gap, two in an overlap.
Instants(z, local) ==
  {m \in {local - z.before, local - z.after} : m + Offset(z, m) = local}

\* Mutant: the earliest of an overlap, whether or not it has passed.
earliest(ms, start) == ms

\* The instants of a wall-clock minute at or after start.
not_past(ms, start) == {m \in ms : m * SECS >= start}

Never == -1

\* next_cron_match_in without a zone: scan UTC minutes.
NextUtc(c, from) ==
  LET first == (from + SECS) \div SECS
      hits  == {m \in first .. first + Year - 1 : fields_match(c, m)}
  IN  IF hits = {} THEN Never ELSE Min(hits) * SECS

\* next_cron_match_in with a zone: scan wall-clock minutes and map back.
NextIn(c, z, from) ==
  LET start == from + SECS
      m0    == start \div SECS
      first == m0 + Offset(z, m0)
      hits  == {l \in first .. first + Year - 1 :
                  fields_match(c, l) /\ not_past(Instants(z, l), start) # {}}
  IN  IF hits = {} THEN Never ELSE Min(not_past(Instants(z, Min(hits)), start)) * SECS

next_run(c, from) ==
  IF ~ Valid(c) THEN Never
  ELSE IF Commands[c].zone = NoZone THEN NextUtc(c, from)
  ELSE NextIn(c, Commands[c].zone, from)

\* tick's test: the next run is at most a second away.
due(c, now) == LET next == next_run(c, now) IN next # Never /\ next <= now + 1

-----------------------------------------------------------------------------
TickIdle == [pc |-> "idle"]

SchedInit ==
  /\ second = 0
  /\ registry = <<>>
  /\ running = {}
  /\ paused = FALSE
  /\ ticks = [t \in Ticker |-> TickIdle]

\* Scheduler::register ignores a name it has.
Register(c) ==
  /\ \A i \in DOMAIN registry : registry[i] # c
  /\ registry' = Append(registry, c)
  /\ UNCHANGED <<second, running, paused, ticks>>

\* pause() and resume().  The event they emit when the status they read just
\* before differs is left out.
set_paused(to) ==
  /\ paused' = to
  /\ UNCHANGED <<second, registry, running, ticks>>

\* tick reads the pause flag, the clock and a snapshot of the commands.
TickStart(t) ==
  /\ ticks[t].pc = "idle"
  /\ ~ paused
  /\ ticks' = [ticks EXCEPT ![t] = [pc |-> "check", now |-> second, rest |-> registry]]
  /\ UNCHANGED <<second, registry, running, paused>>

Skip(t) ==
  ticks' = [ticks EXCEPT ![t] = [pc |-> "check", now |-> @.now, rest |-> Tail(@.rest)]]

\* The skipIfStillRunning guard reads the marks under its own lock.
TickCheck(t) ==
  /\ ticks[t].pc = "check" /\ ticks[t].rest # <<>>
  /\ LET c == Head(ticks[t].rest) IN
     IF Commands[c].skip_if_running /\ c \in running
     THEN Skip(t)
     ELSE ticks' = [ticks EXCEPT ![t].pc = "due"]
  /\ UNCHANGED <<second, registry, running, paused>>

\* A due command is marked, any other skipped.
TickDue(t) ==
  /\ ticks[t].pc = "due"
  /\ LET c == Head(ticks[t].rest) IN
     IF due(c, ticks[t].now)
     THEN /\ running' = running \cup {c}
          /\ ticks' = [ticks EXCEPT ![t].pc = "dispatch"]
     ELSE Skip(t) /\ UNCHANGED running
  /\ UNCHANGED <<second, registry, paused>>

\* Mutant: the error is returned before the mark is cleared.
idle_on_success(c) == UNCHANGED running

mark_idle(c) == running' = running \ {c}

\* dispatch_command fails: the mark is cleared and the tick ends with the
\* error, whatever commands were left.
TickDispatch(t) ==
  /\ ticks[t].pc = "dispatch"
  /\ mark_idle(Head(ticks[t].rest))
  /\ ticks' = [ticks EXCEPT ![t] = TickIdle]
  /\ UNCHANGED <<second, registry, paused>>

TickEnd(t) ==
  /\ ticks[t].pc = "check" /\ ticks[t].rest = <<>>
  /\ ticks' = [ticks EXCEPT ![t] = TickIdle]
  /\ UNCHANGED <<second, registry, running, paused>>

SchedSecond ==
  /\ second < LastSecond
  /\ second' = second + 1
  /\ UNCHANGED <<registry, running, paused, ticks>>

SchedNext ==
  \/ SchedSecond
  \/ \E c \in DOMAIN Commands : Register(c)
  \/ \E to \in BOOLEAN : set_paused(to)
  \/ \E t \in Ticker :
        TickStart(t) \/ TickCheck(t) \/ TickDue(t) \/ TickDispatch(t) \/ TickEnd(t)

SchedSpec == SchedInit /\ [][SchedNext]_schedVars

-----------------------------------------------------------------------------
(* Properties. *)

\* A mark never outlives the ticks that set it: a command is marked only
\* while some tick is dispatching it, even when its dispatch fails
\* (scheduler.rs, mark_idle before `result?`); a leaked mark would keep a
\* skipIfStillRunning command from ever running again.
NoLeakedMark ==
  \A c \in running :
     \E t \in Ticker : ticks[t].pc = "dispatch" /\ Head(ticks[t].rest) = c

\* What next_run answers at this second is later, and matches the fields on
\* the command's own clock.
RunsAhead(c) ==
  LET zone == Commands[c].zone
      next == next_run(c, second)
      m    == next \div SECS
  IN  next # Never =>
        /\ next > second
        /\ fields_match(c, IF zone = NoZone THEN m ELSE m + Offset(zone, m))

\* At every second next_run answers with an instant strictly after the one it was asked
\* about, which matches the fields on the command's own clock, also when the
\* clock goes back or forward in between (next_cron_match_in).
NextRunAhead ==
  [][second' # second => \A c \in DOMAIN Commands : RunsAhead(c)]_second
=============================================================================
