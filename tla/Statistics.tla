----------------------------- MODULE Statistics -----------------------------
(***************************************************************************)
(* The counters of the server (statistics_service, rolling_statistics):    *)
(* how many games run now, and how many began in the last hour, day or     *)
(* month, each in buckets as long as the precision that is kept.  One of   *)
(* the windows is modelled; the others differ by Bucket and Window.        *)
(***************************************************************************)
EXTENDS Integers, Sequences, SequencesExt

CONSTANTS Bucket, Window, \* the duration of a bucket, of all the buckets
          TickDelay,      \* the delay of the periodical tick
          MaxTime,        \* bound on the date
          MaxGames        \* bound on the games started

VARIABLES now,      \* the date
          buckets,  \* m_dates and m_values, the oldest first
          total,    \* m_total
          games,    \* m_games_instant
          tickAt,   \* the date of the next tick of the statistics
          pushedAt, \* history: the date of the last push
          started   \* history: the dates at which games started

statisticsVars == <<now, buckets, total, games, tickAt, pushedAt, started>>

Values(b) == FoldLeft(LAMBDA sum, x : sum + x.value, 0, b)

\* A variant of IsOutdated with a defect: outdated by its end.
EndIsOutdated(b) == now - b.date >= Window - Bucket

IsOutdated(b) == now - b.date > Window

\* The buckets too old, which are the first ones, are removed.
Recent(b) == SelectSeq(b, LAMBDA x : ~IsOutdated(x))

WithValue(b, v) ==
  IF b # <<>> /\ now - Last(b).date < Bucket
  THEN [b EXCEPT ![Len(b)].value = @ + v]
  ELSE Append(b, [date |-> now, value |-> v])

Push(v) ==
  IF buckets # <<>> /\ now < Last(buckets).date
  THEN UNCHANGED <<buckets, total, pushedAt>>
  ELSE LET old == SelectSeq(buckets, IsOutdated) IN
       /\ buckets' = WithValue(Recent(buckets), v)
       /\ total' = total - Values(old) + v
       /\ pushedAt' = now

RecordGameStart ==
  /\ Len(started) < MaxGames
  /\ games' = games + 1
  /\ Push(1)
  /\ started' = Append(started, now)
  /\ UNCHANGED <<now, tickAt>>

RecordGameEnd ==
  /\ games > 0
  /\ games' = games - 1
  /\ UNCHANGED <<now, buckets, total, tickAt, pushedAt, started>>

\* schedule_statistics_tick: the call made every minute.
Tick ==
  /\ now >= tickAt
  /\ Push(0)
  /\ tickAt' = now + TickDelay
  /\ UNCHANGED <<now, games, started>>

\* The scheduler makes the calls whose date is reached before the next one.
Pass ==
  /\ now < MaxTime /\ now < tickAt
  /\ now' = now + 1
  /\ UNCHANGED <<buckets, total, games, tickAt, pushedAt, started>>

StatisticsInit ==
  /\ now = 0 /\ buckets = <<>> /\ total = 0 /\ games = 0
  /\ tickAt = TickDelay /\ pushedAt = 0 /\ started = <<>>

StatisticsNext == RecordGameStart \/ RecordGameEnd \/ Tick \/ Pass

-----------------------------------------------------------------------------
(* Properties. *)

Younger(age) == Len(SelectSeq(started, LAMBDA d : pushedAt - d <= age))

\* The total tells of every game that began in the window, less the duration
\* of a bucket, before the last push, and of none that began before the window
\* (rolling_statistics::push, schedule_statistics_tick).
RecentGamesCounted ==
  /\ Younger(Window - Bucket + 1) <= total
  /\ total <= Younger(Window)
  /\ total = Values(buckets)
=============================================================================
