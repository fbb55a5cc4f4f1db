------------------------------- MODULE ContestPhase -------------------------------
(***************************************************************************)
(* The phase a contest is in for one contestant, at one moment:            *)
(* cms/server/contest/phase_management.py.                                 *)
(*                                                                         *)
(* Times are integers.  A contest is a record with its start, stop,        *)
(* analysis_start, analysis_stop (None unless the analysis mode is         *)
(* enabled) and per_user_time (None in a traditional contest); a           *)
(* participation has a starting_time (None until the contestant starts),   *)
(* a delay_time and an extra_time.                                         *)
(***************************************************************************)
EXTENDS Integers, FiniteSetsExt

CONSTANT None

-----------------------------------------------------------------------------

\* The time frame of the contestant is not known before they press "start".
FrameUnknown(c, p) == c.per_user_time # None /\ p.starting_time = None

\* A time set by an administrator, brought back into the contest.
WithinContest(c, t) == Min({Max({t, c.start}), c.stop})

ActualStart(c, p) ==
    (IF c.per_user_time = None THEN c.start ELSE WithinContest(c, p.starting_time))
        + p.delay_time

ActualStop(c, p) ==
    (IF c.per_user_time = None
     THEN c.stop
     ELSE WithinContest(c, p.starting_time + c.per_user_time))
        + p.delay_time + p.extra_time

Phase(phase, begin, end) == [phase |-> phase, begin |-> begin, end |-> end]

\* The phase without regard to the analysis mode: its number and its boundaries.
UnknownFramePhase(t, c) ==
    CASE t < c.start -> Phase(-2, None, c.start)
      [] c.start <= t /\ t <= c.stop -> Phase(-1, c.start, c.stop)
      [] c.stop < t -> Phase(2, c.stop, None)

KnownFramePhase(t, c, p) ==
    LET start == ActualStart(c, p)
        stop == ActualStop(c, p)
    IN  CASE start <= t /\ t <= stop -> Phase(0, start, stop)
          [] c.start <= t /\ t < start -> Phase(-1, c.start, start)
          [] t < c.start -> Phase(-2, None, c.start)
          [] stop < t /\ t <= c.stop -> Phase(1, stop, c.stop)
          [] stop < t /\ c.stop < t -> Phase(2, Max({c.stop, stop}), None)

\* The analysis mode starts no earlier than the contestant's own end.
AfterOwnStop(c, p, t) == IF FrameUnknown(c, p) THEN t ELSE Max({t, ActualStop(c, p)})

\* What phase +2 becomes.
AnalysisPhase(t, c, p, begin) ==
    CASE c.analysis_start = None -> Phase(4, begin, None)
      [] c.analysis_start # None /\ t < c.analysis_start -> Phase(2, begin, c.analysis_start)
      [] c.analysis_start # None /\ c.analysis_start <= t /\ t <= c.analysis_stop ->
            Phase(3, AfterOwnStop(c, p, c.analysis_start), c.analysis_stop)
      [] c.analysis_start # None /\ c.analysis_stop < t ->
            Phase(4, AfterOwnStop(c, p, c.analysis_stop), None)

ComputeActualPhase(t, c, p) ==
    LET main == IF FrameUnknown(c, p)
                THEN UnknownFramePhase(t, c) ELSE KnownFramePhase(t, c, p)
    IN  IF main.phase = 2 THEN AnalysisPhase(t, c, p, main.begin) ELSE main

\* The guard of a handler: is the request let through?
ActualPhaseRequired(phases, phase, unrestricted) == phase \in phases \/ unrestricted

=============================================================================
