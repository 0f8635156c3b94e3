--------------------------- MODULE InstallProgress ---------------------------
(***************************************************************************)
(* The progress an installation shows.  install() works through a list of  *)
(* stages, each with a ProgressPulse that maps a percentage of the stage   *)
(* to a part of the overall percentage and of a row of ProgressScreen.qml. *)
(* A pulse moves at fixed milestones, at its completion, and at the        *)
(* heartbeats CommandRunner.run gives it while a command blocks; every     *)
(* emission is one line of JSON that handleBackendEvent shows.  The pipe   *)
(* between them keeps the order of lines and its reader takes whole lines, *)
(* so an emission and its display are one step here.                       *)
(***************************************************************************)
EXTENDS Integers, Sequences

CONSTANT Pulses     \* the pulses of an installation, in order

\* The pulses of install().  "marks" are the milestones emitted between the
\* first emission and the heartbeats; "beat" is what a heartbeat calls.
InstallPulses ==
  << [start |->  2, end |->  17, first |->  0, last |->  65, marks |-> <<10, 25, 35, 45, 55>>, beat |-> "none"],
     [start |-> 18, end |->  27, first |-> 65, last |-> 100, marks |-> <<82>>, beat |-> "none"],
     [start |-> 28, end |->  53, first |->  0, last |-> 100, marks |-> <<>>,   beat |-> "measured"],
     [start |-> 54, end |->  71, first |->  0, last |-> 100, marks |-> <<>>,   beat |-> "advance"],
     [start |-> 72, end |->  83, first |->  0, last |->  45, marks |-> <<>>,   beat |-> "advance"],
     [start |-> 84, end |->  95, first |-> 45, last |-> 100, marks |-> <<>>,   beat |-> "advance"],
     [start |-> 96, end |-> 100, first |->  0, last |-> 100, marks |-> <<35>>, beat |-> "advance"] >>

Rows == 0 .. 4

\* The row that shows stage k, counted from 0 (visualStageIndex).
VisualRow(k) ==
    IF k <= 1 THEN 0
    ELSE IF k = 2 THEN 1
    ELSE IF k = 3 THEN 2
    ELSE IF k <= 5 THEN 3 ELSE 4

Span(p) == p.last - p.first

PulseRecords ==
    [start : Nat, end : Nat, first : Nat, last : Nat, marks : Seq(Nat),
     beat : {"none", "advance", "measured"}]

\* What __post_init__ checks of one pulse; that its milestones stay below its
\* end; and what must hold between two pulses: the overall ranges follow each
\* other, and a row is filled by its stages in turn.
PulseValid(p) ==
    /\ p.start <= p.end /\ p.end <= 100
    /\ p.first < p.last /\ p.last <= 100
    /\ \A i \in 1 .. Len(p.marks) : p.marks[i] < p.last
    /\ p.beat = "measured" => p.last > 90

PulsesFollow(k, p, q) ==
    /\ p.end <= q.start
    /\ \/ VisualRow(k - 1) < VisualRow(k) /\ p.last = 100
       \/ VisualRow(k - 1) = VisualRow(k) /\ p.last <= q.first /\ p.last < 100

ASSUME PulsesAssumption ==
    /\ Pulses \in Seq(PulseRecords)
    /\ Len(Pulses) \in 1 .. 7
    /\ \A k \in 1 .. Len(Pulses) : PulseValid(Pulses[k])
    /\ \A k \in 1 .. Len(Pulses) - 1 : PulsesFollow(k, Pulses[k], Pulses[k + 1])
    /\ Pulses[Len(Pulses)].last = 100

VARIABLES
    stage,   \* the pulse at work; Len(Pulses) + 1 behind the last
    mark,    \* its next milestone; 0 before the first emission
    at,      \* its stage_percent
    run,     \* "going", "stopped" or "complete": the backend process
    shown    \* progress, progressStageIndex and progressStagePercent

vars == <<stage, mark, at, run, shown>>

pulse == Pulses[stage]

Greater(a, b) == IF a >= b THEN a ELSE b
Lesser(a, b) == IF a <= b THEN a ELSE b

\* Python's round() of n/d: to the nearest, a half to the even neighbour.
Round(n, d) ==
    LET q == n \div d
        r == n % d
    IN  IF 2 * r < d \/ (2 * r = d /\ q % 2 = 0) THEN q ELSE q + 1

Overall(p, percent) ==
    Round((p.start * Span(p)) + ((p.end - p.start) * (percent - p.first)), Span(p))

Init ==
    /\ stage = 1
    /\ mark = 0
    /\ at = 0
    /\ run = "going"
    /\ shown = [progress |-> 0, index |-> 0, percent |-> 0]

\* handleBackendEvent for an emission of stage k.
Show(k, percent) ==
    [progress |-> Overall(Pulses[k], percent),
     index    |-> k - 1,
     percent  |-> Lesser(Greater(0, percent), 100)]

\* emit(percent): never less than before, never more than the stage's end.
Emit(percent) ==
    /\ at' = Greater(at, Lesser(pulse.last, percent))
    /\ shown' = Show(stage, at')

\* (wrong) a pulse starts at nought wherever its stage starts
BeginAtZero ==
    /\ run = "going" /\ stage <= Len(Pulses) /\ mark = 0
    /\ at' = 0
    /\ shown' = Show(stage, at')
    /\ mark' = 1
    /\ UNCHANGED <<stage, run>>

\* The pulse is made and its first line is emitted.
Begin ==
    /\ run = "going" /\ stage <= Len(Pulses) /\ mark = 0
    /\ at' = pulse.first
    /\ shown' = Show(stage, at')
    /\ mark' = 1
    /\ UNCHANGED <<stage, run>>

Milestone ==
    /\ run = "going" /\ stage <= Len(Pulses) /\ mark \in 1 .. Len(pulse.marks)
    /\ Emit(pulse.marks[mark])
    /\ mark' = mark + 1
    /\ UNCHANGED <<stage, run>>

\* (wrong) the step of a heartbeat may reach the end of the stage
AdvanceToEnd ==
    Emit(Lesser(pulse.last, at + Greater(1, (pulse.last - at) \div 18)))

\* advance(): a smaller step the less is left, and never the whole stage.
Advance ==
    IF at >= pulse.last - 1
    THEN UNCHANGED <<at, shown>>
    ELSE Emit(Lesser(pulse.last - 1, at + Greater(1, (pulse.last - at) \div 18)))

WorkBegun == run = "going" /\ stage <= Len(Pulses) /\ mark > Len(pulse.marks)

\* A heartbeat, five seconds or a command apart.
Heartbeat ==
    /\ WorkBegun /\ pulse.beat = "advance"
    /\ Advance
    /\ UNCHANGED <<stage, mark, run>>

\* What pacstrap_download_stage_percent can return: nothing while the log has
\* no total, otherwise the share of 90 that has arrived.
NotMeasured == -1
Measurements == {NotMeasured} \union 0 .. 90

\* update_expanding_progress.
MeasuredHeartbeat ==
    /\ WorkBegun /\ pulse.beat = "measured"
    /\ \E m \in Measurements :
          IF m = NotMeasured \/ (m <= at /\ m >= 90)
          THEN Advance
          ELSE Emit(IF m > at THEN m ELSE at)
    /\ UNCHANGED <<stage, mark, run>>

Complete ==
    /\ WorkBegun
    /\ Emit(pulse.last)
    /\ stage' = stage + 1
    /\ mark' = 0
    /\ UNCHANGED run

\* A command fails; backendFinished keeps the percentages it has.
Stop ==
    /\ run = "going"
    /\ run' = "stopped"
    /\ UNCHANGED <<stage, mark, at, shown>>

\* The backend ends with success.
Finish ==
    /\ run = "going" /\ stage = Len(Pulses) + 1
    /\ run' = "complete"
    /\ shown' = [progress |-> 100, index |-> shown.index, percent |-> 100]
    /\ UNCHANGED <<stage, mark, at>>

Next ==
    \/ Begin \/ Milestone \/ Heartbeat \/ MeasuredHeartbeat
    \/ Complete \/ Stop \/ Finish

Spec == Init /\ [][Next]_vars

-----------------------------------------------------------------------------

\* stagePercent(row) of ProgressScreen.qml.
RowPercent(view, row) ==
    IF row < VisualRow(view.index) THEN 100
    ELSE IF row > VisualRow(view.index) THEN 0
    ELSE view.percent

\* Type invariant.
TypeOK ==
    /\ stage \in 1 .. Len(Pulses) + 1
    /\ mark \in Nat
    /\ at \in 0 .. 100
    /\ run \in {"going", "stopped", "complete"}
    /\ shown \in [progress : 0 .. 100, index : 0 .. 6, percent : 0 .. 100]

\* "Emit monotonic progress": neither the overall bar nor any of the five rows
\* ever shows less than it did, across stages that share a row, heartbeats, and
\* a download measured at less than the bar already shows.
NoStepBack ==
    /\ shown.progress <= shown'.progress
    /\ \A row \in Rows : RowPercent(shown, row) <= RowPercent(shown', row)

NeverBackwards == [][NoStepBack]_vars

\* A row is full, which also gives it its check mark when the next begins, only
\* when every stage it stands for has completed: no number of heartbeats fills
\* a row whose command is still running.
FullRowsAreDone ==
    \A row \in Rows : \A k \in 1 .. Len(Pulses) :
        RowPercent(shown, row) = 100 /\ VisualRow(k - 1) = row => k < stage
=============================================================================
