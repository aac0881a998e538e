---------------------------- MODULE ReportPeriods ----------------------------
(***************************************************************************)
(* Which days a report covers and what of a project goes into it: the       *)
(* validator of a request, resolve_period, the queries of _collect, and the *)
(* figures that the PDF builder, its charts and the CSV builder draw.       *)
(*                                                                         *)
(* Days are numbered so that day 0 is a Monday; instants are whole numbers  *)
(* of some unit of UTC time, DayLength of them to a UTC day.                *)
(***************************************************************************)
EXTENDS Integers, FiniteSets

CONSTANTS
    FirstDay, LastDay,  \* the days of the calendar
    Midnight,           \* the instant at which a day begins on site
    FirstOf,            \* the first of the month of a day
    DayLength,
    Unmeasured,         \* the stage bars of a project without a snapshot
    RemarkLimit         \* how many remarks a query returns at most

Days == FirstDay .. LastDay

\* A day on site begins when the one before ends.  A zone may skip a day, and
\* a day of 23 or of 25 hours is one too.
ASSUME CalendarAssumption ==
    /\ FirstDay \in Int /\ LastDay \in Int
    /\ DayLength \in Nat \ {0}
    /\ RemarkLimit \in Nat
    /\ Midnight \in [Days -> Int]
    /\ \A d, e \in Days : d <= e => Midnight[d] <= Midnight[e]
    /\ FirstOf \in [Days -> Int]
    /\ \A d \in Days : FirstOf[d] <= d
    /\ \A d, e \in Days : FirstOf[e] <= d /\ d <= e => FirstOf[d] = FirstOf[e]

\* The date of an instant on site, and in UTC.
IsOn(t, d) == d \in Days /\ d + 1 \in Days /\ Midnight[d] <= t /\ t < Midnight[d + 1]
DateOnSite(t) == CHOOSE d \in Days : IsOn(t, d)
DateInUtc(t) == t \div DayLength

-----------------------------------------------------------------------------
(* The request *)

MAX_CUSTOM_PERIOD_DAYS == 366

ReportKinds == {"weekly", "monthly", "custom"}
Dates == {"period_start", "period_end"}

\* An inverted span is no period.
NoPeriod == [start |-> 0, end |-> -1]
ReportPeriod(start, end) == IF end < start THEN NoPeriod ELSE [start |-> start, end |-> end]
days(period) == period.end - period.start + 1
Covers(period, d) == period.start <= d /\ d <= period.end

\* `given` has the dates of the request.
_custom_needs_both_dates(kind, given) == DOMAIN given = IF kind = "custom" THEN Dates ELSE {}

Weekly(today) == LET start == today - (today % 7) - 7 IN ReportPeriod(start, start + 6)
Monthly(today) == LET end == FirstOf[today] - 1 IN ReportPeriod(FirstOf[end], end)
Custom(given) ==
    LET period == ReportPeriod(given.period_start, given.period_end)
    IN  IF days(period) > MAX_CUSTOM_PERIOD_DAYS THEN NoPeriod ELSE period

resolve_period(kind, now, given) ==
    CASE kind = "weekly" -> Weekly(DateOnSite(now))
      [] kind = "monthly" -> Monthly(DateOnSite(now))
      [] kind = "custom" -> IF DOMAIN given = Dates THEN Custom(given) ELSE NoPeriod

-----------------------------------------------------------------------------
(***************************************************************************)
(* The data.  A capture has an instant, a status, the verdict of its        *)
(* prediction ("none" without one) and the name of its camera; a snapshot   *)
(* the instant its window starts, the percentage displayed and the bars of  *)
(* the stages; a remark its instant.                                        *)
(***************************************************************************)
bounds_utc(period) == [start |-> Midnight[period.start], end |-> Midnight[period.end + 1]]

\* A window is a day on site.
window_bounds(t) == bounds_utc(ReportPeriod(DateOnSite(t), DateOnSite(t)))

list_in_window(captures, start, end) == {c \in captures : start <= c.at /\ c.at < end}

\* Both ends are part of the series.
list_series(snapshots, since, until) == {s \in snapshots : since <= s.window /\ s.window <= until}

\* The newest, and of those `_collect` keeps the period's: a long report
\* written late has lost its first remarks.
list_for_project(remarks) ==
    {r \in remarks : Cardinality({s \in remarks : s.at > r.at}) < RemarkLimit}

_collect(project, period) ==
    LET bounds == bounds_utc(period)
    IN  [captures |-> list_in_window(project.captures, bounds.start, bounds.end),
         snapshots |-> list_series(project.snapshots, bounds.start, bounds.end),
         remarks |-> {r \in list_for_project(project.remarks) :
                         bounds.start <= r.at /\ r.at < bounds.end},
         progress |-> project.progress]

Latest(snapshots) == CHOOSE s \in snapshots : \A x \in snapshots : x.window <= s.window

displayed_pct(data) == IF data.snapshots = {} THEN data.progress ELSE Latest(data.snapshots).displayed
has_data(data) == data.captures # {}
rejected(data) == {c \in data.captures : c.status = "rejected"}
eligible_captures(data) == {c \in data.captures : c.verdict = "eligible"}
captures_per_device(data) ==
    [name \in {c.device : c \in data.captures} |->
        Cardinality({c \in data.captures : c.device = name})]

-----------------------------------------------------------------------------
(* The documents *)

stage_bars(data) == IF data.snapshots = {} THEN Unmeasured ELSE Latest(data.snapshots).stages

\* The charts date by the instant, which is in UTC.
progress_curve(data) ==
    {[date |-> DateInUtc(s.window), displayed |-> s.displayed] : s \in data.snapshots}

capture_histogram(data) ==
    LET On(captures, d) == Cardinality({c \in captures : DateInUtc(c.at) = d})
    IN  [d \in {DateInUtc(c.at) : c \in data.captures} |->
            [accepted |-> On(data.captures \ rejected(data), d),
             rejected |-> On(rejected(data), d)]]

build_pdf(data) ==
    [estimated |-> displayed_pct(data),
     carried_forward |-> ~has_data(data),
     stages |-> stage_bars(data),
     curve |-> progress_curve(data),
     received |-> Cardinality(data.captures),
     accepted |-> Cardinality(data.captures) - Cardinality(rejected(data)),
     rejected |-> Cardinality(rejected(data)),
     used |-> Cardinality(eligible_captures(data)),
     cameras |-> Cardinality(DOMAIN captures_per_device(data)),
     histogram |-> capture_histogram(data),
     remarks |-> data.remarks]

\* Blank rather than "false" of a photograph nothing was predicted of.
build_csv(data) ==
    [snapshots |-> {[window_start |-> s.window, displayed_pct |-> s.displayed] : s \in data.snapshots},
     captures |-> {[captured_at |-> c.at, device |-> c.device, status |-> c.status,
                    eligible |-> CASE c.verdict = "none" -> ""
                                   [] c.verdict = "eligible" -> "true"
                                   [] c.verdict = "ineligible" -> "false"] : c \in data.captures}]
=============================================================================
