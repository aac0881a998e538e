------------------------------- MODULE Remarks -------------------------------
(***************************************************************************)
(* The remarks of one project.  Every six hours remarks.emit_system writes  *)
(* what the project is owed, unless a remark of that type is recent; the    *)
(* device sweep does the same for a dark site, each in a transaction that   *)
(* does not see the other; recomputes write theirs unasked, and members     *)
(* write, edit and delete their own.  The worker's processes run whatever   *)
(* the queue holds: a beat that was redelivered, or that waited for a       *)
(* worker, runs beside the next one.                                        *)
(*                                                                          *)
(* A remark has an age instead of a time: 0 .. Window is recent, and all    *)
(* that is older looks alike to the code.  External parts: celery beat, the *)
(* camera and the site.                                                     *)
(***************************************************************************)
EXTENDS Integers, Sequences, Bags

CONSTANTS
    Emitters,           \* worker processes that may run emit_system at once
    Window,             \* DEDUPE_WINDOW_HOURS, in ticks
    REJECTION_STREAK,   \* captures refused in a row
    NoteTypes,          \* types and
    NoteSeverities,     \* severities members give their notes
    MaxNotes,           \* remarks of members, recomputes and the sweep
    MaxChanges,         \* things that happen to the project
    MaxDeaths,          \* emissions that die
    MaxDoubles          \* emissions that begin while another runs

Types == {"system", "weather", "delay", "inactivity", "manual", "regression"}
Severities == {"info", "warning", "critical"}

ASSUME RemarksAssumption ==
    /\ NoteTypes \subseteq Types /\ NoteSeverities \subseteq Severities
    /\ {Window, MaxNotes, MaxChanges, MaxDeaths, MaxDoubles} \subseteq Nat
    /\ REJECTION_STREAK \in Nat \ {0}

VARIABLES
    signals,    \* what the rules look at: ProjectSignals and the newest captures
    remarks,    \* the committed rows of the project, a bag
    emission,   \* each process and the emission it runs, or Rests
    sweep,      \* TRUE: a sweep found no recent remark and is about to commit its own
    notes, changes, deaths, doubles

remarksVars == <<signals, remarks, emission, sweep, notes, changes, deaths, doubles>>

-----------------------------------------------------------------------------
\* `by` is who wrote it; author_id is set for members alone.  `beside` is a
\* history: another emission ran while the one that wrote it did.
RemarkRows == [type : Types, severity : Severities, age : 0..Window + 1,
         by : {"emission", "sweep", "recompute", "member"}, beside : BOOLEAN]
is_system_generated(remark) == remark.by # "member"

\* A capture older than INACTIVE_AFTER_DAYS, or none ever; the day against the
\* deadline and the curve; the newest captures refused in a row.
Signals == [silent : {"never", "no", "yes"}, schedule : {"kept", "behind", "passed"},
            state : {"live", "approved", "archived"}, rejected : 0..REJECTION_STREAK]

Rests == [step |-> "rests"]

RemarksTypeOK ==
    /\ signals \in Signals
    /\ BagToSet(remarks) \subseteq RemarkRows /\ IsABag(remarks)
    /\ DOMAIN emission = Emitters
    /\ \A e \in Emitters : emission[e].step \in {"rests", "writes", "committing"}
    /\ sweep \in BOOLEAN
    /\ notes \in 0..MaxNotes /\ changes \in 0..MaxChanges /\ deaths \in 0..MaxDeaths
    /\ doubles \in 0..MaxDoubles

-----------------------------------------------------------------------------
Due(type, severity) == [type |-> type, severity |-> severity]

When(condition, due) == IF condition THEN <<due>> ELSE << >>

\* due_remarks, in the order they are written.
due_remarks(s) ==
    IF s.state # "live" THEN << >>
    ELSE When(s.silent = "yes", Due("inactivity", "warning"))
         \o When(s.schedule # "kept", Due("delay", IF s.schedule = "passed" THEN "critical" ELSE "warning"))
         \o When(s.rejected >= REJECTION_STREAK, Due("system", "info"))

\* Mutant: a remark counts as a repetition however long ago it was made.
recent_of_type_Ever(due) == \E r \in BagToSet(remarks) : r.type = due.type

\* recent_of_type, whoever wrote it.
recent_of_type(due) == \E r \in BagToSet(remarks) : r.type = due.type /\ r.age <= Window

Remark(due, by, beside) ==
    [type |-> due.type, severity |-> due.severity, by |-> by, age |-> 0, beside |-> beside]
With(bag, remark) == bag (+) SetToBag({remark})
Without(bag, remark) == bag (-) SetToBag({remark})

-----------------------------------------------------------------------------
\* A project just created.
RemarksInit ==
    /\ signals = [silent |-> "never", schedule |-> "kept", state |-> "live", rejected |-> 0]
    /\ remarks = EmptyBag
    /\ emission = [e \in Emitters |-> Rests]
    /\ sweep = FALSE
    /\ notes = 0 /\ changes = 0 /\ deaths = 0 /\ doubles = 0

(***************************************************************************)
(* remarks.emit_system, one transaction.                                    *)
(***************************************************************************)
Runs(e) == emission[e] # Rests
RunsAlone(e) == \A f \in Emitters \ {e} : ~Runs(f)

\* list_for_maintenance and _rejection_streak.  Whatever else runs, runs beside.
EmissionReads(e) ==
    /\ ~Runs(e)
    /\ \/ RunsAlone(e) /\ UNCHANGED doubles
       \/ ~RunsAlone(e) /\ doubles < MaxDoubles /\ doubles' = doubles + 1
    /\ emission' = [f \in Emitters |->
          CASE f = e -> [step |-> "writes", due |-> due_remarks(signals), written |-> {},
                         beside |-> ~RunsAlone(e)]
            [] f # e /\ Runs(f) -> [emission[f] EXCEPT !.beside = TRUE]
            [] OTHER -> Rests]
    /\ UNCHANGED <<signals, remarks, sweep, notes, changes, deaths>>

\* The next remark that is due: looked up, and added unless one is recent.  The
\* look-up sees what is committed, and not what another emission has added.
EmissionWrites(e) ==
    /\ emission[e].step = "writes"
    /\ LET this == emission[e]
           due == Head(this.due)
           next == CASE this.due = << >> -> [this EXCEPT !.step = "committing"]
                     [] this.due # << >> /\ recent_of_type(due) -> [this EXCEPT !.due = Tail(@)]
                     [] OTHER -> [this EXCEPT !.due = Tail(@), !.written = @ \cup {due}]
       IN  emission' = [emission EXCEPT ![e] = next]
    /\ UNCHANGED <<signals, remarks, sweep, notes, changes, deaths, doubles>>

EmissionCommits(e) ==
    /\ emission[e].step = "committing"
    /\ remarks' = remarks (+) SetToBag({Remark(due, "emission", emission[e].beside) :
                                           due \in emission[e].written})
    /\ emission' = [emission EXCEPT ![e] = Rests]
    /\ UNCHANGED <<signals, sweep, notes, changes, deaths, doubles>>

\* The process dies or the database fails: all of it is rolled back, and the
\* message is delivered again or the next beat comes.
EmissionDies(e) ==
    /\ Runs(e)
    /\ deaths < MaxDeaths
    /\ deaths' = deaths + 1
    /\ emission' = [emission EXCEPT ![e] = Rests]
    /\ UNCHANGED <<signals, remarks, sweep, notes, changes, doubles>>

-----------------------------------------------------------------------------
(***************************************************************************)
(* The other authors.                                                       *)
(***************************************************************************)
Note(remark) ==
    /\ notes < MaxNotes
    /\ notes' = notes + 1
    /\ remarks' = With(remarks, remark)

\* _sweep_devices at a dark site (DeviceFleet has it whole): the look-up, and
\* the commit of offline_remark.
SweepLooks ==
    /\ ~sweep
    /\ notes < MaxNotes
    /\ signals.state # "archived"
    /\ ~recent_of_type(Due("system", "warning"))
    /\ sweep' = TRUE
    /\ UNCHANGED <<signals, remarks, emission, notes, changes, deaths, doubles>>

SweepSays ==
    /\ sweep
    /\ sweep' = FALSE
    /\ Note(Remark(Due("system", "warning"), "sweep", FALSE))
    /\ UNCHANGED <<signals, emission, changes, deaths, doubles>>

\* _system_remark: a regression, or a project that waits for inspection.
RecomputeSays(severity) ==
    /\ Note(Remark(Due("system", severity), "recompute", FALSE))
    /\ UNCHANGED <<signals, emission, sweep, changes, deaths, doubles>>

\* A member may give a note any type.
CreateRemark(type, severity) ==
    /\ Note(Remark(Due(type, severity), "member", FALSE))
    /\ UNCHANGED <<signals, emission, sweep, changes, deaths, doubles>>

\* Its type stays; what the system wrote is refused.
UpdateRemark(remark, severity) ==
    /\ remark \in BagToSet(remarks)
    /\ ~is_system_generated(remark)
    /\ remarks' = With(Without(remarks, remark), [remark EXCEPT !.severity = severity])
    /\ UNCHANGED <<signals, emission, sweep, notes, changes, deaths, doubles>>

DeleteRemark(remark) ==
    /\ remark \in BagToSet(remarks)
    /\ ~is_system_generated(remark)
    /\ remarks' = Without(remarks, remark)
    /\ UNCHANGED <<signals, emission, sweep, notes, changes, deaths, doubles>>

-----------------------------------------------------------------------------
(***************************************************************************)
(* The project and the clock.                                               *)
(***************************************************************************)
Becomes(s) ==
    /\ changes < MaxChanges
    /\ changes' = changes + 1
    /\ s # signals
    /\ signals' = s
    /\ UNCHANGED <<remarks, emission, sweep, notes, deaths, doubles>>

\* A capture, accepted or refused by the quality gate, moves last_capture_at;
\* two weeks without one; work falls behind, catches up or passes its deadline;
\* the project is approved or archived.
Happens ==
    \/ Becomes([signals EXCEPT !.silent = "no", !.rejected = 0])
    \/ /\ signals.rejected < REJECTION_STREAK
       /\ Becomes([signals EXCEPT !.silent = "no", !.rejected = @ + 1])
    \/ signals.silent = "no" /\ Becomes([signals EXCEPT !.silent = "yes"])
    \/ \E schedule \in {"kept", "behind", "passed"} : Becomes([signals EXCEPT !.schedule = schedule])
    \/ signals.state = "live" /\ Becomes([signals EXCEPT !.state = "approved"])
    \/ signals.state # "archived" /\ Becomes([signals EXCEPT !.state = "archived"])

Older(remark) == [remark EXCEPT !.age = IF @ > Window THEN @ ELSE @ + 1]

\* A tick is hours, an emission minutes: its cutoff and the created_at of what
\* it writes are one tick.
Tick ==
    /\ \A e \in Emitters : ~Runs(e)
    /\ remarks' = [r \in {Older(old) : old \in BagToSet(remarks)} |->
                     IF r.age > Window THEN 1 ELSE remarks[[r EXCEPT !.age = @ - 1]]]
    /\ UNCHANGED <<signals, emission, sweep, notes, changes, deaths, doubles>>

RemarksNext ==
    \/ \E e \in Emitters :
        EmissionReads(e) \/ EmissionWrites(e) \/ EmissionCommits(e) \/ EmissionDies(e)
    \/ SweepLooks \/ SweepSays
    \/ \E severity \in {"warning", "info"} : RecomputeSays(severity)
    \/ \E severity \in NoteSeverities :
        \/ \E type \in NoteTypes : CreateRemark(type, severity)
        \/ \E remark \in BagToSet(remarks) : UpdateRemark(remark, severity)
    \/ \E remark \in BagToSet(remarks) : DeleteRemark(remark)
    \/ Happens
    \/ Tick

RemarksSpec == RemarksInit /\ [][RemarksNext]_remarksVars

(***************************************************************************)
(* The beat keeps coming, an emission that does not die ends, and time      *)
(* passes.  The sweep, members and recomputes owe nothing, and no process   *)
(* owes a second emission beside the first.                                 *)
(***************************************************************************)
RemarksFairSpec ==
    /\ RemarksSpec
    /\ WF_remarksVars(\E e \in Emitters : EmissionReads(e))
    /\ \A e \in Emitters : /\ WF_remarksVars(EmissionWrites(e))
                           /\ WF_remarksVars(EmissionCommits(e))
    /\ SF_remarksVars(Tick)

-----------------------------------------------------------------------------
(***************************************************************************)
(* What the remarks promise.                                                *)
(***************************************************************************)
Complaints == {"inactivity", "delay", "system"}
IsDue(type) == \E k \in DOMAIN due_remarks(signals) : due_remarks(signals)[k].type = type
Recent(type) == {r \in BagToSet(remarks) : r.type = type /\ r.age <= Window}

\* What the module's docstring says of every scheduled job: safe to run twice,
\* and no double post.  An emission looks its complaint up and adds it with
\* nothing that holds another one off, so two that run at once both say it.
NeverSaidTwice ==
    \A type \in Complaints : \A r, q \in Recent(type) :
        r.by = "emission" /\ q.by = "emission" => r = q /\ remarks[r] = 1

\* An emission does not repeat a complaint inside its window, whoever else
\* wrote, edited or deleted one, and also when a delay grows into a missed
\* deadline, or an emission died and was delivered again - unless each of the
\* emissions that said it ran while another one did.
SaidOnce ==
    \A type \in Complaints : \A r, q \in Recent(type) :
        r.by = "emission" /\ q.by = "emission"
            => (r = q /\ remarks[r] = 1) \/ (r.beside /\ q.beside)

\* A complaint is said once in its window; and a problem that persists is stated
\* again once the last word on it is older than the window (remarks.py:39-42).
SaidOnceAndRestated ==
    /\ []SaidOnce
    /\ \A type \in Complaints : IsDue(type) ~> (~IsDue(type) \/ Recent(type) # {})
==============================================================================
