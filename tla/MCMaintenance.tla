---------------------------- MODULE MCMaintenance ----------------------------
(***************************************************************************)
(* What the workers of the `reports` queue do, one machine to a behaviour:  *)
(* reports with their cleanup, and the remarks of a project.  They share no *)
(* variable.  What a report covers is a function of its request: checked    *)
(* below on a calendar with months of ten days, where the day begins a      *)
(* third of a UTC day early (as in Manila) and one day is skipped.          *)
(***************************************************************************)
EXTENDS ReportJob, Remarks, ReportPeriods

VARIABLE machine    \* the one that moves

maintenanceVars == <<machine, vars, remarksVars>>

MaintenanceInit ==
    /\ machine \in {"reports", "remarks"}
    /\ Init
    /\ RemarksInit

\* A bound: emissions run beside each other in the behaviours in which nobody
\* but emissions writes.
Apart == doubles = 0 \/ notes = 0

MaintenanceNext ==
    /\ \/ machine = "reports" /\ Next /\ UNCHANGED remarksVars
       \/ machine = "remarks" /\ RemarksNext /\ Apart' /\ UNCHANGED vars
    /\ UNCHANGED machine

\* FairSpec and RemarksFairSpec, each where it moves.
Reporting(A) == machine = "reports" /\ A /\ UNCHANGED <<machine, remarksVars>>
Remarking(A) == machine = "remarks" /\ A /\ Apart' /\ UNCHANGED <<machine, vars>>

MaintenanceSpec ==
    /\ MaintenanceInit
    /\ [][MaintenanceNext]_maintenanceVars
    /\ \A r \in Reports : /\ WF_maintenanceVars(Reporting(RequestCommit(r)))
                          /\ WF_maintenanceVars(Reporting(TakeAny(r)))
    /\ \A w \in Workers : WF_maintenanceVars(Reporting(Work(w)))
    /\ WF_maintenanceVars(Reporting(Cleanup))
    /\ WF_maintenanceVars(Remarking(\E e \in Emitters : EmissionReads(e)))
    /\ \A e \in Emitters : /\ WF_maintenanceVars(Remarking(EmissionWrites(e)))
                           /\ WF_maintenanceVars(Remarking(EmissionCommits(e)))
    /\ SF_maintenanceVars(Remarking(Tick))

-----------------------------------------------------------------------------
SkippedDay == 24
SiteMidnight == [d \in Days |-> DayLength * (IF d > SkippedDay THEN d - 1 ELSE d) - 1]
TenDayMonths == [d \in Days |-> 10 * (d \div 10)]

OnSite == Midnight[FirstDay] .. Midnight[LastDay] - 1
Taken == {[at |-> t, status |-> IF t % 5 = 0 THEN "rejected" ELSE "scored",
           verdict |-> IF t % 5 = 0 THEN "none" ELSE "eligible",
           device |-> IF t % 2 = 0 THEN "front" ELSE "unknown"] : t \in OnSite}
Site == [captures |-> Taken,
         snapshots |-> {[window |-> window_bounds(t).start, displayed |-> DateOnSite(t),
                         stages |-> DateOnSite(t)] : t \in OnSite},
         remarks |-> {[at |-> t] : t \in OnSite},
         progress |-> Unmeasured]

Report(kind, now, given) == _collect(Site, resolve_period(kind, now, given))
Nights(data) == {DateOnSite(c.at) : c \in data.captures}
Requests == {t \in OnSite : DateOnSite(t) \in {22, 27, 28, 30, 39}}

\* A report holds the captures of the week, of the month or of the days that
\* it is of, dated on site, and both documents tell of all of them
\* (reporting.py:79-125, worker/reports.py:164-247).
ASSUME ReportsHoldTheirDays ==
    /\ \A now \in Requests :
          LET weekly == Report("weekly", now, << >>)
              monthly == Report("monthly", now, << >>)
              today == DateOnSite(now)
              Were(d) == \E t \in OnSite : IsOn(t, d)
          IN  /\ Nights(weekly) = {d \in Days : Were(d) /\ d \div 7 = today \div 7 - 1}
              /\ Nights(monthly) = {d \in Days : Were(d) /\ d \div 10 = today \div 10 - 1}
              /\ \A data \in {weekly, monthly} :
                    LET pdf == build_pdf(data)
                        csv == build_csv(data)
                    IN  /\ pdf.received = Cardinality(csv.captures)
                        /\ pdf.used = Cardinality({x \in csv.captures : x.eligible = "true"})
                        /\ pdf.accepted + pdf.rejected = pdf.received
                        /\ pdf.estimated = pdf.stages /\ ~pdf.carried_forward
                        /\ Cardinality(pdf.curve) = Cardinality(csv.snapshots)
    /\ LET given == [date \in Dates |-> 12]
       IN  /\ _custom_needs_both_dates("custom", given)
           /\ \A kind \in ReportKinds \ {"custom"} : ~_custom_needs_both_dates(kind, given)
           /\ Nights(Report("custom", Midnight[0], given)) = {12}
=============================================================================
