-------------------------------- MODULE MCSite --------------------------------
(***************************************************************************)
(* What surrounds the pipeline, one machine to a behaviour: the stored data *)
(* outside of requests (MCDatabase), the team of one project, the owner's   *)
(* pages over it, and the public feed.  They share no variable.             *)
(***************************************************************************)
EXTENDS MCDatabase, ProjectTeam, OwnerDashboard, PublicFeed

VARIABLE machine    \* the one that moves

siteVars == <<machine, DatabaseVars, vars, dashboardVars, feedVars>>

DashboardRests == myRow = NoRow /\ public = FALSE /\ page = "me"
FeedRests == project = [i \in Ids |-> NoProject] /\ filter = "any"

SiteInit ==
    /\ DatabaseInit
    /\ Init
    /\ \/ machine \in {"database", "team"} /\ DashboardRests /\ FeedRests
       \/ machine = "dashboard" /\ FeedRests
       \/ machine = "feed" /\ DashboardRests
    /\ DashboardInit
    /\ FeedInit

SiteNext ==
    /\ \/ /\ machine = "database" /\ DatabaseNext
          /\ UNCHANGED <<vars, dashboardVars, feedVars>>
       \/ /\ machine = "team" /\ Next
          /\ UNCHANGED <<DatabaseVars, dashboardVars, feedVars>>
       \/ /\ machine = "dashboard" /\ DashboardNext
          /\ UNCHANGED <<DatabaseVars, vars, feedVars>>
       \/ /\ machine = "feed" /\ FeedNext
          /\ UNCHANGED <<DatabaseVars, vars, dashboardVars>>
    /\ UNCHANGED machine

SiteSpec == SiteInit /\ [][SiteNext]_siteVars

\* HeadIsReached: a command may be tried from wherever earlier ones have left
\* the database.  It is worked out where the database moves alone; elsewhere
\* the database is empty, as it is there at first.
HeadIsReachedFromHere == machine = "database" => HeadIsReached
=============================================================================
