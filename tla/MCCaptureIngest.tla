-------------------------- MODULE MCCaptureIngest --------------------------
(***************************************************************************)
(* The cameras of a site of one face, in two halves whose states add up.    *)
(* In the fleet half two cameras can claim the code of the face, and        *)
(* nothing is photographed.  In the ingest half one camera has two          *)
(* photographs and two requests in flight; of the fleet it is paired and    *)
(* unpaired, and the clock stands still.                                    *)
(*                                                                          *)
(* Two stamps are of one instant, one of them written in a zone where it is *)
(* the next day already; the third is of that next day.                     *)
(***************************************************************************)
EXTENDS CaptureIngest

VARIABLE half   \* the half of the model that moves

MCStamps ==
    {[moment |-> 0, utcDay |-> 0, zoneDay |-> 0],
     [moment |-> 0, utcDay |-> 0, zoneDay |-> 1],
     [moment |-> 1, utcDay |-> 1, zoneDay |-> 1]}

TheCamera  == CHOOSE k \in Cameras : TRUE
TheTraveller == CHOOSE c \in Captures : TRUE

\* Bounds of the ingest half: no event, setting, sweep or remark, a second
\* camera or a later hour; and one photograph only is stamped in another zone.
FewRequests ==
    /\ UNCHANGED <<now, sweep, saidAt>>
    /\ \A r \in Requests :
          /\ req'[r].op \notin {"event", "settings"}
          /\ req'[r].op = "claim" => req'[r].camera = TheCamera
          /\ req'[r].op = "upload" => \/ InUtc(req'[r].stamp)
                                     \/ req'[r].content = TheTraveller

SiteInit == Init /\ half \in {"fleet", "ingest"}

SiteNext ==
    /\ UNCHANGED half
    /\ \/ half = "fleet" /\ FleetNext /\ UNCHANGED ingestVars
       \/ half = "ingest" /\ Next /\ FewRequests

siteVars == <<vars, half>>

\* The fairness of FleetFairSpec in the one half, of FairSpec in the other.
SiteSpec ==
    /\ SiteInit /\ [][SiteNext]_siteVars
    /\ \A r \in Requests : WF_siteVars(RequestStep(r) /\ UNCHANGED half)
    /\ WF_siteVars(half = "fleet" /\ (SweepRead \/ SweepCommit) /\ UNCHANGED <<ingestVars, half>>)
    /\ \A c \in Captures : SF_siteVars(half = "ingest" /\ Retry(TheCamera, c) /\ UNCHANGED half)
=============================================================================
