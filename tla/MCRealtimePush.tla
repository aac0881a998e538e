---------------------------- MODULE MCRealtimePush ----------------------------
(***************************************************************************)
(* A page on a small instance: RealtimePush is its push channel, Sessions   *)
(* the session it asks with.  They share no variable; the session moves     *)
(* once a page that nothing had reached was left, so their states add up.   *)
(*                                                                          *)
(* The reads of a project that changes are pushed of are evaluated over     *)
(* small databases: two projects, two people, every membership of one of    *)
(* them, and one row or none of each part.                                  *)
(***************************************************************************)
EXTENDS RealtimePush, Sessions, ProjectReads

pageVars == <<vars, sessionVars>>

NothingPushed ==
    /\ page.stopped
    /\ truth = [progress |-> 0, captures |-> 0] /\ uploads = 0 /\ faults = 0
    /\ listening = Processes
    /\ \A s \in Sockets : sock[s].client = "unused"

SignedOut == kept = NoPair /\ revoked = {} /\ failures = 0 /\ lapses = 0

PageInit == Init /\ SessionsInit

PageNext ==
    \/ SignedOut /\ Next /\ UNCHANGED sessionVars
    \/ NothingPushed /\ SessionsNext /\ UNCHANGED vars

\* The fairness of FairSpec and of SessionsFairSpec: neither asks for a step of
\* the part that is not to move.
PageSpec ==
    /\ PageInit
    /\ [][PageNext]_pageVars
    /\ Pushing
    /\ Asking

People == {"ana", "ben"}
Projects == {"p", "q"}

\* Ana owns q; p is hers or Ben's.
MCProjects ==
    {{[id |-> "p", owner |-> o, public |-> v, archived |-> z, progress |-> 100],
      [id |-> "q", owner |-> "ana", public |-> w, archived |-> FALSE, progress |-> 40]} :
        o \in People, v \in BOOLEAN, w \in BOOLEAN, z \in BOOLEAN}

Owns(projects) ==
    {[project |-> p.id, user |-> p.owner, role |-> "owner", status |-> "accepted"] : p \in projects}
Joins(projects) ==
    {{}} \cup
    {{[project |-> p.id, user |-> u, role |-> r, status |-> s]} :
        p \in projects, u \in {"ben"}, r \in {"viewer", "manager"}, s \in {"pending", "accepted"}}

\* The rows of the other parts: one or two of p, one or none of q.
Images(n) ==
    {[id |-> 1, project |-> "p", at |-> 1, verdict |-> "roofing"],
     [id |-> 2, project |-> "p", at |-> 2, verdict |-> Unscored],
     [id |-> 3, project |-> n, at |-> 3, verdict |-> "framing"]}
Database(projects, joins, n, flag) ==
    [accounts |-> {[id |-> "ana", active |-> TRUE, public |-> flag],
                   [id |-> "ben", active |-> flag, public |-> TRUE]},
     projects |-> projects,
     members |-> Owns(projects) \cup joins,
     images |-> Images(n),
     devices |-> {[id |-> 1, project |-> n]},
     remarks |-> {[id |-> 1, project |-> "p", public |-> flag], [id |-> 2, project |-> n, public |-> TRUE]},
     assets |-> {[id |-> 1, project |-> "p", public |-> FALSE, stored |-> flag],
                 [id |-> 2, project |-> n, public |-> TRUE, stored |-> TRUE]},
     reports |-> {[id |-> 1, project |-> n, at |-> 1, status |-> "ready"],
                  [id |-> 2, project |-> "p", at |-> 1, status |-> "queued"]},
     snapshots |-> {[id |-> 1, project |-> "p", at |-> 1, displayed |-> 20],
                    [id |-> 2, project |-> n, at |-> 2, displayed |-> 80]}]

Databases ==
    {db \in UNION {{Database(ps, js, n, flag) : js \in Joins(ps), n \in Projects, flag \in BOOLEAN} :
                      ps \in MCProjects} : IsDatabase(db)}

Arguments ==
    [row : {1, 2}, name : People, limit : {1}, since : {1}, until : {1}, cursor : {3},
     matches : {Projects \cup People}]

\* The database without a project and all that hangs on it.
Without(db, p) ==
    LET Rest(table) == table \ Of(table, p)
    IN  [db EXCEPT !.projects = {r \in @ : r.id # p}, !.members = Rest(@), !.images = Rest(@),
                   !.devices = Rest(@), !.remarks = Rest(@), !.assets = Rest(@),
                   !.reports = Rest(@), !.snapshots = Rest(@)]

\* What is proved of every database, here: a project that is hidden from a
\* caller might as well not be there.
ASSUME HiddenLooksAbsent ==
    \A db \in Databases, u \in People \cup {Nobody}, p, q \in Projects, x \in Arguments :
        IsHidden(db, p, u) =>
            LET without == Without(db, p)
            IN  /\ IsDatabase(without) /\ AlikeBesides(db, without, p) /\ IsHidden(without, p, u)
                /\ Reads(db, q, u, x) = Reads(without, q, u, x)

\* A project that is listed anywhere can be opened.
ASSUME ListedOpens ==
    \A db \in Databases, u \in People \cup {Nobody}, name \in People :
        \A p \in (IF u = Nobody THEN {} ELSE Ids(list_for_user(db, u)))
                    \cup Ids(Published(db)) \cup Ids(list_public_for_user(db, name)) :
            get_project_folder(db, p, u).code = 200
=============================================================================
