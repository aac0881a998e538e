-------------------------- MODULE RealtimePushProofs --------------------------
(***************************************************************************)
(* For every number of processes, connections, changes and faults: a page  *)
(* never holds two live connections and no hub keeps a socket whose         *)
(* endpoint is over (NoSocketLeaks), and the page shows nothing that was    *)
(* not committed (OnlyCommittedIsShown).                                    *)
(*                                                                          *)
(* The second follows what is said from the commit to the page.  Nothing    *)
(* that is under way anywhere (not yet published, in a channel, in a        *)
(* broadcast, on a connection, in an answer) is ahead of the committed      *)
(* folder, which never goes back; so the invariant types every place a      *)
(* value can be in with the values committed by now.                        *)
(*                                                                          *)
(* The last section is about what is read: a project that a caller may not  *)
(* see makes no difference to any answer.  Two databases that differ in it  *)
(* alone have the same other projects, memberships and rows (SameProject,   *)
(* SameMembership, SameRow), all that an answer is made of.                 *)
(***************************************************************************)
EXTENDS RealtimePush, ProjectReads, SequenceTheorems, FiniteSetTheorems, TLAPS

USE PushAssumption

-----------------------------------------------------------------------------
(* What may be said, and what may be answered, by now.                      *)
Sayable == [kind : {"progress"}, value : 0 .. truth.progress] \cup [kind : {"received"}]

Committed == [progress : 0 .. truth.progress, captures : 0 .. truth.captures]

Carrying(frames) ==
    [client : {"unused", "connecting", "open", "closed"},
     server : {"none", "loop", "gone"},
     at : Processes, cut : BOOLEAN,
     up : Seq({"subscribe", "ping"}), down : Seq(frames)]

Casts(events) == [event : events, targets : SUBSET Sockets] \cup {Quiet}

NothingAhead ==
    /\ truth \in Folders
    /\ uploads \in Nat /\ Changes <= MaxChanges
    /\ unsaid \subseteq Sayable
    /\ listening \subseteq Processes
    /\ channel \in [Processes -> Seq(Sayable)]
    /\ hub \in [Processes -> SUBSET Sockets]
    /\ casting \in [Processes -> Casts(Sayable)]
    /\ sock \in [Sockets -> Carrying(Sayable \cup {Pong})]
    /\ page \in Pages
    /\ cache \in Committed \cup {Nothing}
    /\ fetch \in Committed \cup {Nothing}
    /\ faults \in 0 .. MaxFaults

\* One failure schedules one reconnect: a live connection is the page's own,
\* and there is no timer beside it.
Live(s) == sock[s].client \in {"connecting", "open"}

OnePerPage ==
    /\ page.timers <= 1
    /\ \A s \in Sockets : Live(s) => page.socket = s /\ page.timers = 0

HubsAreFresh ==
    \A p \in Processes : \A s \in hub[p] : sock[s].at = p /\ sock[s].server = "loop"

PushIInv == NothingAhead /\ OnePerPage /\ HubsAreFresh

LEMMA PushInit == Init => PushIInv
  <1> SUFFICES ASSUME Init PROVE PushIInv
    OBVIOUS
  <1>1. \A S : <<>> \in Seq(S)
    BY EmptySeq
  <1>2. sock \in [Sockets -> Carrying(Sayable \cup {Pong})]
    BY <1>1 DEF Init, Carrying
  <1>3. /\ truth \in Folders /\ uploads \in Nat /\ Changes <= MaxChanges
        /\ unsaid \subseteq Sayable /\ listening \subseteq Processes
        /\ hub \in [Processes -> SUBSET Sockets]
        /\ cache = Nothing /\ fetch = Nothing /\ faults \in 0 .. MaxFaults
    BY DEF Init, Folders, Counts, Changes
  <1>6. /\ channel \in [Processes -> Seq(Sayable)]
        /\ casting \in [Processes -> Casts(Sayable)]
    BY <1>1 DEF Init, Casts
  <1>7. page \in Pages
    BY DEF Init, Pages
  <1>8. NothingAhead
    BY <1>2, <1>3, <1>6, <1>7 DEF NothingAhead
  <1>4. \A s \in Sockets : sock[s].client = "unused"
    BY DEF Init
  <1>5. OnePerPage /\ HubsAreFresh
    BY <1>4 DEF Init, OnePerPage, Live, HubsAreFresh
  <1> QED BY <1>5, <1>8 DEF PushIInv

-----------------------------------------------------------------------------
(* Operators: what grows with the committed folder, and one end of a         *)
(* connection changed at a time.                                             *)

LEMMA SayableAreRecords ==
  ASSUME truth \in Folders, NEW e \in Sayable
  PROVE  /\ e.kind \in {"progress", "received"}
         /\ e.kind = "progress" => e.value \in 0 .. truth.progress
         /\ e # Pong
  BY DEF Sayable, Pong, Folders, Counts

LEMMA CarryingGrows ==
  ASSUME NEW S, NEW T, S \subseteq T
  PROVE  /\ Seq(S) \subseteq Seq(T)
         /\ Carrying(S) \subseteq Carrying(T)
         /\ Casts(S) \subseteq Casts(T)
  <1>1. Seq(S) \subseteq Seq(T)
    BY SeqMonotonic
  <1> QED BY <1>1 DEF Carrying, Casts

LEMMA CommittedGrows ==
  ASSUME truth \in Folders, truth' \in Folders,
         truth'.progress >= truth.progress, truth'.captures >= truth.captures
  PROVE  Sayable \subseteq Sayable' /\ Committed \subseteq Committed'
  BY DEF Sayable, Committed, Folders, Counts

\* A commit: the folder grows, and what is under way stays as it is.
LEMMA CommitKeeps ==
  ASSUME NothingAhead, truth' \in Folders,
         truth'.progress >= truth.progress, truth'.captures >= truth.captures,
         UNCHANGED <<server, sock, page, shown>>
  PROVE  /\ Sayable \subseteq Sayable'
         /\ channel' \in [Processes -> Seq(Sayable')]
         /\ casting' \in [Processes -> Casts(Sayable')]
         /\ sock' \in [Sockets -> Carrying(Sayable' \cup {Pong})]
         /\ cache' \in Committed' \cup {Nothing}
         /\ fetch' \in Committed' \cup {Nothing}
         /\ listening' \subseteq Processes
         /\ hub' \in [Processes -> SUBSET Sockets]
         /\ page' \in Pages
  <1>1. Sayable \subseteq Sayable' /\ Committed \subseteq Committed'
    BY CommittedGrows DEF NothingAhead
  <1> DEFINE S == Sayable  T == Sayable'
  <1>2. S \subseteq T /\ S \cup {Pong} \subseteq T \cup {Pong}
    BY <1>1
  <1> HIDE DEF S, T
  <1>3. /\ Seq(S) \subseteq Seq(T) /\ Casts(S) \subseteq Casts(T)
        /\ Carrying(S \cup {Pong}) \subseteq Carrying(T \cup {Pong})
    BY <1>2, CarryingGrows
  <1>4. /\ channel \in [Processes -> Seq(S)]
        /\ casting \in [Processes -> Casts(S)]
        /\ sock \in [Sockets -> Carrying(S \cup {Pong})]
    BY DEF NothingAhead, S
  <1>5. /\ channel' \in [Processes -> Seq(T)]
        /\ casting' \in [Processes -> Casts(T)]
        /\ sock' \in [Sockets -> Carrying(T \cup {Pong})]
    BY <1>3, <1>4 DEF server
  <1> QED
    BY <1>1, <1>5 DEF NothingAhead, server, shown, T

LEMMA ConnectionShape ==
  ASSUME NEW frames, NEW c \in Carrying(frames)
  PROVE  /\ c.client \in {"unused", "connecting", "open", "closed"}
         /\ c.server \in {"none", "loop", "gone"}
         /\ c.at \in Processes /\ c.cut \in BOOLEAN
         /\ c.up \in Seq({"subscribe", "ping"}) /\ c.down \in Seq(frames)
         /\ \A v \in {"unused", "connecting", "open", "closed"} :
               [c EXCEPT !.client = v] \in Carrying(frames)
         /\ \A v \in {"none", "loop", "gone"} :
               [c EXCEPT !.server = v] \in Carrying(frames)
         /\ [c EXCEPT !.cut = TRUE] \in Carrying(frames)
         /\ \A q \in Seq({"subscribe", "ping"}) : [c EXCEPT !.up = q] \in Carrying(frames)
         /\ \A q \in Seq(frames) : [c EXCEPT !.down = q] \in Carrying(frames)
  BY DEF Carrying

-----------------------------------------------------------------------------
(* NothingAhead: a step at a time                                           *)

\* A step that commits nothing: every place keeps what may be said by now.
LEMMA WithoutACommit ==
  ASSUME NothingAhead, UNCHANGED truth,
         uploads' \in Nat, Changes' <= MaxChanges, unsaid' \subseteq Sayable,
         listening' \subseteq Processes,
         channel' \in [Processes -> Seq(Sayable)],
         hub' \in [Processes -> SUBSET Sockets],
         casting' \in [Processes -> Casts(Sayable)],
         sock' \in [Sockets -> Carrying(Sayable \cup {Pong})],
         page' \in Pages,
         cache' \in Committed \cup {Nothing}, fetch' \in Committed \cup {Nothing},
         faults' \in 0 .. MaxFaults
  PROVE  NothingAhead'
  <1>1. Sayable' = Sayable /\ Committed' = Committed
    BY DEF Sayable, Committed
  <1> QED BY <1>1 DEF NothingAhead

LEMMA ChangesStay ==
  ASSUME NothingAhead, UNCHANGED <<truth, uploads>>
  PROVE  uploads' \in Nat /\ Changes' <= MaxChanges
  BY DEF NothingAhead, Changes

LEMMA FaultCounts ==
  ASSUME NothingAhead, Fault
  PROVE  faults' \in 0 .. MaxFaults
  BY DEF NothingAhead, Fault

LEMMA Announces ==
  ASSUME NothingAhead, NEW event \in Sayable, NEW reached \in Audiences,
         Announced(event, reached)
  PROVE  channel' \in [Processes -> Seq(Sayable)]
  <1>1. \A p \in Processes : Append(channel[p], event) \in Seq(Sayable)
    BY AppendProperties DEF NothingAhead
  <1> QED BY <1>1 DEF Announced, NothingAhead

LEMMA RecomputeKeeps == NothingAhead /\ Recompute => NothingAhead'
  <1> SUFFICES ASSUME NothingAhead, Recompute PROVE NothingAhead'
    OBVIOUS
  <1>1. /\ truth' \in Folders /\ truth'.progress = truth.progress + 1
        /\ truth'.captures = truth.captures
    BY DEF Recompute, NothingAhead, Changes, Folders, Counts
  <1>2. uploads' \in Nat /\ Changes' <= MaxChanges
    BY <1>1 DEF Recompute, NothingAhead, Changes, Folders, Counts
  <1>3. /\ Sayable \subseteq Sayable'
        /\ channel' \in [Processes -> Seq(Sayable')]
        /\ casting' \in [Processes -> Casts(Sayable')]
        /\ sock' \in [Sockets -> Carrying(Sayable' \cup {Pong})]
        /\ cache' \in Committed' \cup {Nothing}
        /\ fetch' \in Committed' \cup {Nothing}
        /\ listening' \subseteq Processes
        /\ hub' \in [Processes -> SUBSET Sockets]
        /\ page' \in Pages
    <2>1. truth'.progress >= truth.progress /\ truth'.captures >= truth.captures
      BY <1>1 DEF NothingAhead, Folders, Counts
    <2>2. UNCHANGED <<server, sock, page, shown>>
      BY DEF Recompute
    <2> QED BY <1>1, <2>1, <2>2, CommitKeeps
  <1>4. unsaid' \subseteq Sayable'
    <2>1. [kind |-> "progress", value |-> truth.progress + 1] \in Sayable'
      BY <1>1 DEF Sayable, NothingAhead, Folders, Counts
    <2> QED BY <1>3, <2>1 DEF Recompute, NothingAhead
  <1>5. faults' \in 0 .. MaxFaults
    BY DEF Recompute, NothingAhead
  <1> QED BY <1>1, <1>2, <1>3, <1>4, <1>5 DEF NothingAhead

LEMMA UploadCommitsKeeps == NothingAhead /\ UploadCommits => NothingAhead'
  <1> SUFFICES ASSUME NothingAhead, UploadCommits PROVE NothingAhead'
    OBVIOUS
  <1>1. /\ truth' \in Folders /\ truth'.progress = truth.progress
        /\ truth'.captures = truth.captures + 1
    BY DEF UploadCommits, NothingAhead, Changes, Folders, Counts
  <1>2. uploads' \in Nat /\ Changes' <= MaxChanges
    BY <1>1 DEF UploadCommits, NothingAhead, Changes, Folders, Counts
  <1>3. /\ Sayable \subseteq Sayable'
        /\ channel' \in [Processes -> Seq(Sayable')]
        /\ casting' \in [Processes -> Casts(Sayable')]
        /\ sock' \in [Sockets -> Carrying(Sayable' \cup {Pong})]
        /\ cache' \in Committed' \cup {Nothing}
        /\ fetch' \in Committed' \cup {Nothing}
        /\ listening' \subseteq Processes
        /\ hub' \in [Processes -> SUBSET Sockets]
        /\ page' \in Pages
    <2>1. truth'.progress >= truth.progress /\ truth'.captures >= truth.captures
      BY <1>1 DEF NothingAhead, Folders, Counts
    <2>2. UNCHANGED <<server, sock, page, shown>>
      BY DEF UploadCommits
    <2> QED BY <1>1, <2>1, <2>2, CommitKeeps
  <1>4. unsaid' \subseteq Sayable' /\ faults' \in 0 .. MaxFaults
    BY <1>3 DEF UploadCommits, NothingAhead
  <1> QED BY <1>1, <1>2, <1>3, <1>4 DEF NothingAhead

LEMMA AnnouncementsKeep ==
  NothingAhead /\ (PublishProgress \/ UploadAnnounced \/ UploadAborts) => NothingAhead'
  <1>1. ASSUME NothingAhead, PublishProgress PROVE NothingAhead'
    <2>1. PICK event \in unsaid, reached \in Audiences :
             unsaid' = unsaid \ {event} /\ Announced(event, reached)
      BY <1>1 DEF PublishProgress
    <2>2. event \in Sayable
      BY <1>1, <2>1 DEF NothingAhead
    <2>3. channel' \in [Processes -> Seq(Sayable)]
      BY <1>1, <2>1, <2>2, Announces
    <2>4. uploads' \in Nat /\ Changes' <= MaxChanges
      BY <1>1, ChangesStay DEF PublishProgress
    <2> QED
      BY <1>1, <2>1, <2>3, <2>4, WithoutACommit DEF PublishProgress, NothingAhead, shown
  <1>2. ASSUME NothingAhead, UploadAnnounced PROVE NothingAhead'
    <2>1. PICK reached \in Audiences : Announced([kind |-> "received"], reached)
      BY <1>2 DEF UploadAnnounced
    <2>2. [kind |-> "received"] \in Sayable
      BY DEF Sayable
    <2>3. channel' \in [Processes -> Seq(Sayable)]
      BY <1>2, <2>1, <2>2, Announces
    <2>4. uploads' \in Nat /\ Changes' <= MaxChanges
      BY <1>2 DEF UploadAnnounced, NothingAhead, Changes, Folders, Counts
    <2> QED
      BY <1>2, <2>3, <2>4, WithoutACommit DEF UploadAnnounced, NothingAhead, shown
  <1>3. ASSUME NothingAhead, UploadAborts PROVE NothingAhead'
    <2>1. uploads' \in Nat /\ Changes' <= MaxChanges
      BY <1>3 DEF UploadAborts, NothingAhead, Changes, Folders, Counts
    <2>2. faults' \in 0 .. MaxFaults
      BY <1>3, FaultCounts DEF UploadAborts
    <2> QED
      BY <1>3, <2>1, <2>2, WithoutACommit DEF UploadAborts, NothingAhead, server, shown
  <1> QED BY <1>1, <1>2, <1>3

LEMMA SubscriberKeeps ==
  ASSUME NothingAhead, NEW p \in Processes,
         SubscriberDrops(p) \/ SubscriberReturns(p) \/ BroadcastBegins(p)
  PROVE  NothingAhead'
  <1>1. CASE SubscriberDrops(p)
    <2>1. channel' \in [Processes -> Seq(Sayable)] /\ listening' \subseteq Processes
      BY <1>1, EmptySeq DEF SubscriberDrops, NothingAhead
    <2>2. faults' \in 0 .. MaxFaults
      BY <1>1, FaultCounts DEF SubscriberDrops
    <2> QED
      BY <1>1, <2>1, <2>2, ChangesStay, WithoutACommit
      DEF SubscriberDrops, NothingAhead, shown
  <1>2. CASE SubscriberReturns(p)
    BY <1>2, ChangesStay, WithoutACommit DEF SubscriberReturns, NothingAhead, shown
  <1>3. CASE BroadcastBegins(p)
    <2>1. Head(channel[p]) \in Sayable /\ Tail(channel[p]) \in Seq(Sayable)
      BY <1>3, HeadTailProperties DEF BroadcastBegins, NothingAhead
    <2>2. channel' \in [Processes -> Seq(Sayable)]
      BY <1>3, <2>1 DEF BroadcastBegins, NothingAhead
    <2>3. casting' \in [Processes -> Casts(Sayable)]
      BY <1>3, <2>1 DEF BroadcastBegins, NothingAhead, Casts
    <2> QED
      BY <1>3, <2>2, <2>3, ChangesStay, WithoutACommit
      DEF BroadcastBegins, NothingAhead, shown
  <1> QED BY <1>1, <1>2, <1>3

\* What a connection becomes when a well-formed one replaces it.
LEMMA Replaces ==
  ASSUME NothingAhead, NEW s \in Sockets, NEW c \in Carrying(Sayable \cup {Pong}),
         sock' = [sock EXCEPT ![s] = c]
  PROVE  sock' \in [Sockets -> Carrying(Sayable \cup {Pong})]
  BY DEF NothingAhead

LEMMA BroadcastKeeps ==
  ASSUME NothingAhead, NEW p \in Processes, BroadcastEnds(p)
  PROVE  NothingAhead'
  <1> DEFINE frames == Sayable \cup {Pong}
  <1>1. casting[p].event \in frames
    BY DEF BroadcastEnds, NothingAhead, Casts
  <1>2. ASSUME NEW s \in Sockets
        PROVE  [sock[s] EXCEPT !.down = Append(@, casting[p].event)] \in Carrying(frames)
    <2>1. sock[s] \in Carrying(frames)
      BY DEF NothingAhead
    <2> HIDE DEF frames
    <2>2. Append(sock[s].down, casting[p].event) \in Seq(frames)
      BY <1>1, <2>1, ConnectionShape, AppendProperties
    <2>3. [sock[s] EXCEPT !.down = Append(sock[s].down, casting[p].event)] \in Carrying(frames)
      BY <2>1, <2>2, ConnectionShape
    <2> QED BY <2>3
  <1>3. sock' \in [Sockets -> Carrying(Sayable \cup {Pong})]
    BY <1>2 DEF BroadcastEnds, NothingAhead
  <1>4. hub' \in [Processes -> SUBSET Sockets]
    BY DEF BroadcastEnds, NothingAhead
  <1>5. casting' \in [Processes -> Casts(Sayable)]
    BY DEF BroadcastEnds, NothingAhead, Casts
  <1> QED
    BY <1>3, <1>4, <1>5, ChangesStay, WithoutACommit DEF BroadcastEnds, NothingAhead, shown

LEMMA EndpointKeeps ==
  ASSUME NothingAhead, NEW s \in Sockets, Endpoint(s)
  PROVE  NothingAhead'
  <1> DEFINE frames == Sayable \cup {Pong}
  <1>0. sock[s] \in Carrying(frames)
    BY DEF NothingAhead
  <1>1. CASE Accept(s)
    <2>1. [sock[s] EXCEPT !.server = "loop"] \in Carrying(frames)
      BY <1>0, ConnectionShape
    <2>2. sock' = [sock EXCEPT ![s] = [sock[s] EXCEPT !.server = "loop"]]
      BY <1>1 DEF Accept
    <2>3. sock' \in [Sockets -> Carrying(frames)]
      BY <2>1, <2>2, Replaces
    <2> QED
      BY <1>1, <2>3, ChangesStay, WithoutACommit DEF Accept, NothingAhead, server, shown
  <1>2. CASE EndpointReads(s)
    <2> DEFINE read == [sock[s] EXCEPT !.up = Tail(sock[s].up)]
    <2>1. read \in Carrying(frames) /\ read.down = sock[s].down
      <3>1. Tail(sock[s].up) \in Seq({"subscribe", "ping"})
        BY <1>0, <1>2, ConnectionShape, HeadTailProperties DEF EndpointReads
      <3>2. read \in Carrying(frames)
        BY <1>0, <3>1, ConnectionShape
      <3> QED BY <1>0, <3>2 DEF Carrying
    <2>2. [read EXCEPT !.down = Append(sock[s].down, Pong)] \in Carrying(frames)
      <3>1. Pong \in frames
        OBVIOUS
      <3> HIDE DEF frames, read
      <3>2. Append(sock[s].down, Pong) \in Seq(frames)
        BY <1>0, <3>1, ConnectionShape, AppendProperties
      <3> QED BY <2>1, <3>2, ConnectionShape
    <2>3. \/ sock' = [sock EXCEPT ![s] = read]
          \/ sock' = [sock EXCEPT ![s] = [read EXCEPT !.down = Append(sock[s].down, Pong)]]
      <3>1. [sock EXCEPT ![s].up = Tail(sock[s].up)] = [sock EXCEPT ![s] = read]
        OBVIOUS
      <3>2. [[sock EXCEPT ![s].up = Tail(sock[s].up)] EXCEPT ![s].down = Append(@, Pong)]
               = [sock EXCEPT ![s] = [read EXCEPT !.down = Append(sock[s].down, Pong)]]
        BY <1>0, <2>1 DEF NothingAhead, Carrying
      <3> QED BY <1>2, <3>1, <3>2 DEF EndpointReads
    <2>4. sock' \in [Sockets -> Carrying(frames)]
      BY <2>1, <2>2, <2>3, Replaces
    <2>5. hub' \in [Processes -> SUBSET Sockets]
      <3>1. hub' = hub \/ hub' = [hub EXCEPT ![sock[s].at] = @ \cup {s}]
        BY <1>2 DEF EndpointReads
      <3> QED BY <3>1 DEF NothingAhead
    <2> QED
      BY <1>2, <2>4, <2>5, ChangesStay, WithoutACommit
      DEF EndpointReads, NothingAhead, shown
  <1>3. CASE EndpointEnds(s)
    <2>1. [[sock[s] EXCEPT !.server = "gone"] EXCEPT !.up = <<>>] \in Carrying(frames)
      BY <1>0, ConnectionShape, EmptySeq
    <2>2. sock' = [sock EXCEPT ![s] = [[sock[s] EXCEPT !.server = "gone"] EXCEPT !.up = <<>>]]
      BY <1>3 DEF EndpointEnds, NothingAhead
    <2>3. sock' \in [Sockets -> Carrying(frames)]
      BY <2>1, <2>2, Replaces
    <2>4. hub' \in [Processes -> SUBSET Sockets]
      BY <1>3 DEF EndpointEnds, Forgotten, NothingAhead
    <2> QED
      BY <1>3, <2>3, <2>4, ChangesStay, WithoutACommit
      DEF EndpointEnds, NothingAhead, shown
  <1> QED BY <1>1, <1>2, <1>3 DEF Endpoint

\* closed by either side, or a frame sent into it
LEMMA ClosedKeeps ==
  ASSUME NothingAhead, NEW s \in Sockets
  PROVE  Closed(s) \in [Sockets -> Carrying(Sayable \cup {Pong})]
  <1> DEFINE frames == Sayable \cup {Pong}
             c == [[sock[s] EXCEPT !.client = "closed"] EXCEPT !.down = <<>>]
  <1>1. sock[s] \in Carrying(frames)
    BY DEF NothingAhead
  <1>2. c \in Carrying(frames)
    BY <1>1, ConnectionShape, EmptySeq
  <1>3. Closed(s) = [sock EXCEPT ![s] = c]
    BY DEF Closed, NothingAhead
  <1> HIDE DEF c
  <1> QED BY <1>2, <1>3 DEF NothingAhead

LEMMA SentKeeps ==
  ASSUME NothingAhead, NEW s \in Sockets, NEW frame \in {"subscribe", "ping"}
  PROVE  Sent(s, frame) \in [Sockets -> Carrying(Sayable \cup {Pong})]
  <1> DEFINE frames == Sayable \cup {Pong}
             c == [sock[s] EXCEPT !.up = Append(sock[s].up, frame)]
  <1>1. sock[s] \in Carrying(frames)
    BY DEF NothingAhead
  <1>2. c \in Carrying(frames)
    BY <1>1, ConnectionShape, AppendProperties
  <1>3. Sent(s, frame) \in {sock, [sock EXCEPT ![s] = c]}
    BY DEF Sent
  <1> HIDE DEF c
  <1> QED BY <1>2, <1>3 DEF NothingAhead

LEMMA PageShape ==
  ASSUME NEW g \in Pages
  PROVE  /\ g.timers \in Nat /\ g.missed \in 0 .. MaxMissed
         /\ \A n \in Nat : [g EXCEPT !.timers = n] \in Pages
         /\ \A v \in BOOLEAN : [g EXCEPT !.awaiting = v] \in Pages
         /\ \A s \in Sockets : [g EXCEPT !.socket = s] \in Pages
         /\ \A n \in 0 .. MaxMissed : [g EXCEPT !.missed = n] \in Pages
  BY DEF Pages

LEMMA ScheduledKeeps ==
  ASSUME NothingAhead
  PROVE  Scheduled \in Pages
  <1> DEFINE still == [page EXCEPT !.awaiting = FALSE]
  <1>1. still \in Pages /\ still.timers = page.timers
    BY PageShape DEF NothingAhead, Pages
  <1>2. page.timers \in Nat
    BY PageShape DEF NothingAhead
  <1>3. Scheduled \in {still, [still EXCEPT !.timers = page.timers],
                      [still EXCEPT !.timers = page.timers + 1]}
    BY <1>1 DEF Scheduled, NothingAhead, Pages
  <1> HIDE DEF still
  <1> QED BY <1>1, <1>2, <1>3, PageShape

LEMMA ConnectingKeeps ==
  ASSUME NothingAhead, NEW s \in Sockets, Connect(s) \/ Opened(s)
  PROVE  NothingAhead'
  <1> DEFINE frames == Sayable \cup {Pong}
  <1>0. sock[s] \in Carrying(frames)
    BY DEF NothingAhead
  <1>1. CASE Connect(s)
    <2>1. [sock[s] EXCEPT !.client = "connecting"] \in Carrying(frames)
      BY <1>0, ConnectionShape
    <2>2. sock' = [sock EXCEPT ![s] = [sock[s] EXCEPT !.client = "connecting"]]
      BY <1>1 DEF Connect
    <2>3. sock' \in [Sockets -> Carrying(frames)]
      BY <2>1, <2>2, Replaces
    <2>4. page' \in Pages
      <3> DEFINE fewer == [page EXCEPT !.timers = page.timers - 1]
      <3>1. page.timers - 1 \in Nat
        BY <1>1, PageShape DEF Connect, NothingAhead
      <3>2. fewer \in Pages
        BY <3>1, PageShape DEF NothingAhead
      <3>3. page' = [fewer EXCEPT !.socket = s]
        BY <1>1 DEF Connect
      <3> HIDE DEF fewer
      <3> QED BY <3>2, <3>3, PageShape
    <2> QED
      BY <1>1, <2>3, <2>4, ChangesStay, WithoutACommit
      DEF Connect, NothingAhead, server, shown
  <1>2. CASE Opened(s)
    <2> DEFINE open == [sock[s] EXCEPT !.client = "open"]
    <2>1. open \in Carrying(frames) /\ open.up = sock[s].up
      BY <1>0, ConnectionShape DEF Carrying
    <2>2. [open EXCEPT !.up = Append(sock[s].up, "subscribe")] \in Carrying(frames)
      <3> HIDE DEF open
      <3> QED BY <1>0, <2>1, ConnectionShape, AppendProperties
    <2>3. \/ sock' = [sock EXCEPT ![s] = open]
          \/ sock' = [sock EXCEPT ![s] = [open EXCEPT !.up = Append(sock[s].up, "subscribe")]]
      <3>1. [[sock EXCEPT ![s].client = "open"] EXCEPT ![s].up = Append(@, "subscribe")]
               = [sock EXCEPT ![s] = [open EXCEPT !.up = Append(sock[s].up, "subscribe")]]
        BY <1>0, <2>1 DEF NothingAhead, Carrying
      <3> QED BY <1>2, <3>1 DEF Opened
    <2>4. sock' \in [Sockets -> Carrying(frames)]
      BY <2>1, <2>2, <2>3, Replaces
    <2>5. page' \in Pages
      BY <1>2 DEF Opened, NothingAhead, Pages
    <2> QED
      BY <1>2, <2>4, <2>5, ChangesStay, WithoutACommit
      DEF Opened, NothingAhead, server, shown
  <1> QED BY <1>1, <1>2

LEMMA LosingKeeps ==
  ASSUME NothingAhead, NEW s \in Sockets,
         SocketCloses(s) \/ LinkIsCut(s) \/ PongMissed(s)
  PROVE  NothingAhead'
  <1> DEFINE frames == Sayable \cup {Pong}
  <1>0. sock[s] \in Carrying(frames)
    BY DEF NothingAhead
  <1>1. CASE SocketCloses(s)
    BY <1>1, ClosedKeeps, ScheduledKeeps, FaultCounts, ChangesStay, WithoutACommit
    DEF SocketCloses, NothingAhead, server, shown
  <1>2. CASE LinkIsCut(s)
    <2> DEFINE c == [[[sock[s] EXCEPT !.cut = TRUE] EXCEPT !.up = <<>>] EXCEPT !.down = <<>>]
    <2>1. c \in Carrying(frames)
      BY <1>0, ConnectionShape, EmptySeq
    <2>2. sock' = [sock EXCEPT ![s] = c]
      BY <1>2 DEF LinkIsCut, NothingAhead
    <2> HIDE DEF c
    <2>3. sock' \in [Sockets -> Carrying(frames)]
      BY <2>1, <2>2, Replaces
    <2> QED
      BY <1>2, <2>3, FaultCounts, ChangesStay, WithoutACommit
      DEF LinkIsCut, NothingAhead, server, shown
  <1>3. CASE PongMissed(s)
    <2>1. sock' \in [Sockets -> Carrying(frames)]
      BY <1>3, ClosedKeeps DEF PongMissed, NothingAhead
    <2>2. page' \in Pages
      <3>1. CASE page' = Scheduled
        BY <3>1, ScheduledKeeps
      <3>2. CASE /\ ~(page.missed + 1 >= MaxMissed)
                 /\ page' = [page EXCEPT !.missed = @ + 1, !.awaiting = FALSE]
        <4> DEFINE more == [page EXCEPT !.missed = page.missed + 1]
        <4>1. page.missed + 1 \in 0 .. MaxMissed
          BY <3>2, PageShape DEF NothingAhead
        <4>2. more \in Pages
          BY <4>1, PageShape DEF NothingAhead
        <4>3. page' = [more EXCEPT !.awaiting = FALSE]
          BY <3>2
        <4> HIDE DEF more
        <4> QED BY <4>2, <4>3, PageShape
      <3> QED BY <1>3, <3>1, <3>2 DEF PongMissed
    <2>3. faults' \in 0 .. MaxFaults
      BY <1>3, FaultCounts DEF PongMissed, NothingAhead
    <2> QED
      BY <1>3, <2>1, <2>2, <2>3, ChangesStay, WithoutACommit
      DEF PongMissed, NothingAhead, server, shown
  <1> QED BY <1>1, <1>2, <1>3

LEMMA PageKeeps ==
  ASSUME NothingAhead,
         Follow \/ Leave \/ \E s \in Sockets : Ping(s)
  PROVE  NothingAhead'
  <1>1. CASE Follow
    <2>1. page.socket \in Sockets \cup {NoSocket}
      BY DEF NothingAhead, Pages
    <2>2. sock' \in [Sockets -> Carrying(Sayable \cup {Pong})]
      BY <1>1, <2>1, SentKeeps DEF Follow, NothingAhead
    <2>3. page' \in Pages
      BY <1>1 DEF Follow, NothingAhead, Pages
    <2> QED
      BY <1>1, <2>2, <2>3, ChangesStay, WithoutACommit
      DEF Follow, NothingAhead, server, shown
  <1>2. CASE Leave
    <2>1. sock' \in [Sockets -> Carrying(Sayable \cup {Pong})]
      BY <1>2, ClosedKeeps DEF Leave, NothingAhead
    <2>2. page' \in Pages
      BY <1>2 DEF Leave, Pages
    <2> QED
      BY <1>2, <2>1, <2>2, ChangesStay, WithoutACommit
      DEF Leave, NothingAhead, server, shown
  <1>3. ASSUME NEW s \in Sockets, Ping(s) PROVE NothingAhead'
    <2>1. sock' \in [Sockets -> Carrying(Sayable \cup {Pong})]
      BY <1>3, SentKeeps DEF Ping
    <2>2. page' \in Pages
      BY <1>3 DEF Ping, NothingAhead, Pages
    <2> QED
      BY <1>3, <2>1, <2>2, ChangesStay, WithoutACommit
      DEF Ping, NothingAhead, server, shown
  <1> QED BY <1>1, <1>2, <1>3

\* An event patches the cache with what was committed before it was said.
LEMMA ReadingKeeps ==
  ASSUME NothingAhead, NEW s \in Sockets, ClientReads(s)
  PROVE  NothingAhead'
  <1> DEFINE frames == Sayable \cup {Pong}
             frame == Head(sock[s].down)
  <1>0. sock[s] \in Carrying(frames)
    BY DEF NothingAhead
  <1>1. frame \in frames /\ Tail(sock[s].down) \in Seq(frames)
    <2>1. sock[s].down \in Seq(frames) /\ sock[s].down # <<>>
      BY <1>0, ConnectionShape DEF ClientReads
    <2> HIDE DEF frames
    <2> QED BY <2>1, HeadTailProperties
  <1>2. sock' \in [Sockets -> Carrying(frames)]
    <2>1. [sock[s] EXCEPT !.down = Tail(sock[s].down)] \in Carrying(frames)
      BY <1>0, <1>1, ConnectionShape
    <2>2. sock' = [sock EXCEPT ![s] = [sock[s] EXCEPT !.down = Tail(sock[s].down)]]
      BY DEF ClientReads
    <2> QED BY <2>1, <2>2, Replaces
  <1>3. page' \in Pages
    <2> DEFINE none == [page EXCEPT !.missed = 0]
    <2>1. none \in Pages
      <3>1. page \in Pages /\ 0 \in 0 .. MaxMissed
        BY DEF NothingAhead
      <3> QED BY <3>1, PageShape
    <2>2. page' \in {page, [none EXCEPT !.awaiting = FALSE]}
      BY DEF ClientReads
    <2> HIDE DEF none
    <2> QED BY <2>1, <2>2, PageShape DEF NothingAhead
  <1>4. cache' \in Committed \cup {Nothing}
    <2>1. cache' = cache \/ (frame.kind = "progress" /\ cache # Nothing
                              /\ cache' = [cache EXCEPT !.progress = frame.value])
      BY DEF ClientReads, Patched
    <2>2. ASSUME frame.kind = "progress", cache # Nothing
          PROVE  [cache EXCEPT !.progress = frame.value] \in Committed
      <3>1. frame # Pong
        BY <2>2 DEF Pong
      <3>2. frame.value \in 0 .. truth.progress
        BY <1>1, <2>2, <3>1, SayableAreRecords DEF NothingAhead
      <3>3. cache \in Committed
        BY <2>2 DEF NothingAhead
      <3> HIDE DEF frame
      <3> QED BY <3>2, <3>3 DEF Committed
    <2> QED BY <2>1, <2>2 DEF NothingAhead
  <1>5. fetch' \in Committed \cup {Nothing}
    BY DEF ClientReads, NothingAhead
  <1> QED
    BY <1>2, <1>3, <1>4, <1>5, ChangesStay, WithoutACommit
    DEF ClientReads, NothingAhead, server

LEMMA FetchKeeps ==
  ASSUME NothingAhead, FetchReads \/ FetchAnswers \/ FetchFails
  PROVE  NothingAhead'
  <1>1. CASE FetchReads
    <2>1. truth \in Committed
      BY DEF NothingAhead, Committed, Folders, Counts
    <2> QED
      BY <1>1, <2>1, ChangesStay, WithoutACommit DEF FetchReads, NothingAhead, server
  <1>2. CASE FetchAnswers
    BY <1>2, ChangesStay, WithoutACommit DEF FetchAnswers, NothingAhead, server
  <1>3. CASE FetchFails
    BY <1>3, ChangesStay, FaultCounts, WithoutACommit DEF FetchFails, NothingAhead, server
  <1> QED BY <1>1, <1>2, <1>3

LEMMA NothingAheadStep == NothingAhead /\ [Next]_vars => NothingAhead'
  <1>1. ASSUME NothingAhead, UNCHANGED vars PROVE NothingAhead'
    BY <1>1, ChangesStay, WithoutACommit DEF vars, NothingAhead
  <1>2. ASSUME NothingAhead, Next PROVE NothingAhead'
    BY <1>2, RecomputeKeeps, UploadCommitsKeeps, AnnouncementsKeep, SubscriberKeeps,
       BroadcastKeeps, EndpointKeeps, ConnectingKeeps, LosingKeeps, PageKeeps,
       ReadingKeeps, FetchKeeps
    DEF Next, Producers, Process, Client
  <1> QED BY <1>1, <1>2

\* A frame the endpoint reads, and the pong it sends, leave both ends as they are.
LEMMA EndsStay ==
  ASSUME NothingAhead, NEW s \in Sockets, EndpointReads(s)
  PROVE  \A t \in Sockets : /\ sock'[t].client = sock[t].client
                            /\ sock'[t].server = sock[t].server
                            /\ sock'[t].at = sock[t].at
  <1> DEFINE read == [sock EXCEPT ![s].up = Tail(@)]
  <1>1. \A t \in Sockets : /\ read[t].client = sock[t].client
                           /\ read[t].server = sock[t].server
                           /\ read[t].at = sock[t].at
    BY DEF NothingAhead, Carrying
  <1>2. \A t \in Sockets : LET answered == [read EXCEPT ![s].down = Append(@, Pong)]
                           IN  /\ answered[t].client = read[t].client
                               /\ answered[t].server = read[t].server
                               /\ answered[t].at = read[t].at
    BY DEF NothingAhead, Carrying
  <1>3. sock' \in {read, [read EXCEPT ![s].down = Append(@, Pong)]}
    BY DEF EndpointReads
  <1> HIDE DEF read
  <1> QED BY <1>1, <1>2, <1>3

-----------------------------------------------------------------------------
(* OnePerPage: what a step does to the page and to the client's ends        *)

LEMMA OnePerPageStep ==
  ASSUME NothingAhead, OnePerPage, [Next]_vars
  PROVE  OnePerPage'
  <1> USE DEF OnePerPage, Live
  <1>0. page \in Pages /\ sock \in [Sockets -> Carrying(Sayable \cup {Pong})]
    BY DEF NothingAhead
  \* Neither the timers nor the socket change, and no connection comes alive.
  <1>1. ASSUME page'.timers = page.timers, page'.socket = page.socket,
               \A s \in Sockets : sock'[s].client \in {"connecting", "open"} => Live(s)
        PROVE  OnePerPage'
    BY <1>1
  <1>2. ASSUME NEW s \in Sockets, Connect(s) PROVE OnePerPage'
    <2>1. page.timers = 1 /\ \A t \in Sockets : ~Live(t)
      BY <1>0, <1>2, PageShape DEF Connect
    <2>2. page'.timers = 0 /\ page'.socket = s
      BY <1>0, <1>2, <2>1 DEF Connect, Pages
    <2>3. \A t \in Sockets : t # s => sock'[t] = sock[t]
      BY <1>0, <1>2 DEF Connect
    <2> QED BY <2>1, <2>2, <2>3
  \* The page's connection is closed, and one timer is started, if any.
  <1>3. ASSUME NEW s \in Sockets, Live(s), sock' = Closed(s), page' = Scheduled
        PROVE  OnePerPage'
    <2>1. \A t \in Sockets : sock'[t].client \notin {"connecting", "open"}
      <3>1. sock'[s].client = "closed"
        BY <1>0, <1>3 DEF Closed, Carrying
      <3>2. \A t \in Sockets : t # s => sock'[t] = sock[t]
        BY <1>0, <1>3 DEF Closed
      <3> QED BY <1>3, <3>1, <3>2
    <2>2. page'.timers \in {0, 1}
      BY <1>0, <1>3 DEF Scheduled, Pages
    <2> QED BY <2>1, <2>2
  <1>4. ASSUME Leave PROVE OnePerPage'
    <2>1. page'.timers = 0
      BY <1>4 DEF Leave
    <2>2. ASSUME NEW t \in Sockets PROVE ~(sock'[t].client \in {"connecting", "open"})
      <3>1. CASE Live(t)
        <4>1. sock'[t] = Closed(t)[t]
          BY <1>4, <3>1 DEF Leave
        <4> QED BY <1>0, <4>1 DEF Closed, Carrying
      <3>2. CASE ~Live(t)
        <4>1. sock'[t] = sock[t] \/ sock'[t] = Closed(t)[t]
          BY <1>4 DEF Leave
        <4>2. Closed(t)[t].client = "closed"
          BY <1>0 DEF Closed, Carrying
        <4> QED BY <3>2, <4>1, <4>2
      <3> QED BY <3>1, <3>2
    <2> QED BY <2>1, <2>2
  <1>5. ASSUME NEW s \in Sockets, Opened(s) PROVE OnePerPage'
    <2>1. page'.timers = page.timers /\ page'.socket = page.socket /\ Live(s)
      BY <1>0, <1>5 DEF Opened, Pages
    <2>2. \A t \in Sockets : t # s => sock'[t] = sock[t]
      BY <1>0, <1>5 DEF Opened
    <2> QED BY <2>1, <2>2
  <1>6. ASSUME NEW s \in Sockets, PongMissed(s) PROVE OnePerPage'
    <2>1. CASE sock' = Closed(s) /\ page' = Scheduled
      BY <1>3, <1>6, <2>1 DEF PongMissed, OpenSocket
    <2>2. CASE /\ page' = [page EXCEPT !.missed = @ + 1, !.awaiting = FALSE]
               /\ UNCHANGED sock
      BY <1>0, <1>1, <2>2 DEF Pages
    <2> QED BY <1>6, <2>1, <2>2 DEF PongMissed
  <1>7. ASSUME NEW s \in Sockets, Endpoint(s) \/ LinkIsCut(s) \/ Ping(s) \/ ClientReads(s)
        PROVE  OnePerPage'
    <2>1. page'.timers = page.timers /\ page'.socket = page.socket
      BY <1>0, <1>7 DEF Endpoint, Accept, EndpointReads, EndpointEnds, LinkIsCut, Ping,
                       ClientReads, Pages
    <2>2. \A t \in Sockets : sock'[t].client = sock[t].client
      <3>1. CASE Accept(s)
        BY <1>0, <3>1 DEF Accept, Carrying
      <3>2. CASE EndpointReads(s)
        BY <3>2, EndsStay
      <3>3. CASE EndpointEnds(s)
        BY <1>0, <3>3 DEF EndpointEnds, Carrying
      <3>4. CASE LinkIsCut(s)
        BY <1>0, <3>4 DEF LinkIsCut, Carrying
      <3>5. CASE Ping(s)
        BY <1>0, <3>5 DEF Ping, Sent, Carrying
      <3>6. CASE ClientReads(s)
        BY <1>0, <3>6 DEF ClientReads, Carrying
      <3> QED BY <1>7, <3>1, <3>2, <3>3, <3>4, <3>5, <3>6 DEF Endpoint
    <2> QED BY <1>1, <2>1, <2>2
  <1>8. CASE Follow
    <2>1. page'.timers = page.timers /\ page'.socket = page.socket
      BY <1>0, <1>8 DEF Follow, Pages
    <2>2. \A t \in Sockets : sock'[t].client = sock[t].client
      BY <1>0, <1>8 DEF Follow, Sent, Carrying
    <2> QED BY <1>1, <2>1, <2>2
  <1>9. ASSUME NEW p \in Processes, BroadcastEnds(p) PROVE OnePerPage'
    <2>1. page'.timers = page.timers /\ page'.socket = page.socket
      BY <1>9 DEF BroadcastEnds
    <2>2. \A t \in Sockets : sock'[t].client = sock[t].client
      BY <1>0, <1>9 DEF BroadcastEnds, Carrying
    <2> QED BY <1>1, <2>1, <2>2
  <1>10. CASE UNCHANGED <<sock, page>>
    BY <1>1, <1>10
  <1>11. ASSUME NEW s \in Sockets, SocketCloses(s) PROVE OnePerPage'
    BY <1>3, <1>11 DEF SocketCloses
  <1>12. CASE UNCHANGED vars
    BY <1>10, <1>12 DEF vars
  <1>13. CASE Recompute \/ UploadAnnounced \/ UploadAborts \/ Producers
              \/ \E p \in Processes : SubscriberReturns(p) \/ BroadcastBegins(p)
                                         \/ SubscriberDrops(p)
    BY <1>10, <1>13 DEF Recompute, UploadAnnounced, UploadAborts, Producers,
        PublishProgress, UploadCommits, SubscriberReturns, BroadcastBegins, SubscriberDrops
  <1>14. CASE FetchReads \/ FetchAnswers \/ FetchFails
    BY <1>10, <1>14 DEF FetchReads, FetchAnswers, FetchFails
  <1> QED
    BY <1>2, <1>4, <1>5, <1>6, <1>7, <1>8, <1>9, <1>11, <1>12, <1>13, <1>14
    DEF Next, Process, Client

-----------------------------------------------------------------------------
(* HubsAreFresh: who enters a hub, and whose endpoint ends                  *)

LEMMA HubsAreFreshStep ==
  ASSUME NothingAhead, HubsAreFresh, [Next]_vars
  PROVE  HubsAreFresh'
  <1> USE DEF HubsAreFresh
  <1>0. /\ sock \in [Sockets -> Carrying(Sayable \cup {Pong})]
        /\ hub \in [Processes -> SUBSET Sockets]
    BY DEF NothingAhead
  \* Nobody enters a hub, and no endpoint moves or ends.
  <1>1. ASSUME \A p \in Processes : hub'[p] \subseteq hub[p],
               \A s \in Sockets : /\ sock'[s].at = sock[s].at
                                  /\ sock[s].server = "loop" => sock'[s].server = "loop"
        PROVE  HubsAreFresh'
    BY <1>0, <1>1
  <1>2. ASSUME NEW s \in Sockets, EndpointReads(s) PROVE HubsAreFresh'
    <2>1. \A t \in Sockets : sock'[t].at = sock[t].at /\ sock'[t].server = sock[t].server
      BY <1>2, EndsStay
    <2>2. hub' = hub \/ hub' = [hub EXCEPT ![sock[s].at] = @ \cup {s}]
      BY <1>2 DEF EndpointReads
    <2>3. sock[s].server = "loop"
      BY <1>2 DEF EndpointReads
    <2> QED BY <1>0, <2>1, <2>2, <2>3
  \* `finally`: the socket leaves the one hub it can be in.
  <1>3. ASSUME NEW s \in Sockets, EndpointEnds(s) PROVE HubsAreFresh'
    <2>1. \A t \in Sockets : t # s => sock'[t] = sock[t]
      BY <1>0, <1>3 DEF EndpointEnds
    <2>2. hub' = [hub EXCEPT ![sock[s].at] = @ \ {s}]
      BY <1>3 DEF EndpointEnds, Forgotten
    <2>3. \A p \in Processes : s \notin hub'[p]
      BY <1>0, <2>2
    <2> QED BY <1>0, <2>1, <2>2, <2>3
  <1>4. ASSUME NEW s \in Sockets,
               Accept(s) \/ Connect(s) \/ Opened(s) \/ SocketCloses(s) \/ LinkIsCut(s)
                  \/ Ping(s) \/ PongMissed(s) \/ ClientReads(s)
        PROVE  HubsAreFresh'
    <2>1. UNCHANGED hub
      BY <1>4 DEF Accept, Connect, Opened, SocketCloses, LinkIsCut, Ping, PongMissed,
                  ClientReads, server
    <2>2. \A t \in Sockets : /\ sock'[t].at = sock[t].at
                             /\ sock[t].server = "loop" => sock'[t].server = "loop"
      <3>1. CASE Accept(s)
        BY <1>0, <3>1 DEF Accept, Carrying
      <3>2. CASE Connect(s)
        BY <1>0, <3>2 DEF Connect, Carrying
      <3>3. CASE Opened(s)
        BY <1>0, <3>3 DEF Opened, Carrying
      <3>4. CASE SocketCloses(s)
        BY <1>0, <3>4 DEF SocketCloses, Closed, Carrying
      <3>5. CASE LinkIsCut(s)
        BY <1>0, <3>5 DEF LinkIsCut, Carrying
      <3>6. CASE PongMissed(s)
        <4>1. sock' = sock \/ sock' = Closed(s)
          BY <3>6 DEF PongMissed
        <4>2. \A t \in Sockets : /\ Closed(s)[t].at = sock[t].at
                                 /\ Closed(s)[t].server = sock[t].server
          BY <1>0 DEF Closed, Carrying
        <4> QED BY <4>1, <4>2
      <3>7. CASE Ping(s)
        BY <1>0, <3>7 DEF Ping, Sent, Carrying
      <3>8. CASE ClientReads(s)
        BY <1>0, <3>8 DEF ClientReads, Carrying
      <3> QED BY <1>4, <3>1, <3>2, <3>3, <3>4, <3>5, <3>6, <3>7, <3>8
    <2> QED BY <1>1, <2>1, <2>2
  <1>5. CASE Follow \/ Leave
    <2>1. UNCHANGED hub
      BY <1>5 DEF Follow, Leave, server
    <2>2. \A t \in Sockets : sock'[t].at = sock[t].at /\ sock'[t].server = sock[t].server
      <3>1. CASE Follow
        BY <1>0, <3>1 DEF Follow, Sent, Carrying
      <3>2. CASE Leave
        <4>1. \A t \in Sockets : /\ Closed(t)[t].at = sock[t].at
                                 /\ Closed(t)[t].server = sock[t].server
          BY <1>0 DEF Closed, Carrying
        <4> QED BY <3>2, <4>1 DEF Leave
      <3> QED BY <1>5, <3>1, <3>2
    <2> QED BY <1>1, <2>1, <2>2
  <1>6. ASSUME NEW p \in Processes, BroadcastEnds(p) PROVE HubsAreFresh'
    <2>1. \A q \in Processes : hub'[q] \subseteq hub[q]
      BY <1>0, <1>6 DEF BroadcastEnds
    <2>2. \A t \in Sockets : sock'[t].at = sock[t].at /\ sock'[t].server = sock[t].server
      BY <1>0, <1>6 DEF BroadcastEnds, Carrying
    <2> QED BY <1>1, <2>1, <2>2
  <1>7. CASE UNCHANGED <<sock, hub>>
    BY <1>1, <1>7
  <1>8. CASE \/ UNCHANGED vars \/ Recompute \/ UploadAnnounced \/ UploadAborts \/ Producers
             \/ FetchReads \/ FetchAnswers \/ FetchFails
             \/ \E p \in Processes : SubscriberReturns(p) \/ BroadcastBegins(p)
                                        \/ SubscriberDrops(p)
    BY <1>7, <1>8 DEF vars, Recompute, UploadAnnounced, UploadAborts, Producers,
        PublishProgress, UploadCommits, SubscriberReturns, BroadcastBegins,
        SubscriberDrops, FetchReads, FetchAnswers, FetchFails, server
  <1> QED
    BY <1>2, <1>3, <1>4, <1>5, <1>6, <1>8 DEF Next, Process, Endpoint, Client

-----------------------------------------------------------------------------
(* What follows *)

(* The inductive invariant: nothing under way is ahead of the committed       *)
(* folder, one connection or one timer, hubs of live endpoints.              *)
THEOREM PushInvariant == Spec => []PushIInv
  <1>1. PushIInv /\ [Next]_vars => PushIInv'
    BY NothingAheadStep, OnePerPageStep, HubsAreFreshStep DEF PushIInv
  <1> QED BY <1>1, PushInit, PTL DEF Spec

LEMMA OneLiveConnection ==
  ASSUME OnePerPage
  PROVE  Cardinality({s \in Sockets : Live(s)}) <= 1
  <1> DEFINE live == {s \in Sockets : Live(s)}
  <1>1. live = {} \/ live = {page.socket}
    BY DEF OnePerPage
  <1>2. Cardinality({}) = 0 /\ Cardinality({page.socket}) = 1
    BY FS_EmptySet, FS_Singleton
  <1> QED BY <1>1, <1>2

(* However connections are lost, pings missed, pages left and broadcasts      *)
(* under way: one live connection at most, none while a reconnect is due,     *)
(* and no hub keeps the socket of an endpoint that is over (ws.ts:131-219,    *)
(* hub.py:14-21).                                                            *)
THEOREM SocketsDoNotLeak == Spec => []NoSocketLeaks
  <1>1. PushIInv => NoSocketLeaks
    BY OneLiveConnection DEF PushIInv, OnePerPage, HubsAreFresh, Live, NoSocketLeaks
  <1> QED BY <1>1, PushInvariant, PTL

(* Whatever is lost, late or out of order, the page shows no progress and no  *)
(* capture that was not committed (ingest.py:242, inference.py:358-361).     *)
THEOREM ShownIsCommitted == Spec => []OnlyCommittedIsShown
  <1>1. PushIInv => OnlyCommittedIsShown
    BY DEF PushIInv, NothingAhead, Committed, OnlyCommittedIsShown, Folders, Counts
  <1> QED BY <1>1, PushInvariant, PTL

HIDE PushAssumption

-----------------------------------------------------------------------------
(* What a page reads beside what it is pushed: the answers of ProjectReads.  *)
LEMMA MissingIs404 == \A what : NotFound(what).code = 404
  BY DEF NotFound

LEMMA PublishedOnly ==
  ASSUME NEW db, NEW p, NEW answer, get_public_by_code(db, p, answer).code = 200
  PROVE  Knows(Published(db), p)
  BY MissingIs404 DEF get_public_by_code

LEMMA EveryRoleViews == \A r \in Roles : "project:view" \in RolePermissions[r]
  BY DEF Roles, RolePermissions, Owner, Manager, Engineer, Editor, Collaborator, Employee, Viewer

LEMMA MembershipIs ==
  ASSUME NEW db, IsDatabase(db), NEW m \in db.members
  PROVE  /\ get_membership(db, m.project, m.user) = [role |-> m.role, status |-> m.status]
         /\ m.user # Nobody
<1> DEFINE found == {n \in db.members : n.project = m.project /\ n.user = m.user}
<1>1. m \in found /\ m.user # Nobody
  BY DEF IsDatabase, Knows
<1>2. \A n \in found : n = m
  BY <1>1 DEF IsDatabase
<1>3. (CHOOSE n \in found : TRUE) = m
  BY <1>1, <1>2
<1> QED
  BY <1>1, <1>3 DEF get_membership

\* Whoever handles a project sees it.
LEMMA HandledIsSeen ==
  ASSUME NEW db, IsDatabase(db), NEW u, NEW p \in db.projects, Handles(db, p, u)
  PROVE  CanView(db, p.id, u)
<1>1. PICK m \in db.members : m.project = p.id /\ m.user = u /\ m.status = "accepted"
  BY DEF Handles, IsDatabase
<1>2. get_membership(db, p.id, u) = [role |-> m.role, status |-> "accepted"] /\ m.role \in Roles
  BY <1>1, MembershipIs DEF IsDatabase
<1>3. Knows(db.projects, p.id)
  BY DEF Knows
<1> QED
  BY <1>2, <1>3, EveryRoleViews DEF CanView, can_view_project, resolve_permissions

LEMMA GetKeyed ==
  ASSUME NEW table, IsKeyed(table), NEW r \in table
  PROVE  Knows(table, r.id) /\ Get(table, r.id) = r
  BY DEF IsKeyed, Knows, Get

\* So does everybody, if it is published.
LEMMA PublishedIsSeen ==
  ASSUME NEW db, IsDatabase(db), NEW u, NEW p \in Published(db)
  PROVE  CanView(db, p.id, u)
<1>1. p \in db.projects /\ p.public
  BY DEF Published, IsPublished
<1>2. Knows(db.projects, p.id) /\ Get(db.projects, p.id) = p
  BY <1>1, GetKeyed DEF IsDatabase
<1> QED
  BY <1>1, <1>2 DEF CanView, can_view_project

(* Every project that some list shows a caller, their own, the feed and its  *)
(* search, or the profile of anybody, opens as a folder when they ask for it  *)
(* (repositories/project.py:99-111 and 177-233 against deps.py:446-467).     *)
THEOREM ListedCanBeOpened ==
  ASSUME NEW db, IsDatabase(db), NEW u, NEW name,
         NEW p \in list_for_user(db, u) \cup Published(db) \cup list_public_for_user(db, name)
  PROVE  get_project_folder(db, p.id, u).code = 200
<1>1. CanView(db, p.id, u)
  BY HandledIsSeen, PublishedIsSeen DEF list_for_user, list_public_for_user
<1> QED
  BY <1>1 DEF get_project_folder, get_access_context, Ok

(* A project that has a public page opens for everybody, and the page shows   *)
(* nothing that its folder does not, and the same numbers (public.py:84-130, *)
(* presenters.py:189-308).                                                   *)
THEOREM PageIsPartOfFolder ==
  ASSUME NEW db, NEW u, NEW p, IsDatabase(db), public_project(db, p).code = 200
  PROVE  LET folder == get_project_folder(db, p, u).body
             visitors == public_project(db, p).body
         IN  /\ get_project_folder(db, p, u).code = 200
             /\ visitors.progress = folder.project.progress
             /\ visitors.handler = folder.project.owner
             /\ visitors.recent_images = folder.recent_images
             /\ visitors.timeline = folder.timeline
             /\ visitors.remarks \subseteq folder.remarks
<1>0. Knows(Published(db), p)
  BY PublishedOnly DEF public_project
<1>1. PICK r \in Published(db) : r.id = p
  BY <1>0 DEF Knows
<1>2. CanView(db, p, u)
  BY <1>1, PublishedIsSeen
<1>3. r \in db.projects /\ Get(db.projects, p) = r
  BY <1>1, GetKeyed DEF IsDatabase, Published
<1>4. Get(db.accounts, r.owner).id = r.owner
  BY <1>3 DEF IsDatabase, Knows, Get
<1>5. public_project(db, p) = Ok(present_public_project(GetProjectFolder(db, p, "public")))
  BY <1>0 DEF public_project, get_public_by_code
<1>6. get_project_folder(db, p, u) = Ok(present_folder(GetProjectFolder(db, p, "all"), Rights(db, p, u)))
  BY <1>2 DEF get_project_folder, get_access_context
<1> QED
  BY <1>3, <1>4, <1>5, <1>6 DEF Ok, present_public_project, present_folder, GetProjectFolder

(* `allowed` is the list a socket was told when it connected, in some earlier *)
(* state.  Later it gets every project it asks for that the caller can open,  *)
(* and none that the caller could open neither then nor now.  What it could   *)
(* open then it gets without another look (ws.py:81, 195-223): only while no  *)
(* project of the list was taken from the caller are the two the same.        *)
THEOREM SubscriptionIsTheFolders ==
  ASSUME NEW before, IsDatabase(before), NEW db, NEW u, NEW requested
  PROVE  LET allowed == Subscribable(before, u)
             granted == _authorize(db, requested, allowed, u)
             opened == {p \in requested : get_project_folder(db, p, u).code = 200}
         IN  /\ opened \subseteq granted
             /\ \A p \in granted \ opened :
                   p \in allowed /\ get_project_folder(before, p, u).code = 200
             /\ (\A p \in allowed : CanView(db, p, u)) => granted = opened
<1>1. ASSUME NEW p \in Subscribable(before, u) PROVE CanView(before, p, u)
  BY HandledIsSeen DEF Subscribable, Ids, list_for_user
<1>2. ASSUME NEW d, NEW p PROVE CanView(d, p, u) <=> get_project_folder(d, p, u).code = 200
  BY DEF get_project_folder, get_access_context, Ok, NotFound
<1> QED
  BY <1>1, <1>2 DEF _authorize

-----------------------------------------------------------------------------
\* A row of a keyed table is the only one with its id.
LEMMA SameRow ==
  ASSUME NEW S, NEW T, IsKeyed(S), IsKeyed(T), NEW p, NEW q, q # p, NEW id,
         Besides(S, p) = Besides(T, p)
  PROVE  /\ (Knows(S, id) /\ Get(S, id).project = q) <=> (Knows(T, id) /\ Get(T, id).project = q)
         /\ Knows(S, id) /\ Get(S, id).project = q => Get(S, id) = Get(T, id)
<1>1. \A r : r.project = q => (r \in S <=> r \in T)
  BY DEF Besides, Of
<1>2. ASSUME Knows(S, id) PROVE Get(S, id) \in S /\ Get(S, id).id = id
  BY <1>2 DEF Knows, Get
<1>3. ASSUME Knows(T, id) PROVE Get(T, id) \in T /\ Get(T, id).id = id
  BY <1>3 DEF Knows, Get
<1>4. ASSUME Knows(S, id), Get(S, id).project = q
      PROVE  Knows(T, id) /\ Get(T, id) = Get(S, id)
  BY <1>1, <1>2, <1>4, GetKeyed
<1>5. ASSUME Knows(T, id), Get(T, id).project = q
      PROVE  Knows(S, id) /\ Get(S, id) = Get(T, id)
  BY <1>1, <1>3, <1>5, GetKeyed
<1> QED
  BY <1>4, <1>5

LEMMA SamePart ==
  ASSUME NEW S, NEW T, NEW p, NEW q, q # p, Besides(S, p) = Besides(T, p)
  PROVE  Of(S, q) = Of(T, q)
  BY DEF Besides, Of

Worlds(d, e, p, u) ==
    IsDatabase(d) /\ IsDatabase(e) /\ AlikeBesides(d, e, p) /\ IsHidden(d, p, u) /\ IsHidden(e, p, u)

\* What is left of two databases when the hidden project is taken away.
LEMMA SameProject ==
  ASSUME NEW d, NEW e, NEW p, NEW u, Worlds(d, e, p, u), NEW q, q # p
  PROVE  /\ Knows(d.projects, q) <=> Knows(e.projects, q)
         /\ Knows(d.projects, q) => Get(d.projects, q) = Get(e.projects, q)
<1>1. \A r : r.id = q => (r \in d.projects <=> r \in e.projects)
  BY DEF Worlds, AlikeBesides
<1>2. IsKeyed(d.projects) /\ IsKeyed(e.projects)
  BY DEF Worlds, IsDatabase
<1>3. Knows(d.projects, q) <=> Knows(e.projects, q)
  BY <1>1 DEF Knows
<1>4. ASSUME Knows(d.projects, q) PROVE Get(d.projects, q) = Get(e.projects, q)
  <2>1. PICK r \in d.projects : r.id = q
    BY <1>4 DEF Knows
  <2> QED
    BY <1>1, <1>2, <2>1, GetKeyed
<1> QED
  BY <1>3, <1>4

LEMMA SameMembership ==
  ASSUME NEW d, NEW e, NEW p, NEW u, Worlds(d, e, p, u), NEW q, q # p
  PROVE  get_membership(d, q, u) = get_membership(e, q, u)
<1>1. {m \in d.members : m.project = q /\ m.user = u} = {m \in e.members : m.project = q /\ m.user = u}
  BY DEF Worlds, AlikeBesides, Besides, Of
<1> QED
  BY <1>1 DEF get_membership

LEMMA SameRights ==
  ASSUME NEW d, NEW e, NEW p, NEW u, Worlds(d, e, p, u), NEW q, q # p
  PROVE  /\ CanView(d, q, u) <=> CanView(e, q, u)
         /\ CanView(d, q, u) => Rights(d, q, u) = Rights(e, q, u)
  BY SameProject, SameMembership DEF CanView, Rights

\* Whatever is read of a project behind get_access_context.
LEMMA SameAccess ==
  ASSUME NEW d, NEW e, NEW p, NEW u, Worlds(d, e, p, u), NEW q, NEW a, NEW b,
         q # p /\ CanView(d, q, u) => a = b
  PROVE  get_access_context(d, q, u, a) = get_access_context(e, q, u, b)
<1>1. CASE q = p
  <2>1. ~CanView(d, q, u) /\ ~CanView(e, q, u)
    BY <1>1 DEF Worlds, IsHidden
  <2> QED
    BY <2>1 DEF get_access_context
<1>2. CASE q # p
  BY <1>2, SameRights DEF get_access_context
<1> QED
  BY <1>1, <1>2

LEMMA SameFolder ==
  ASSUME NEW d, NEW e, NEW p, NEW u, Worlds(d, e, p, u), NEW q, q # p,
         Knows(d.projects, q), NEW scope
  PROVE  GetProjectFolder(d, q, scope) = GetProjectFolder(e, q, scope)
<1>1. Get(d.projects, q) = Get(e.projects, q)
  BY SameProject
<1>2. d.accounts = e.accounts
  BY DEF Worlds, AlikeBesides
<1>3. /\ Of(d.members, q) = Of(e.members, q)
      /\ Of(d.devices, q) = Of(e.devices, q)
      /\ Of(d.images, q) = Of(e.images, q)
      /\ Of(d.remarks, q) = Of(e.remarks, q)
      /\ Of(d.assets, q) = Of(e.assets, q)
      /\ Of(d.snapshots, q) = Of(e.snapshots, q)
  BY SamePart DEF Worlds, AlikeBesides
<1> QED
  BY <1>1, <1>2, <1>3 DEF GetProjectFolder

LEMMA SamePublished ==
  ASSUME NEW d, NEW e, NEW p, NEW u, Worlds(d, e, p, u)
  PROVE  Published(d) = Published(e) /\ \A r \in Published(d) : r.id # p
<1>1. \A r \in Published(d) : r.id # p
  BY PublishedIsSeen DEF Worlds, IsHidden
<1>2. \A r \in Published(e) : r.id # p
  BY PublishedIsSeen DEF Worlds, IsHidden
<1>3. \A r : r.id # p => (r \in d.projects <=> r \in e.projects)
  BY DEF Worlds, AlikeBesides
<1> QED
  BY <1>1, <1>2, <1>3 DEF Published

LEMMA SameHandled ==
  ASSUME NEW d, NEW e, NEW p, NEW u, Worlds(d, e, p, u), NEW r, r.id # p, NEW name
  PROVE  Handles(d, r, name) <=> Handles(e, r, name)
<1>1. \A m : m.project # p => (m \in d.members <=> m \in e.members)
  BY DEF Worlds, AlikeBesides, Besides, Of
<1> QED
  BY <1>1 DEF Handles

LEMMA SameLists ==
  ASSUME NEW d, NEW e, NEW p, NEW u, Worlds(d, e, p, u)
  PROVE  /\ list_for_user(d, u) = list_for_user(e, u)
         /\ \A name : list_public_for_user(d, name) = list_public_for_user(e, name)
         /\ {m \in d.members : m.user = u /\ m.status = "pending"}
              = {m \in e.members : m.user = u /\ m.status = "pending"}
<1>1. \A r \in list_for_user(d, u) : r.id # p
  BY HandledIsSeen DEF Worlds, IsHidden, list_for_user
<1>2. \A r \in list_for_user(e, u) : r.id # p
  BY HandledIsSeen DEF Worlds, IsHidden, list_for_user
<1>3. \A r : r.id # p => (r \in d.projects <=> r \in e.projects)
  BY DEF Worlds, AlikeBesides
<1>4. list_for_user(d, u) = list_for_user(e, u)
  BY <1>1, <1>2, <1>3, SameHandled DEF list_for_user
<1>5. ASSUME NEW name PROVE list_public_for_user(d, name) = list_public_for_user(e, name)
  BY SamePublished, SameHandled DEF list_public_for_user
<1>6. ASSUME NEW m \in d.members, m.user = u, m.status = "pending" PROVE m.project # p
  <2>1. IsDatabase(d) /\ get_membership(d, p, u).status # "pending"
    BY DEF Worlds, IsHidden
  <2>2. get_membership(d, m.project, u) = [role |-> m.role, status |-> "pending"]
    BY <1>6, <2>1, MembershipIs
  <2>3. get_membership(d, m.project, u).status = "pending"
    BY <2>2
  <2> QED
    BY <2>1, <2>3
<1>7. ASSUME NEW m \in e.members, m.user = u, m.status = "pending" PROVE m.project # p
  <2>1. IsDatabase(e) /\ get_membership(e, p, u).status # "pending"
    BY DEF Worlds, IsHidden
  <2>2. get_membership(e, m.project, u) = [role |-> m.role, status |-> "pending"]
    BY <1>7, <2>1, MembershipIs
  <2>3. get_membership(e, m.project, u).status = "pending"
    BY <2>2
  <2> QED
    BY <2>1, <2>3
<1>8. \A m : m.project # p => (m \in d.members <=> m \in e.members)
  BY DEF Worlds, AlikeBesides, Besides, Of
<1> QED
  BY <1>4, <1>5, <1>6, <1>7, <1>8

\* The pages of the project q itself.
LEMMA SamePages ==
  ASSUME NEW d, NEW e, NEW p, NEW u, Worlds(d, e, p, u), NEW q
  PROVE  /\ get_project_folder(d, q, u) = get_project_folder(e, q, u)
         /\ public_project(d, q) = public_project(e, q)
         /\ public_timeline(d, q) = public_timeline(e, q)
<1>1. get_project_folder(d, q, u) = get_project_folder(e, q, u)
  <2> DEFINE a == Ok(present_folder(GetProjectFolder(d, q, "all"), Rights(d, q, u)))
             b == Ok(present_folder(GetProjectFolder(e, q, "all"), Rights(e, q, u)))
  <2>1. get_project_folder(d, q, u) = get_access_context(d, q, u, a)
    BY DEF get_project_folder
  <2>2. get_project_folder(e, q, u) = get_access_context(e, q, u, b)
    BY DEF get_project_folder
  <2>3. ASSUME q # p, CanView(d, q, u) PROVE a = b
    <3>1. GetProjectFolder(d, q, "all") = GetProjectFolder(e, q, "all")
      BY <2>3, SameFolder DEF CanView
    <3>2. Rights(d, q, u) = Rights(e, q, u)
      BY <2>3, SameRights
    <3> QED
      BY <3>1, <3>2
  <2> HIDE DEF a, b
  <2> QED
    BY <2>1, <2>2, <2>3, SameAccess
<1>2. Knows(Published(d), q) <=> Knows(Published(e), q)
  BY SamePublished
<1>3. ASSUME Knows(Published(d), q) PROVE q # p /\ Knows(d.projects, q)
  BY <1>3, SamePublished DEF Knows, Published
<1>4. ASSUME Knows(Published(d), q)
      PROVE  GetProjectFolder(d, q, "public") = GetProjectFolder(e, q, "public")
  BY <1>3, <1>4, SameFolder
<1>5. public_project(d, q) = public_project(e, q)
  <2> DEFINE a == Ok(present_public_project(GetProjectFolder(d, q, "public")))
             b == Ok(present_public_project(GetProjectFolder(e, q, "public")))
  <2>1. public_project(d, q) = get_public_by_code(d, q, a)
    BY DEF public_project
  <2>2. public_project(e, q) = get_public_by_code(e, q, b)
    BY DEF public_project
  <2>3. Knows(Published(d), q) => a = b
    BY <1>4
  <2> HIDE DEF a, b
  <2> QED
    BY <1>2, <2>1, <2>2, <2>3 DEF get_public_by_code
<1>6. public_timeline(d, q) = public_timeline(e, q)
  <2>1. Knows(Published(d), q) => Of(d.snapshots, q) = Of(e.snapshots, q)
    BY <1>3, SamePart DEF Worlds, AlikeBesides
  <2> QED
    BY <1>2, <2>1 DEF public_timeline, get_public_by_code
<1> QED
  BY <1>1, <1>5, <1>6

\* Its parts as lists.
LEMMA SamePartLists ==
  ASSUME NEW d, NEW e, NEW p, NEW u, Worlds(d, e, p, u), NEW q, NEW x
  PROVE  /\ list_members(d, q, u) = list_members(e, q, u)
         /\ list_devices(d, q, u) = list_devices(e, q, u)
         /\ list_assets(d, q, u) = list_assets(e, q, u)
         /\ list_remarks(d, q, u) = list_remarks(e, q, u)
         /\ list_reports(d, q, u, x.limit) = list_reports(e, q, u, x.limit)
         /\ get_progress(d, q, u) = get_progress(e, q, u)
         /\ get_timeline(d, q, u, x.since, x.until) = get_timeline(e, q, u, x.since, x.until)
         /\ get_project_history(d, q, u, x.cursor, x.limit) = get_project_history(e, q, u, x.cursor, x.limit)
<1>1. q # p => /\ Of(d.members, q) = Of(e.members, q)
               /\ Of(d.devices, q) = Of(e.devices, q)
               /\ Of(d.assets, q) = Of(e.assets, q)
               /\ Of(d.remarks, q) = Of(e.remarks, q)
               /\ Of(d.reports, q) = Of(e.reports, q)
  BY SamePart DEF Worlds, AlikeBesides
<1>2. q # p => Of(d.images, q) = Of(e.images, q) /\ Of(d.snapshots, q) = Of(e.snapshots, q)
  BY SamePart DEF Worlds, AlikeBesides
<1>3. list_members(d, q, u) = list_members(e, q, u)
  BY <1>1, SameAccess DEF list_members
<1>4. list_devices(d, q, u) = list_devices(e, q, u)
  BY <1>1, SameAccess DEF list_devices
<1>5. list_assets(d, q, u) = list_assets(e, q, u)
  BY <1>1, SameAccess DEF list_assets
<1>6. list_remarks(d, q, u) = list_remarks(e, q, u)
  BY <1>1, SameAccess DEF list_remarks
<1>7. list_reports(d, q, u, x.limit) = list_reports(e, q, u, x.limit)
  BY <1>1, SameAccess DEF list_reports
<1>8. get_progress(d, q, u) = get_progress(e, q, u)
  <2>1. q # p /\ CanView(d, q, u) => Get(d.projects, q) = Get(e.projects, q)
    BY SameProject DEF CanView
  <2>2. q # p /\ CanView(d, q, u) => GetProjectProgress(d, q) = GetProjectProgress(e, q)
    BY <1>2, <2>1 DEF GetProjectProgress
  <2> QED
    BY <2>2, SameAccess DEF get_progress
<1>9. get_timeline(d, q, u, x.since, x.until) = get_timeline(e, q, u, x.since, x.until)
  BY <1>2, SameAccess DEF get_timeline
<1>10. get_project_history(d, q, u, x.cursor, x.limit) = get_project_history(e, q, u, x.cursor, x.limit)
  <2>1. q # p => GetProjectHistory(d, q, x.cursor, x.limit) = GetProjectHistory(e, q, x.cursor, x.limit)
    BY <1>2 DEF GetProjectHistory
  <2> QED
    BY <2>1, SameAccess DEF get_project_history
<1> QED
  BY <1>3, <1>4, <1>5, <1>6, <1>7, <1>8, <1>9, <1>10

\* Its parts one by one.
LEMMA SameRows ==
  ASSUME NEW d, NEW e, NEW p, NEW u, Worlds(d, e, p, u), NEW q, NEW id
  PROVE  /\ download_asset(d, q, u, id) = download_asset(e, q, u, id)
         /\ get_report(d, q, u, id) = get_report(e, q, u, id)
         /\ download_report(d, q, u, id) = download_report(e, q, u, id)
         /\ get_image_detail(d, q, u, id) = get_image_detail(e, q, u, id)
         /\ get_image_prediction(d, q, u, id) = get_image_prediction(e, q, u, id)
<1>1. IsKeyed(d.assets) /\ IsKeyed(e.assets) /\ Besides(d.assets, p) = Besides(e.assets, p)
  BY DEF Worlds, IsDatabase, AlikeBesides
<1>2. IsKeyed(d.reports) /\ IsKeyed(e.reports) /\ Besides(d.reports, p) = Besides(e.reports, p)
  BY DEF Worlds, IsDatabase, AlikeBesides
<1>3. IsKeyed(d.images) /\ IsKeyed(e.images) /\ Besides(d.images, p) = Besides(e.images, p)
  BY DEF Worlds, IsDatabase, AlikeBesides
<1>4. download_asset(d, q, u, id) = download_asset(e, q, u, id)
  BY <1>1, SameRow, SameAccess DEF download_asset, OfProject
<1>5. get_report(d, q, u, id) = get_report(e, q, u, id)
  BY <1>2, SameRow, SameAccess DEF get_report, GetReport, OfProject
<1>6. download_report(d, q, u, id) = download_report(e, q, u, id)
  BY <1>2, SameRow, SameRights, SameAccess DEF download_report, DownloadReport, OfProject, get_current_user
<1>7. get_image_detail(d, q, u, id) = get_image_detail(e, q, u, id)
  BY <1>3, SameRow, SameAccess DEF get_image_detail, OfProject
<1>8. get_image_prediction(d, q, u, id) = get_image_prediction(e, q, u, id)
  BY <1>3, SameRow, SameAccess DEF get_image_prediction, OfProject
<1> QED
  BY <1>4, <1>5, <1>6, <1>7, <1>8

\* What is not of one project, and the socket.
LEMMA SameSearches ==
  ASSUME NEW d, NEW e, NEW p, NEW u, Worlds(d, e, p, u), NEW q, NEW x
  PROVE  /\ my_projects(d, u) = my_projects(e, u)
         /\ my_invitations(d, u) = my_invitations(e, u)
         /\ search(d, x.matches) = search(e, x.matches)
         /\ public_profile(d, x.name, u) = public_profile(e, x.name, u)
         /\ Subscribable(d, u) = Subscribable(e, u)
<1>1. d.accounts = e.accounts
  BY DEF Worlds, AlikeBesides
<1>3. my_projects(d, u) = my_projects(e, u) /\ Subscribable(d, u) = Subscribable(e, u)
  BY SameLists DEF my_projects, Subscribable
<1>4. my_invitations(d, u) = my_invitations(e, u)
  <2> DEFINE pending(db) == {m \in db.members : m.user = u /\ m.status = "pending"}
  <2>1. pending(d) = pending(e)
    BY SameLists
  <2>2. my_invitations(d, u) = get_current_user(u, Ok(pending(d)))
    BY DEF my_invitations
  <2>3. my_invitations(e, u) = get_current_user(u, Ok(pending(e)))
    BY DEF my_invitations
  <2> HIDE DEF pending
  <2> QED
    BY <2>1, <2>2, <2>3
<1>5. search(d, x.matches) = search(e, x.matches)
  <2>1. SearchUsers(d, x.matches) = SearchUsers(e, x.matches)
    BY <1>1 DEF SearchUsers
  <2> QED
    BY <2>1, SamePublished DEF search
<1>6. public_profile(d, x.name, u) = public_profile(e, x.name, u)
  <2>1. GetPublicProfile(d, x.name, u) = GetPublicProfile(e, x.name, u)
    BY <1>1, SameLists DEF GetPublicProfile
  <2> QED
    BY <1>1, <2>1 DEF public_profile
<1> QED
  BY <1>3, <1>4, <1>5, <1>6

(* "This is 404 and not 403": from no read, of any project, any list or a     *)
(* socket, can a caller tell a project that they may not see, and were not    *)
(* invited to, from one that does not exist, nor two states of it apart       *)
(* (deps.py:446-467; predictions.py:126-129, reports.py:151-159).            *)
THEOREM HiddenIsAbsent ==
  ASSUME NEW d, NEW e, NEW p, NEW u,
         IsDatabase(d), IsDatabase(e), AlikeBesides(d, e, p),
         IsHidden(d, p, u), IsHidden(e, p, u), NEW q, NEW x
  PROVE  Reads(d, q, u, x) = Reads(e, q, u, x)
<1>1. Worlds(d, e, p, u)
  BY DEF Worlds
<1>2. /\ get_project_folder(d, q, u) = get_project_folder(e, q, u)
      /\ public_project(d, q) = public_project(e, q)
      /\ public_timeline(d, q) = public_timeline(e, q)
  BY <1>1, SamePages
<1>3. /\ list_members(d, q, u) = list_members(e, q, u)
      /\ list_devices(d, q, u) = list_devices(e, q, u)
      /\ list_assets(d, q, u) = list_assets(e, q, u)
      /\ list_remarks(d, q, u) = list_remarks(e, q, u)
      /\ list_reports(d, q, u, x.limit) = list_reports(e, q, u, x.limit)
      /\ get_progress(d, q, u) = get_progress(e, q, u)
      /\ get_timeline(d, q, u, x.since, x.until) = get_timeline(e, q, u, x.since, x.until)
      /\ get_project_history(d, q, u, x.cursor, x.limit) = get_project_history(e, q, u, x.cursor, x.limit)
  BY <1>1, SamePartLists
<1>4. /\ download_asset(d, q, u, x.row) = download_asset(e, q, u, x.row)
      /\ get_report(d, q, u, x.row) = get_report(e, q, u, x.row)
      /\ download_report(d, q, u, x.row) = download_report(e, q, u, x.row)
      /\ get_image_detail(d, q, u, x.row) = get_image_detail(e, q, u, x.row)
      /\ get_image_prediction(d, q, u, x.row) = get_image_prediction(e, q, u, x.row)
  BY <1>1, SameRows
<1>5. /\ my_projects(d, u) = my_projects(e, u)
      /\ my_invitations(d, u) = my_invitations(e, u)
      /\ search(d, x.matches) = search(e, x.matches)
      /\ public_profile(d, x.name, u) = public_profile(e, x.name, u)
      /\ Subscribable(d, u) = Subscribable(e, u)
  BY <1>1, SameSearches
<1>6. _authorize(d, {q}, {}, u) = _authorize(e, {q}, {}, u)
  <2>1. CanView(d, q, u) <=> CanView(e, q, u)
    BY <1>1, SameRights DEF Worlds, IsHidden
  <2> QED
    BY <2>1 DEF _authorize
<1> QED
  BY <1>2, <1>3, <1>4, <1>5, <1>6 DEF Reads
=============================================================================
