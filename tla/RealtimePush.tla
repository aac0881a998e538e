----------------------------- MODULE RealtimePush -----------------------------
(***************************************************************************)
(* How a change of a project reaches an open dashboard page: producers      *)
(* announce events on a Redis channel, every API process consumes the       *)
(* channel and hands each event to the sockets its hub holds, and the page  *)
(* patches or refetches its cached folder.  The page also polls the folder, *)
(* so that all of this is only an optimisation.                             *)
(*                                                                          *)
(* One page follows one project.  A folder is abstracted to two counters:   *)
(* `progress`, which an event carries, and `captures`, which the page can   *)
(* only refetch.                                                            *)
(*                                                                          *)
(* External parts: Redis, the network, which may cut a connection without   *)
(* telling either side, the browser's WebSocket and the query cache.        *)
(***************************************************************************)
EXTENDS Integers, Sequences, FiniteSets

CONSTANTS
    Processes,      \* API processes, each with a subscriber and a hub
    Sockets,        \* connections the page may make, one after the other
    NoSocket,       \* the page has made none
    MaxChanges,     \* commits that change the project
    MaxMissed,      \* MAX_MISSED_PONGS
    MaxFaults       \* cuts, crashes, late pongs, failed requests

ASSUME PushAssumption ==
    /\ NoSocket \notin Sockets
    /\ MaxChanges \in Nat
    /\ MaxMissed \in Nat \ {0}
    /\ MaxFaults \in Nat

VARIABLES
    truth,      \* the committed folder
    uploads,    \* uploads announced and not yet committed
    unsaid,     \* progress events of committed recomputes, not yet published
    listening,  \* processes whose subscriber is connected to Redis
    channel,    \* channel[p]: events the subscriber of p has not dispatched
    hub,        \* hub[p]: the sockets that follow the project at p
    casting,    \* casting[p]: the broadcast p is at: its event and targets
    sock,       \* sock[s]: both ends of a connection and what is under way
    page,       \* the RealtimeClient of the page
    cache,      \* the folder the page shows, or Nothing before the first fetch
    fetch,      \* the folder a request under way was answered with
    faults

vars == <<truth, uploads, unsaid, listening, channel, hub, casting, sock, page,
          cache, fetch, faults>>

server == <<listening, channel, hub, casting>>
shown == <<cache, fetch>>

-----------------------------------------------------------------------------
Counts == 0 .. MaxChanges
Folders == [progress : Counts, captures : Counts]
Nothing == [progress |-> -1, captures |-> -1]

Events == [kind : {"progress"}, value : Counts] \cup [kind : {"received"}]
Quiet == [targets |-> {}]
Pong == [kind |-> "pong"]

\* `client` is readyState, `server` the endpoint's coroutine.
Connections == [client : {"unused", "connecting", "open", "closed"},
                server : {"none", "loop", "gone"},
                at : Processes, cut : BOOLEAN,
                up : Seq({"subscribe", "ping"}), down : Seq(Events \cup {Pong})]

\* `wanted` is the subscription the client owns, `awaiting` the pong timer.
Pages == [socket : Sockets \cup {NoSocket}, timers : Nat, wanted : BOOLEAN,
          awaiting : BOOLEAN, missed : 0 .. MaxMissed, stopped : BOOLEAN]

TypeOK ==
    /\ truth \in Folders
    /\ uploads \in Counts
    /\ unsaid \subseteq Events
    /\ listening \subseteq Processes
    /\ channel \in [Processes -> Seq(Events)]
    /\ hub \in [Processes -> SUBSET Sockets]
    /\ casting \in [Processes -> [event : Events, targets : SUBSET Sockets] \cup {Quiet}]
    /\ sock \in [Sockets -> Connections]
    /\ page \in Pages
    /\ cache \in Folders \cup {Nothing}
    /\ fetch \in Folders \cup {Nothing}
    /\ faults \in 0 .. MaxFaults

Init ==
    /\ truth = [progress |-> 0, captures |-> 0]
    /\ uploads = 0
    /\ unsaid = {}
    /\ listening = Processes
    /\ channel = [p \in Processes |-> <<>>]
    /\ hub = [p \in Processes |-> {}]
    /\ casting = [p \in Processes |-> Quiet]
    /\ sock \in [Sockets -> [client : {"unused"}, server : {"none"}, at : Processes,
                             cut : {FALSE}, up : {<<>>}, down : {<<>>}]]
    /\ page = [socket |-> NoSocket, timers |-> 1, wanted |-> FALSE,
               awaiting |-> FALSE, missed |-> 0, stopped |-> FALSE]
    /\ cache = Nothing
    /\ fetch = Nothing
    /\ faults = 0

Fault == faults < MaxFaults /\ faults' = faults + 1

-----------------------------------------------------------------------------
(***************************************************************************)
(* Producers.                                                               *)
(***************************************************************************)
Changes == truth.progress + truth.captures + uploads

\* RedisEventPublisher.publish: the processes that listen get the event, or
\* nobody does; the producer is told nothing.
Announced(event, reached) ==
    channel' = [p \in Processes |->
                   IF p \in reached THEN Append(channel[p], event) ELSE channel[p]]

Audiences == {listening, {}}

\* _recompute commits, and announces the new value after that.
Recompute ==
    /\ Changes < MaxChanges
    /\ truth' = [truth EXCEPT !.progress = @ + 1]
    /\ unsaid' = unsaid \cup {[kind |-> "progress", value |-> truth.progress + 1]}
    /\ UNCHANGED <<uploads, server, sock, page, shown, faults>>

\* Workers publish side by side, in any order.
PublishProgress ==
    /\ \E event \in unsaid, reached \in Audiences :
          /\ unsaid' = unsaid \ {event}
          /\ Announced(event, reached)
    /\ UNCHANGED <<truth, uploads, listening, hub, casting, sock, page, shown, faults>>

\* IngestImage.execute announces a capture inside the request ...
UploadAnnounced ==
    /\ Changes < MaxChanges
    /\ uploads' = uploads + 1
    /\ \E reached \in Audiences : Announced([kind |-> "received"], reached)
    /\ UNCHANGED <<truth, unsaid, listening, hub, casting, sock, page, shown, faults>>

\* ... which TransactionalRoute commits when the handler is done.
UploadCommits ==
    /\ uploads > 0
    /\ uploads' = uploads - 1
    /\ truth' = [truth EXCEPT !.captures = @ + 1]
    /\ UNCHANGED <<unsaid, server, sock, page, shown, faults>>

UploadAborts ==
    /\ uploads > 0
    /\ Fault
    /\ uploads' = uploads - 1
    /\ UNCHANGED <<truth, unsaid, server, sock, page, shown>>

-----------------------------------------------------------------------------
(***************************************************************************)
(* RealtimeSubscriber and ConnectionHub of a process.                       *)
(***************************************************************************)
SubscriberDrops(p) ==
    /\ p \in listening
    /\ Fault
    /\ listening' = listening \ {p}
    /\ channel' = [channel EXCEPT ![p] = <<>>]
    /\ UNCHANGED <<truth, uploads, unsaid, hub, casting, sock, page, shown>>

\* _run reconnects; what was published meanwhile is lost to it.
SubscriberReturns(p) ==
    /\ p \notin listening
    /\ listening' = listening \cup {p}
    /\ UNCHANGED <<truth, uploads, unsaid, channel, hub, casting, sock, page, shown, faults>>

\* broadcast: the targets are copied under the lock ...
BroadcastBegins(p) ==
    /\ casting[p] = Quiet
    /\ channel[p] # <<>>
    /\ casting' = [casting EXCEPT ![p] =
                     IF hub[p] = {} THEN Quiet
                     ELSE [event |-> Head(channel[p]), targets |-> hub[p]]]
    /\ channel' = [channel EXCEPT ![p] = Tail(@)]
    /\ UNCHANGED <<truth, uploads, unsaid, listening, hub, sock, page, shown, faults>>

\* A frame written to a cut connection is lost, and the write may succeed.
Receives(s) == sock[s].server = "loop" /\ ~sock[s].cut /\ sock[s].client = "open"
MayFail(s) == sock[s].cut \/ sock[s].client = "closed"
SendFails(s) == sock[s].server = "gone"

\* ... and sent to without it; a socket whose send fails is forgotten.
BroadcastEnds(p) ==
    /\ casting[p] # Quiet
    /\ LET targets == casting[p].targets
       IN  /\ sock' = [s \in Sockets |->
                         IF s \in targets /\ Receives(s)
                         THEN [sock[s] EXCEPT !.down = Append(@, casting[p].event)]
                         ELSE sock[s]]
           /\ \E dead \in SUBSET {s \in targets : MayFail(s) \/ SendFails(s)} :
                 /\ {s \in targets : SendFails(s)} \subseteq dead
                 /\ hub' = [hub EXCEPT ![p] = @ \ dead]
    /\ casting' = [casting EXCEPT ![p] = Quiet]
    /\ UNCHANGED <<truth, uploads, unsaid, listening, channel, page, shown, faults>>

-----------------------------------------------------------------------------
(***************************************************************************)
(* The endpoint of a socket.                                                *)
(***************************************************************************)
\* realtime: the token is good and the connection is accepted.
Accept(s) ==
    /\ sock[s].client = "connecting" /\ sock[s].server = "none"
    /\ sock' = [sock EXCEPT ![s].server = "loop"]
    /\ UNCHANGED <<truth, uploads, unsaid, server, page, shown, faults>>

\* The loop answers a ping, or adds an authorized subscription to the hub.
EndpointReads(s) ==
    /\ sock[s].server = "loop"
    /\ sock[s].up # <<>>
    /\ LET frame == Head(sock[s].up)
           read == [sock EXCEPT ![s].up = Tail(@)]
       IN  IF frame = "ping"
           THEN /\ sock' = IF Receives(s) THEN [read EXCEPT ![s].down = Append(@, Pong)]
                                          ELSE read
                /\ UNCHANGED hub
           ELSE /\ hub' = [hub EXCEPT ![sock[s].at] = @ \cup {s}]
                /\ sock' = read
    /\ UNCHANGED <<truth, uploads, unsaid, listening, channel, casting, page, shown, faults>>

\* Mutant: the loop ends without its `finally`.
Forgotten_ByNobody(s) == hub

\* ConnectionHub.disconnect
Forgotten(s) == [hub EXCEPT ![sock[s].at] = @ \ {s}]

\* The close of the browser, or the transport's own timeout, ends the loop,
\* whose `finally` disconnects the socket.
EndpointEnds(s) ==
    /\ sock[s].server = "loop"
    /\ sock[s].client = "closed" \/ sock[s].cut
    /\ sock' = [sock EXCEPT ![s].server = "gone", ![s].up = <<>>]
    /\ hub' = Forgotten(s)
    /\ UNCHANGED <<truth, uploads, unsaid, listening, channel, casting, page, shown, faults>>

-----------------------------------------------------------------------------
(***************************************************************************)
(* RealtimeClient.                                                          *)
(***************************************************************************)
Closed(s) == [sock EXCEPT ![s].client = "closed", ![s].down = <<>>]

\* scheduleReconnect
Scheduled == [page EXCEPT !.awaiting = FALSE,
                          !.timers = IF page.stopped THEN @ ELSE @ + 1]

\* connect, from the mount or from a reconnect timer, with a token at hand.
Connect(s) ==
    /\ page.timers > 0
    /\ sock[s].client = "unused"
    /\ page' = [page EXCEPT !.timers = @ - 1, !.socket = s]
    /\ sock' = [sock EXCEPT ![s].client = "connecting"]
    /\ UNCHANGED <<truth, uploads, unsaid, server, shown, faults>>

\* A frame the client sends; a cut connection swallows it.
Sent(s, frame) ==
    IF sock[s].cut THEN sock ELSE [sock EXCEPT ![s].up = Append(@, frame)]

\* Mutant: the subscriptions of the lost socket are taken to hold.
Opened_Unsubscribed(s) ==
    /\ sock[s].client = "connecting" /\ sock[s].server = "loop"
    /\ sock' = [sock EXCEPT ![s].client = "open"]
    /\ page' = [page EXCEPT !.missed = 0]
    /\ UNCHANGED <<truth, uploads, unsaid, server, shown, faults>>

\* onopen: the counter is reset and what the page follows is sent again.
Opened(s) ==
    /\ sock[s].client = "connecting" /\ sock[s].server = "loop"
    /\ LET open == [sock EXCEPT ![s].client = "open"]
       IN  sock' = IF page.wanted /\ ~sock[s].cut
                   THEN [open EXCEPT ![s].up = Append(@, "subscribe")] ELSE open
    /\ page' = [page EXCEPT !.missed = 0]
    /\ UNCHANGED <<truth, uploads, unsaid, server, shown, faults>>

\* The token was refused, the process died, or the network let go loudly:
\* onerror, then onclose.
SocketCloses(s) ==
    /\ sock[s].client \in {"connecting", "open"}
    /\ Fault
    /\ sock' = Closed(s)
    /\ page' = Scheduled
    /\ UNCHANGED <<truth, uploads, unsaid, server, shown>>

\* A connection goes dead without a sound.
LinkIsCut(s) ==
    /\ sock[s].client = "open" /\ ~sock[s].cut
    /\ Fault
    /\ sock' = [sock EXCEPT ![s].cut = TRUE, ![s].up = <<>>, ![s].down = <<>>]
    /\ UNCHANGED <<truth, uploads, unsaid, server, page, shown>>

\* subscribe: the intent is kept, and sent if the socket is open.
Follow ==
    /\ ~page.wanted /\ ~page.stopped
    /\ page' = [page EXCEPT !.wanted = TRUE]
    /\ LET s == page.socket
       IN  sock' = IF s # NoSocket /\ sock[s].client = "open" THEN Sent(s, "subscribe") ELSE sock
    /\ UNCHANGED <<truth, uploads, unsaid, server, shown, faults>>

OpenSocket(s) == page.socket = s /\ sock[s].client = "open"

\* The heartbeat sends a ping and starts the pong timer.
Ping(s) ==
    /\ OpenSocket(s)
    /\ ~page.awaiting
    /\ sock[s].up = <<>>
    /\ sock' = Sent(s, "ping")
    /\ page' = [page EXCEPT !.awaiting = TRUE]
    /\ UNCHANGED <<truth, uploads, unsaid, server, shown, faults>>

\* The pong timer fires: at the second miss the socket is closed, and its
\* onclose schedules the next.
PongMissed(s) ==
    /\ OpenSocket(s)
    /\ page.awaiting
    /\ IF sock[s].cut THEN UNCHANGED faults ELSE Fault
    /\ IF page.missed + 1 >= MaxMissed
       THEN sock' = Closed(s) /\ page' = Scheduled
       ELSE /\ page' = [page EXCEPT !.missed = @ + 1, !.awaiting = FALSE]
            /\ UNCHANGED sock
    /\ UNCHANGED <<truth, uploads, unsaid, server, shown>>

\* setQueryData: a folder that was never fetched is not patched.
Patched(value) == IF cache = Nothing THEN cache ELSE [cache EXCEPT !.progress = value]

\* onmessage: a pong, an event that patches, or one that invalidates and so
\* abandons a request under way for another.
ClientReads(s) ==
    /\ sock[s].client = "open"
    /\ sock[s].down # <<>>
    /\ LET frame == Head(sock[s].down)
       IN  /\ page' = IF frame = Pong
                      THEN [page EXCEPT !.missed = 0, !.awaiting = FALSE] ELSE page
           /\ cache' = IF frame.kind = "progress" THEN Patched(frame.value) ELSE cache
           /\ fetch' = IF frame.kind = "received" THEN Nothing ELSE fetch
    /\ sock' = [sock EXCEPT ![s].down = Tail(@)]
    /\ UNCHANGED <<truth, uploads, unsaid, server, faults>>

\* close, when the page is left; nobody looks at its cache any more.
Leave ==
    /\ ~page.stopped
    /\ page' = [socket |-> NoSocket, timers |-> 0, wanted |-> FALSE,
                awaiting |-> FALSE, missed |-> 0, stopped |-> TRUE]
    /\ cache' = Nothing
    /\ fetch' = Nothing
    /\ sock' = [s \in Sockets |->
                  IF s = page.socket /\ sock[s].client # "unused" THEN Closed(s)[s] ELSE sock[s]]
    /\ UNCHANGED <<truth, uploads, unsaid, server, faults>>

-----------------------------------------------------------------------------
(***************************************************************************)
(* The folder query: on mount, every 60 seconds, and when invalidated.      *)
(***************************************************************************)
\* Mutant: no refetchInterval; the folder is fetched on mount only.
FetchReads_OnMount ==
    /\ ~page.stopped
    /\ fetch = Nothing
    /\ cache = Nothing
    /\ fetch' = truth
    /\ UNCHANGED <<truth, uploads, unsaid, server, sock, page, cache, faults>>

FetchReads ==
    /\ ~page.stopped
    /\ fetch = Nothing
    /\ fetch' = truth
    /\ UNCHANGED <<truth, uploads, unsaid, server, sock, page, cache, faults>>

FetchAnswers ==
    /\ fetch # Nothing
    /\ cache' = fetch
    /\ fetch' = Nothing
    /\ UNCHANGED <<truth, uploads, unsaid, server, sock, page, faults>>

FetchFails ==
    /\ fetch # Nothing
    /\ Fault
    /\ fetch' = Nothing
    /\ UNCHANGED <<truth, uploads, unsaid, server, sock, page, cache>>

-----------------------------------------------------------------------------
Producers == PublishProgress \/ UploadCommits

Process(p) == SubscriberReturns(p) \/ BroadcastBegins(p) \/ BroadcastEnds(p)

Endpoint(s) == Accept(s) \/ EndpointReads(s) \/ EndpointEnds(s)

\* The page is one event loop: what it was handed comes to its turn, and the
\* heartbeat's timers fire.
Client == \E s \in Sockets : Connect(s) \/ Opened(s) \/ ClientReads(s)

Heartbeat == \E s \in Sockets : Ping(s) \/ (PongMissed(s) /\ sock[s].cut)

Next ==
    \/ Recompute \/ UploadAnnounced \/ UploadAborts
    \/ Producers
    \/ \E p \in Processes : Process(p) \/ SubscriberDrops(p)
    \/ \E s \in Sockets :
        \/ Endpoint(s)
        \/ SocketCloses(s) \/ LinkIsCut(s)
        \/ Ping(s) \/ PongMissed(s)
    \/ Client
    \/ Follow
    \/ Leave
    \/ FetchReads \/ FetchAnswers \/ FetchFails

Spec == Init /\ [][Next]_vars

(***************************************************************************)
(* What runs goes on: requests commit, the loops of the processes turn, the *)
(* page's timers fire and its query is asked again.  Nobody has to follow a *)
(* project, and nothing has to be announced.                                *)
(***************************************************************************)
Pushing ==
    /\ WF_vars(Producers)
    /\ \A p \in Processes : WF_vars(Process(p))
    /\ \A s \in Sockets : WF_vars(Endpoint(s))
    /\ WF_vars(Client) /\ WF_vars(Heartbeat)
    /\ WF_vars(FetchReads) /\ WF_vars(FetchAnswers)

FairSpec == Spec /\ Pushing

-----------------------------------------------------------------------------
(***************************************************************************)
(* What the push channel promises.                                          *)
(***************************************************************************)
\* A page never holds two live connections, as one failure schedules one
\* reconnect (ws.ts:131-140, 212-219); and no hub keeps a socket whose endpoint
\* is over, however it ended and whatever broadcast was copying its targets
\* (hub.py:14-21).
NoSocketLeaks ==
    /\ Cardinality({s \in Sockets : sock[s].client \in {"connecting", "open"}}) <= 1
    /\ page.timers > 0 => \A s \in Sockets : sock[s].client \notin {"connecting", "open"}
    /\ \A p \in Processes : \A s \in hub[p] : sock[s].at = p /\ sock[s].server = "loop"

\* The page shows nothing that was not committed: an upload that is announced
\* and then fails shows nowhere (ingest.py:242, inference.py:358-361).
OnlyCommittedIsShown ==
    cache # Nothing => cache.progress <= truth.progress /\ cache.captures <= truth.captures

\* A connection that went dead without a sound is given up, not waited on
\* (ws.ts:16-18, 186-199).
MuteIsReplaced ==
    LET Mute == \E s \in Sockets : OpenSocket(s) /\ sock[s].cut
    IN  []<>~Mute

\* What the page follows gets into the hub of whatever process its connection
\* ended up at, unless that connection is lost again (ws.ts:14-15, 106-114).
SubscriptionHolds ==
    LET Unheard == \E s \in Sockets :
            /\ OpenSocket(s) /\ ~sock[s].cut
            /\ page.wanted
            /\ s \notin hub[sock[s].at]
    IN  []<>~Unheard

\* With every event lost, late or out of order, the page ends up showing the
\* project as it is, unless it is left first (ws.ts:4-8).
CatchesUp == <>[](page.stopped \/ cache = truth)

=============================================================================
