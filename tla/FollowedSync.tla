--------------------------- MODULE FollowedSync ---------------------------
(***************************************************************************)
(* WorkspaceSync with clients that follow the session on the control plane *)
(* (session.events of the server, events.durable of the log).  The control *)
(* plane's copy grows by its own events and by replayed ones alike, and    *)
(* each commit wakes the streams: what a remote workspace publishes goes   *)
(* over its event stream or its history, into the copy, and from there to  *)
(* the clients.                                                            *)
(***************************************************************************)
EXTENDS WorkspaceSync

CONSTANT Streams

VARIABLES streams, waking

F == INSTANCE EventStream WITH Events <- Event, log <- store[Control].log

followed == <<vars, streams, waking>>

FollowedInit == Init /\ F!NoStreams

\* A step of a process, seen by the streams of the control plane.
Replicate ==
    /\ \/ \E n \in Nodes : Work(n)
       \/ \E r \in Remotes : StartSync(r) \/ Sync(r) \/ Disconnect(r)
       \/ \E to \in Homes : BeginWarp(to)
       \/ WarpStep \/ LoseRequest
    /\ IF store'[Control].log # store[Control].log
       THEN F!Committed
       ELSE UNCHANGED <<streams, waking>>

RestartAll == Restart /\ F!Restart

\* Events of a session are asked for when the control plane knows it.
Asked == store[Control].log # <<>> /\ UNCHANGED vars

FollowedNext == Replicate \/ RestartAll \/ (Asked /\ F!Follow)

FollowedSpec == FollowedInit /\ [][FollowedNext]_followed

\* The fairness of the sync loops, and of the streams.
FollowedFairSpec ==
    /\ FollowedSpec
    /\ \A r \in Remotes :
           /\ SF_vars(StartSync(r)) /\ SF_vars(Connect(r))
           /\ SF_vars(FetchHistory(r)) /\ SF_vars(ReplayHistory(r))
           /\ SF_vars(GoLive(r)) /\ SF_vars(Receive(r))
    /\ WF_followed(Asked /\ F!Wake)
    /\ \A s \in Streams : WF_followed(Asked /\ F!StreamStep(s))

-----------------------------------------------------------------------------
(* Properties.                                                             *)

\* See EventStream: what a client of the control plane is given is the log.
StreamsFollowTheLog == F!StreamsFollowTheLog

\* Without moves, a client that stays sees every event of a remote workspace
\* behind the one it asked for, however often the connection to the workspace
\* is lost and whenever it opened its stream.
FollowersSeeEveryEvent ==
    \A r \in Remotes, s \in Streams, n \in 1 .. MaxEvents :
        Len(store[r].log) >= n /\ streams[s].at # "closed" /\ warps = 0
            ~> streams[s].at = "closed" \/ streams[s].cursor >= n

=============================================================================
