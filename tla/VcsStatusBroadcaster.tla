------------------------ MODULE VcsStatusBroadcaster ------------------------
(***************************************************************************)
(* The status of one working directory, as the server caches it and sends  *)
(* it to the browsers that view it.  The local part is read when somebody  *)
(* asks or an agent's turn ends; the remote part, which means a fetch, is  *)
(* read by one poller for as long as there is a viewer.  A read takes its  *)
(* time: git may change before it begins to look and before its answer is  *)
(* cached, and reads overtake each other.  What is cached and differs from *)
(* before is published in the same step, except by a viewer's first load.  *)
(*                                                                         *)
(* The cache of a second that GitManager puts before git is left out: it   *)
(* lets overlapping loads share one read.  So is the back-off after        *)
(* failing polls, a length of time.                                        *)
(***************************************************************************)
EXTENDS Naturals, Sequences

CONSTANTS
  Viewers,     \* streams of browsers
  Refreshers,  \* fibers that refresh: requests, reactors, actions on git
  Statuses,    \* what a part of the status may be
  Unknown,     \* nothing read yet
  MaxChanges   \* bound on the changes of git and of the setting

ASSUME StatusesAssumption == Unknown \notin Statuses /\ MaxChanges \in Nat

Parts == {"local", "remote"}

VARIABLES
  git,        \* [Parts -> Statuses], what git would answer now
  cached,     \* [Parts -> Statuses or Unknown], cacheRef
  poller,     \* the poller: where it is, what it read, subscriberCount
  refreshes,  \* [Refreshers -> the part they are at or "idle", what they read, whether both]
  viewers,    \* [Viewers -> where they are, what they loaded, their subscription, what they show]
  automatic,  \* the setting for automatic fetches has an interval
  misled,     \* viewers subscribed when a first load replaced something else
  changes

cacheVars == <<cached, viewers, misled>>
environment == <<git, automatic, changes>>
statusVars == <<cacheVars, environment, poller, refreshes>>

Off == [at |-> "off", value |-> Unknown, count |-> 0]
NoRefresh == [at |-> "idle", value |-> Unknown, both |-> FALSE]
NoView == [at |-> "none", value |-> Unknown, queue |-> << >>,
           shows |-> [p \in Parts |-> Unknown]]

StatusInit ==
  /\ git \in [Parts -> Statuses] /\ cached = [p \in Parts |-> Unknown]
  /\ poller = Off /\ refreshes = [r \in Refreshers |-> NoRefresh]
  /\ viewers = [s \in Viewers |-> NoView]
  /\ automatic \in BOOLEAN /\ misled = {} /\ changes = 0

-----------------------------------------------------------------------------
(* The cache.                                                              *)

Subscribed == {s \in Viewers : viewers[s].at # "none"}

\* updateCachedLocalStatus and updateCachedRemoteStatus with publish.
Publishes(p, v) ==
  /\ cached' = [cached EXCEPT ![p] = v]
  /\ IF cached[p] = v THEN UNCHANGED <<viewers, misled>>
     ELSE /\ viewers' = [s \in Viewers |->
                IF s \in Subscribed
                  THEN [viewers[s] EXCEPT !.queue = Append(@, [part |-> p, value |-> v])]
                  ELSE viewers[s]]
          /\ misled' = IF p = "local" THEN {} ELSE misled

-----------------------------------------------------------------------------
(* refreshLocalStatus and refreshStatus, which refreshes both, one after   *)
(* the other.  The poller's loop.                                          *)

Refresh(r, both) ==
  /\ refreshes[r].at = "idle"
  /\ refreshes' = [refreshes EXCEPT ![r] = [at |-> "local", value |-> Unknown, both |-> both]]
  /\ UNCHANGED <<cacheVars, environment, poller>>

RefreshReads(r) ==
  /\ refreshes[r].at # "idle" /\ refreshes[r].value = Unknown
  /\ refreshes' = [refreshes EXCEPT ![r].value = git[refreshes[r].at]]
  /\ UNCHANGED <<cacheVars, environment, poller>>

RefreshEnds(r) ==
  /\ refreshes[r].value # Unknown
  /\ Publishes(refreshes[r].at, refreshes[r].value)
  /\ refreshes' = [refreshes EXCEPT ![r] =
       IF @.at = "local" /\ @.both THEN [at |-> "remote", value |-> Unknown, both |-> TRUE]
                                ELSE NoRefresh]
  /\ UNCHANGED <<environment, poller>>

\* If the local part fails, the remote one is not tried.
RefreshFails(r) ==
  /\ refreshes[r].at # "idle" /\ refreshes[r].value = Unknown
  /\ refreshes' = [refreshes EXCEPT ![r] = NoRefresh]
  /\ UNCHANGED <<cacheVars, environment, poller>>

PollBegins ==
  /\ poller.at = "sleeping" /\ automatic
  /\ poller' = [poller EXCEPT !.at = "reading"]
  /\ UNCHANGED <<cacheVars, environment, refreshes>>

PollReads ==
  /\ poller.at = "reading"
  /\ poller' = [poller EXCEPT !.at = "read", !.value = git["remote"]]
  /\ UNCHANGED <<cacheVars, environment, refreshes>>

PollEndsQuietly ==
  /\ poller.at = "read" /\ cached' = [cached EXCEPT !["remote"] = poller.value]
  /\ poller' = [poller EXCEPT !.at = "sleeping", !.value = Unknown]
  /\ UNCHANGED <<viewers, misled, environment, refreshes>>

PollEnds ==
  /\ poller.at = "read" /\ Publishes("remote", poller.value)
  /\ poller' = [poller EXCEPT !.at = "sleeping", !.value = Unknown]
  /\ UNCHANGED <<environment, refreshes>>

PollFails ==
  /\ poller.at = "reading"
  /\ poller' = [poller EXCEPT !.at = "sleeping"]
  /\ UNCHANGED <<cacheVars, environment, refreshes>>

-----------------------------------------------------------------------------
(* streamStatus.                                                           *)

\* retainRemotePoller: the first viewer starts the poller.
Retain == poller' = IF poller.at = "off" THEN [at |-> "sleeping", value |-> Unknown, count |-> 1]
                                         ELSE [poller EXCEPT !.count = @ + 1]

\* releaseRemotePoller: the last one interrupts it, wherever it is.
ReleaseAll == poller' = Off
Release == poller' = IF poller.count > 1 THEN [poller EXCEPT !.count = @ - 1] ELSE Off

\* The snapshot: what is cached, of the remote part if there is any.
Opened(s, cache) ==
  [viewers[s] EXCEPT !.at = "live", !.value = Unknown, !.shows = cache]

\* The changes are subscribed to before anything is read.
View(s) ==
  /\ viewers[s].at = "none"
  /\ IF cached["local"] # Unknown
       THEN viewers' = [viewers EXCEPT ![s] = Opened(s, cached)] /\ Retain
       ELSE viewers' = [viewers EXCEPT ![s].at = "loading"] /\ UNCHANGED poller
  /\ misled' = misled \ {s}
  /\ UNCHANGED <<cached, environment, refreshes>>

LoadReads(s) ==
  /\ viewers[s].at = "loading" /\ viewers[s].value = Unknown
  /\ viewers' = [viewers EXCEPT ![s].value = git["local"]]
  /\ UNCHANGED <<cached, misled, environment, poller, refreshes>>

\* loadLocalStatus caches what it read, over what others cached meanwhile.
LoadEnds(s) ==
  /\ viewers[s].at = "loading" /\ viewers[s].value # Unknown
  /\ LET v == viewers[s].value IN
       /\ cached' = [cached EXCEPT !["local"] = v]
       /\ viewers' = [viewers EXCEPT ![s] = Opened(s, cached')]
       /\ misled' = IF cached["local"] \in {Unknown, v} THEN misled ELSE Subscribed
  /\ Retain
  /\ UNCHANGED <<environment, refreshes>>

Receive(s) ==
  /\ viewers[s].at = "live" /\ viewers[s].queue # << >>
  /\ LET event == Head(viewers[s].queue) IN
     viewers' = [viewers EXCEPT ![s].queue = Tail(@), ![s].shows[event.part] = event.value]
  /\ UNCHANGED <<cached, misled, environment, poller, refreshes>>

\* The connection is lost, the browser views something else or the load fails.
Leave(s) ==
  /\ viewers[s].at # "none"
  /\ viewers' = [viewers EXCEPT ![s] = NoView]
  /\ IF viewers[s].at = "live" THEN Release ELSE UNCHANGED poller
  /\ UNCHANGED <<cached, misled, environment, refreshes>>

-----------------------------------------------------------------------------
(* The world.                                                              *)

GitChanges ==
  /\ changes < MaxChanges /\ changes' = changes + 1
  /\ \E p \in Parts : \E v \in Statuses \ {git[p]} : git' = [git EXCEPT ![p] = v]
  /\ UNCHANGED <<cacheVars, automatic, poller, refreshes>>

SettingChanges ==
  /\ changes < MaxChanges /\ changes' = changes + 1
  /\ automatic' = ~automatic
  /\ UNCHANGED <<cacheVars, git, poller, refreshes>>

-----------------------------------------------------------------------------
Poll == PollBegins \/ PollReads \/ PollEnds

StatusNext ==
  \/ Poll \/ PollFails
  \/ \E r \in Refreshers : (\E both \in BOOLEAN : Refresh(r, both))
                           \/ RefreshReads(r) \/ RefreshEnds(r) \/ RefreshFails(r)
  \/ \E s \in Viewers : View(s) \/ LoadReads(s) \/ LoadEnds(s) \/ Receive(s) \/ Leave(s)
  \/ GitChanges \/ SettingChanges

StatusSpec == StatusInit /\ [][StatusNext]_statusVars

\* The poller's fiber runs and its reads end, and streams send what they have;
\* nobody has to refresh.
FairStatusSpec ==
  StatusSpec /\ WF_statusVars(Poll) /\ \A s \in Viewers : WF_statusVars(Receive(s))

-----------------------------------------------------------------------------
(* Properties.                                                             *)

\* A viewer that was sent everything shows what is cached, although events
\* were queued before its snapshot was made and reads overtake each other.
\* The exceptions are all there are: the local part, if a first load replaced
\* what was cached under its eyes and nothing was published since.
ViewersShowTheCache ==
  \A s \in Viewers : viewers[s].at = "live" /\ viewers[s].queue = << >> =>
    /\ viewers[s].shows["remote"] = cached["remote"]
    /\ s \notin misled => viewers[s].shows["local"] = cached["local"]

\* While fetches are automatic, whoever views the status comes to see what
\* git says of the remote, whichever viewers come and go, unless polls fail.
RemoteIsFollowed ==
  \A s \in Viewers :
    []<>(viewers[s].at = "live" /\ automatic => viewers[s].shows["remote"] = git["remote"])
      \/ []<><<PollFails>>_statusVars
=============================================================================
