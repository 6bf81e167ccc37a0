-------------------------------- MODULE Page --------------------------------
(***************************************************************************)
(* The web page (packages/web/src) over the daemon's API                   *)
(* (packages/cli/src/daemon/routes.ts, server.ts): one tab's form,         *)
(* estimate and running check, each HTTP call of which may be refused or   *)
(* lost, before the daemon served it or after. The daemon is CheckStore,   *)
(* and other tabs use it too.                                              *)
(*                                                                         *)
(* A call is served in one step and answered in another, so what the page  *)
(* acts on may be stale; one that failed was served before, or is never.   *)
(* Events, wording and the report itself are left out: the daemon's final  *)
(* status carries the report.                                              *)
(***************************************************************************)
EXTENDS CheckStore

CONSTANT MaxFailures    \* MAX_TRANSIENT_FAILURES

ASSUME PageAssumption == MaxFailures \in Nat

VARIABLES
    view,       \* which phase of the App the page shows
    mine,       \* the check of the estimate or run it shows
    act,        \* the call of the button pressed last
    answer,     \* how far that call has come
    offered,    \* the check a created answer carries
    poll,       \* the poller's call, its wait, or "off": none, or it gave up
    failures,   \* the poller's transient failures in a row
    shown       \* the end a finished page shows

actVars == <<act, answer, offered>>
pollVars == <<poll, failures>>
pageVars == <<view, mine, actVars, pollVars, shown>>
allVars == <<vars, pageVars>>

Views == {"loading", "unavailable", "form", "estimate", "running", "done"}
Calls == {"none", "create", "start", "cancel"}
Answers == {"none", "sent", "awaited", "ok", "refused"}
Polls == {"off", "waiting", "sent", "not-found"} \cup States

---------------------------------------------------------------------------
(* The tab: opened with its link, and useless after a reload               *)

\* What a view holds goes with it: its call, its poller, its check.
Idle == act' = "none" /\ answer' = "none" /\ offered' = NoCheck
NotPolling == poll' = "off" /\ failures' = 0
Forgets == mine' = NoCheck /\ shown' = "running"

Open ==
    /\ view = "unavailable"
    /\ view' = "loading"
    /\ UNCHANGED <<vars, mine, actVars, pollVars, shown>>

\* health and options, both or neither.
Load ==
    /\ view = "loading"
    /\ \/ ~closed /\ view' = "form"
       \/ view' = "unavailable"
    /\ UNCHANGED <<vars, mine, actVars, pollVars, shown>>

\* The session token does not survive a reload, and no state of the page does.
Reload ==
    /\ view # "unavailable"
    /\ view' = "unavailable"
    /\ Forgets /\ NotPolling /\ Idle
    /\ UNCHANGED vars

---------------------------------------------------------------------------
(* The buttons: each disables the others of its view until answered        *)

Call(what) ==
    /\ act = "none"
    /\ act' = what
    /\ answer' = "sent"
    /\ UNCHANGED <<vars, view, mine, offered, pollVars, shown>>

Submit == view = "form" /\ Call("create")
PressStart == view = "estimate" /\ Call("start")
PressCancel == view \in {"estimate", "running"} /\ Call("cancel")

NewCheck ==
    /\ view = "done"
    /\ view' = "form"
    /\ Forgets
    /\ UNCHANGED <<vars, actVars, pollVars>>

---------------------------------------------------------------------------
(* The daemon serves a call. What the page does not tell apart is one      *)
(* answer, "refused"; the limiter's refusals are heard as the network's.   *)

Served(what) == act = what /\ answer = "sent" /\ ~closed

ServeCreate ==
    /\ Served("create")
    /\ IF preparing \/ IsActive
       THEN answer' = "refused" /\ UNCHANGED vars
       ELSE answer' = "awaited" /\ \E c \in Checks : CreateBegin(c)
    /\ UNCHANGED <<view, mine, act, offered, pollVars, shown>>

\* prepare() came back: for this page, if it still waits for that.
PrepareAnswers(what) ==
    /\ IF answer = "awaited"
       THEN answer' = what /\ offered' = (IF what = "ok" THEN pending ELSE NoCheck)
       ELSE UNCHANGED <<answer, offered>>
    /\ UNCHANGED <<view, mine, act, pollVars, shown>>

CreateAnswered ==
    \/ (PrepareFails \/ AdmitBusy) /\ PrepareAnswers("refused")
    \/ Admit /\ PrepareAnswers("ok")

ServeStart ==
    /\ Served("start")
    /\ \/ Start(mine) /\ answer' = "ok"
       \/ state[mine] # "prepared" /\ answer' = "refused" /\ UNCHANGED vars
    /\ UNCHANGED <<view, mine, act, offered, pollVars, shown>>

\* Mutated form: a check that runs is not aborted.
CancelIfPrepared(c) ==
    \/ CancelPrepared(c)
    \/ state[c] # "prepared" /\ UNCHANGED vars
CancelIfLive(c) ==
    \/ CancelPrepared(c)
    \/ CancelRunning(c)
    \/ state[c] \notin {"prepared", "running"} /\ UNCHANGED vars

ServeCancel ==
    /\ Served("cancel")
    /\ CancelIfLive(mine)
    /\ answer' = IF Has(mine) THEN "ok" ELSE "refused"
    /\ UNCHANGED <<view, mine, act, offered, pollVars, shown>>

ServeStatus ==
    /\ poll = "sent" /\ ~closed
    /\ poll' = IF Has(mine) THEN state[mine] ELSE "not-found"
    /\ UNCHANGED <<vars, view, mine, actVars, failures, shown>>

---------------------------------------------------------------------------
(* The page hears of a call: its answer, or that the network failed it     *)

Heard == {"network"} \cup ({answer} \ {"sent", "awaited"})

\* CheckForm: onCreated, or the problem under its field.
CreateHeard(what) ==
    /\ act = "create"
    /\ IF what = "ok" THEN view' = "estimate" /\ mine' = offered ELSE UNCHANGED <<view, mine>>
    /\ Idle
    /\ UNCHANGED <<vars, pollVars, shown>>

Polling == poll' = "sent" /\ failures' = 0

AnyAnswerStarts(what) == TRUE    \* mutated form: the error is swallowed, as cancel() does
Started(what) == what = "ok"

\* EstimateView: onStarted, which mounts the RunView, or the problem.
StartHeard(what) ==
    /\ act = "start"
    /\ IF Started(what) THEN view' = "running" /\ Polling ELSE UNCHANGED <<view, pollVars>>
    /\ Idle
    /\ UNCHANGED <<vars, mine, shown>>

\* EstimateView leaves whatever the daemon said ...
EstimateCancelHeard ==
    /\ act = "cancel" /\ view = "estimate"
    /\ view' = "form"
    /\ Forgets /\ Idle
    /\ UNCHANGED <<vars, pollVars>>

\* ... and RunView stays, its button disabled for good once the daemon agreed.
RunCancelHeard(what) ==
    /\ act = "cancel" /\ view = "running"
    /\ IF what = "ok" THEN answer' = "none" /\ UNCHANGED <<act, offered>> ELSE Idle
    /\ UNCHANGED <<vars, view, mine, pollVars, shown>>

ActHeard ==
    answer # "none" /\ \E what \in Heard :
        \/ CreateHeard(what) \/ StartHeard(what)
        \/ EstimateCancelHeard \/ RunCancelHeard(what)

---------------------------------------------------------------------------
(* pollCheck()                                                             *)

\* A cancel still out asks an ended check, and the view that sent it is gone.
StatusFinal ==
    /\ poll \in Final
    /\ shown' = poll
    /\ view' = "done"
    /\ NotPolling /\ Idle
    /\ UNCHANGED <<vars, mine>>

StatusRunning ==
    /\ poll = "running"
    /\ poll' = "waiting"
    /\ failures' = 0
    /\ UNCHANGED <<vars, view, mine, actVars, shown>>

NeverCounted == failures    \* mutated form
Counted == failures + 1

TooMany(count) == count > MaxFailures

\* The network may fail any call, answered or not, and that is tried again so often.
\* An answer that is no status, or was cut off, is not.
StatusFails ==
    /\ poll \notin {"off", "waiting"}
    /\ \/ ~TooMany(Counted) /\ poll' = "waiting" /\ failures' = Counted
       \/ (TooMany(Counted) \/ poll # "sent") /\ NotPolling
    /\ UNCHANGED <<vars, view, mine, actVars, shown>>

PollAgain ==
    /\ poll = "waiting"
    /\ poll' = "sent"
    /\ UNCHANGED <<vars, view, mine, actVars, failures, shown>>

\* "Lost track of the check": the buyer tries again.
RetryPoll ==
    /\ view = "running" /\ poll = "off"
    /\ Polling
    /\ UNCHANGED <<vars, view, mine, actVars, shown>>

---------------------------------------------------------------------------
(* What the daemon does without this page                                  *)

Theirs == Checks \ {mine, offered}

\* The other tabs: anything, but with checks this page does not show.
Others ==
    /\ ~closed
    /\ \E c \in Theirs :
          \/ CreateBegin(c) \/ Start(c)
          \/ CancelPrepared(c) \/ CancelRunning(c)
    /\ UNCHANGED pageVars

DaemonAlone ==
    /\ \/ Close
       \/ \E c \in Checks :
             \/ Expire(c) \/ ProbesFinish(c)
             \/ \E o \in Final : Settle(c, o)
    /\ UNCHANGED pageVars

PageInit ==
    /\ Init
    /\ view = "loading" /\ mine = NoCheck
    /\ act = "none" /\ answer = "none" /\ offered = NoCheck
    /\ poll = "off" /\ failures = 0
    /\ shown = "running"

User == Open \/ Reload \/ Submit \/ PressStart \/ PressCancel \/ NewCheck \/ RetryPoll

Serve == ServeCreate \/ CreateAnswered \/ ServeStart \/ ServeCancel \/ ServeStatus

PollStep == StatusFinal \/ StatusRunning \/ StatusFails \/ PollAgain

PageNext == User \/ Load \/ Serve \/ ActHeard \/ PollStep \/ Others \/ DaemonAlone

PageSpec == PageInit /\ [][PageNext]_allVars

PageRunEnds(c) == RunEnds(c) /\ UNCHANGED pageVars

\* The poller goes on, each of its calls is answered or fails, and a run ends.
\* Nothing is asked of the buyer, or of the network but that it does either.
PageFairSpec ==
    /\ PageSpec
    /\ WF_allVars(ServeStatus \/ PollStep)
    /\ \A c \in Checks : WF_allVars(PageRunEnds(c))

---------------------------------------------------------------------------
(* Properties                                                              *)

\* The page's variables keep their types (CheckStore has its own invariant).
PageTypeOK ==
    /\ view \in Views
    /\ mine \in Checks \cup {NoCheck}
    /\ act \in Calls
    /\ answer \in Answers
    /\ offered \in Checks \cup {NoCheck}
    /\ poll \in Polls
    /\ failures \in 0..MaxFailures
    /\ shown \in {"running"} \cup Final

\* What the page shows is so: a run it shows was started, and the end it shows is
\* how the check ended, whatever was lost, refused, cancelled or reloaded
\* between, and whatever another tab did.
DisplayIsTrue ==
    /\ view = "running" => state[mine] \notin {"absent", "prepared"}
    /\ view = "done" => state[mine] \in {shown, "evicted"}

\* A cancel the daemon agreed to is one: the check has ended or its run was told
\* to stop, even when it had been started behind a lost answer.
CancelIsHeeded ==
    act = "cancel" /\ answer \in {"ok", "none"} /\ state[mine] = "running" => mine \in aborted

\* The page never polls for ever: it comes to an end of the check, or it gives up
\* and says so, however often the network fails and recovers.
PollingEnds == poll # "off" ~> poll = "off"

\* "The daemon forgets an unstarted check on its own; leaving is still right."
\* (EstimateView.tsx:232): leaving an estimate leaves no run behind that was not
\* told to stop.
LeavingIsRight ==
    [][view = "estimate" /\ view' = "form" /\ state[mine] = "running" => mine \in aborted]_allVars
=============================================================================
