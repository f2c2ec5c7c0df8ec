--------------------------- MODULE ReconnectModal ---------------------------
(***************************************************************************)
(* ReconnectModal.razor.js, the script of the web dashboard that shows a   *)
(* modal dialog while the page has lost its circuit and tries to get the   *)
(* circuit back.                                                           *)
(*                                                                         *)
(* JavaScript runs one task at a time: an event with its handler, or the   *)
(* settling of a promise with the code that awaits it.  Each is one action *)
(* here; between two of them any other may run, so several calls of retry  *)
(* and resume can be in flight.  Blazor is external: it drops and restores *)
(* the connection, sets a class on the dialog and raises the events the    *)
(* script listens to, and it answers Blazor.reconnect and resumeCircuit    *)
(* the way the comments of the script say.                                 *)
(***************************************************************************)
EXTENDS FiniteSets

CONSTANT Call   \* bound: calls of retry and resume in flight at a time

VARIABLES
  \* the page
  page,       \* "live", or "loading" after location.reload()
  display,    \* class of the dialog, set by Blazor; "hide" while connected
  open,       \* the dialog is shown
  listening,  \* retryWhenDocumentBecomesVisible listens to visibilitychange
  visible,    \* document.visibilityState
  call,       \* what each call of retry or resume awaits
  \* the server
  reachable,
  circuit,    \* "held" while the server can reconnect the page to its circuit
  \* history
  stale       \* calls that were in flight when the connection came back

scriptVars == <<page, display, open, listening, call, stale>>
vars == <<scriptVars, visible, reachable, circuit>>

Display == {"hide", "show", "failed", "paused", "resumeFailed"}
Awaited == {"none", "reconnect", "resumeOfRetry", "resume"}

TypeOK ==
  /\ page \in {"live", "loading"}
  /\ display \in Display
  /\ open \in BOOLEAN
  /\ listening \in BOOLEAN
  /\ visible \in BOOLEAN
  /\ call \in [Call -> Awaited]
  /\ reachable \in BOOLEAN
  /\ circuit \in {"held", "gone"}
  /\ stale \subseteq Call

\* A document that has just been loaded, its listeners set and nothing shown.
NoCall == [c \in Call |-> "none"]

Init ==
  /\ page = "live"
  /\ display = "hide"
  /\ open = FALSE
  /\ listening = FALSE
  /\ visible = TRUE
  /\ call = NoCall
  /\ reachable = TRUE
  /\ circuit = "held"
  /\ stale = {}

Live == page = "live"
Connected == Live /\ display = "hide"

Start(c, awaited) == call[c] = "none" /\ call' = [call EXCEPT ![c] = awaited]
Finish(c) == call' = [call EXCEPT ![c] = "none"]

\* location.reload(): the document, its listeners and its calls are gone.
Reload ==
  /\ page' = "loading"
  /\ display' = "hide"
  /\ open' = FALSE
  /\ listening' = FALSE
  /\ call' = NoCall
  /\ stale' = {}

\* Variant: "hide" has no branch.
HideIgnored(state) ==
  /\ open' = (state = "show" \/ open)
  /\ listening' = (state = "failed" \/ listening)

\* What the script makes of an event that is not "rejected": showModal, close,
\* addEventListener (which adds a listener once), or nothing.
handleReconnectStateChanged(state) ==
  /\ open' = (state = "show" \/ (open /\ state # "hide"))
  /\ listening' = (state = "failed" \/ listening)

\* Blazor is connected again and raises "hide".
ConnectionUp ==
  /\ display' = "hide"
  /\ handleReconnectStateChanged("hide")
  /\ stale' = {c \in Call : call'[c] # "none"}
  /\ UNCHANGED page

-----------------------------------------------------------------------------
(* Blazor, the server and the browser                                      *)

Drop ==
  /\ Connected
  /\ display' = "show"
  /\ handleReconnectStateChanged("show")
  /\ UNCHANGED <<page, visible, call, reachable, circuit, stale>>

\* The server pauses the circuit: its state can be resumed, not reconnected to.
Pause ==
  /\ Connected
  /\ display' = "paused"
  /\ handleReconnectStateChanged("show")
  /\ circuit' = "gone"
  /\ UNCHANGED <<page, visible, call, reachable, stale>>

\* The browser closes a modal dialog on the Esc key; the script has no say.
Escape ==
  /\ open
  /\ open' = FALSE
  /\ UNCHANGED <<page, display, listening, call, stale, visible, reachable, circuit>>

\* Blazor's own attempts after a drop: one is answered, or all of them fail.
AttemptSucceeds ==
  /\ Live /\ display = "show"
  /\ reachable /\ circuit = "held"
  /\ UNCHANGED call
  /\ ConnectionUp
  /\ UNCHANGED <<visible, reachable, circuit>>

\* Variant: "rejected" has no branch.
RejectedIgnored ==
  /\ Live /\ display = "show"
  /\ reachable /\ circuit = "gone"
  /\ display' = "rejected"
  /\ UNCHANGED <<page, open, listening, visible, call, reachable, circuit, stale>>

AttemptRejected ==
  /\ Live /\ display = "show"
  /\ reachable /\ circuit = "gone"
  /\ Reload
  /\ UNCHANGED <<visible, reachable, circuit>>

AttemptsFail ==
  /\ Live /\ display = "show"
  /\ display' = "failed"
  /\ handleReconnectStateChanged("failed")
  /\ UNCHANGED <<page, visible, call, reachable, circuit, stale>>

\* The server discards the circuit of a page that is not connected.
Evict ==
  /\ ~Connected
  /\ circuit' = "gone"
  /\ UNCHANGED <<scriptVars, visible, reachable>>

ServerChange ==
  /\ reachable' = ~reachable
  /\ UNCHANGED <<scriptVars, visible, circuit>>

\* The reloaded page arrives and gets a new circuit; the script runs anew.
Load ==
  /\ ~Live
  /\ reachable
  /\ page' = "live"
  /\ circuit' = "held"
  /\ UNCHANGED <<display, open, listening, visible, call, reachable, stale>>

-----------------------------------------------------------------------------
(* retry                                                                   *)

\* Variant: the circuit is resumed without an attempt to reconnect.
RetryResumes(c) ==
  /\ Start(c, "resumeOfRetry")
  /\ listening' = FALSE
  /\ UNCHANGED <<page, display, open, stale>>

\* Up to the first await; Blazor.reconnect may throw at once.
retry(c) ==
  /\ \/ Start(c, "reconnect") /\ listening' = FALSE
     \/ ~reachable /\ listening' = TRUE /\ UNCHANGED call
  /\ UNCHANGED <<page, display, open, stale>>

\* The Retry button is visible in the class "failed" only, where the style sheet
\* displays the dialog even when it has been closed.
ClickRetry(c) ==
  /\ Live /\ display = "failed"
  /\ retry(c)
  /\ UNCHANGED <<visible, reachable, circuit>>

\* The user leaves the tab or comes back to it.
VisibilityChange ==
  /\ Live
  /\ visible' = ~visible
  /\ IF listening /\ visible'
     THEN \E c \in Call : retry(c)
     ELSE UNCHANGED scriptVars
  /\ UNCHANGED <<reachable, circuit>>

\* Variant: the catch block is empty.
CatchNothing(c) ==
  /\ ~reachable
  /\ Finish(c)
  /\ stale' = stale \ {c}
  /\ UNCHANGED <<page, display, open, listening>>

\* The catch block: the server is not reachable, so wait for the user again.
CatchRetry(c) ==
  /\ ~reachable
  /\ Finish(c)
  /\ listening' = TRUE
  /\ stale' = stale \ {c}
  /\ UNCHANGED <<page, display, open>>

ReconnectReturns(c) ==
  /\ call[c] = "reconnect"
  /\ \/ /\ reachable /\ circuit = "held"
        /\ Finish(c)
        /\ ConnectionUp
     \/ /\ reachable /\ circuit = "gone"
        /\ call' = [call EXCEPT ![c] = "resumeOfRetry"]
        /\ UNCHANGED <<page, display, open, listening, stale>>
     \/ CatchRetry(c)
  /\ UNCHANGED <<visible, reachable, circuit>>

\* The server has resumed the circuit; the close() of retry repeats that of "hide".
Resumed(c) ==
  /\ reachable
  /\ Finish(c)
  /\ ConnectionUp
  /\ circuit' = "held"

\* The server has no state of the circuit left.
ResumeRefused ==
  /\ reachable
  /\ Reload
  /\ UNCHANGED circuit

ResumeOfRetryReturns(c) ==
  /\ call[c] = "resumeOfRetry"
  /\ \/ Resumed(c)
     \/ ResumeRefused
     \/ CatchRetry(c) /\ UNCHANGED circuit
  /\ UNCHANGED <<visible, reachable>>

-----------------------------------------------------------------------------
(* resume                                                                  *)

Paused == Live /\ display \in {"paused", "resumeFailed"}

\* The Resume button is visible while the circuit is paused and the dialog open.
ClickResume(c) ==
  /\ Paused /\ open
  /\ Start(c, "resume")
  /\ UNCHANGED <<page, display, open, listening, visible, reachable, circuit, stale>>

\* Variant: the class is replaced by one the style sheet does not know.
CatchResumeTypo(c) ==
  /\ ~reachable
  /\ Finish(c)
  /\ display' = IF display = "paused" THEN "resume" ELSE display
  /\ stale' = stale \ {c}
  /\ UNCHANGED <<page, open, listening, circuit>>

\* classList.replace changes nothing when the class is no longer "paused".
CatchResume(c) ==
  /\ ~reachable
  /\ Finish(c)
  /\ display' = IF display = "paused" THEN "resumeFailed" ELSE display
  /\ stale' = stale \ {c}
  /\ UNCHANGED <<page, open, listening, circuit>>

ResumeReturns(c) ==
  /\ call[c] = "resume"
  /\ Resumed(c) \/ ResumeRefused \/ CatchResume(c)
  /\ UNCHANGED <<visible, reachable>>

-----------------------------------------------------------------------------
Attempts == AttemptSucceeds \/ AttemptRejected \/ AttemptsFail
Returns(c) == ReconnectReturns(c) \/ ResumeOfRetryReturns(c) \/ ResumeReturns(c)
Resume == \E c \in Call : ClickResume(c)

Next ==
  \/ Drop \/ Pause \/ Escape \/ Attempts \/ Evict \/ ServerChange \/ Load
  \/ VisibilityChange
  \/ Resume
  \/ \E c \in Call : ClickRetry(c) \/ Returns(c)

Spec == Init /\ [][Next]_vars

\* Blazor's attempts end, its promises settle, a reload is tried until the page
\* is there, and the user switches tabs and resumes a paused session now and then.
\* Nobody has to click Retry.
Fairness ==
  /\ WF_vars(Attempts)
  /\ WF_vars(Load)
  /\ WF_vars(VisibilityChange)
  /\ WF_vars(Resume)
  /\ \A c \in Call : WF_vars(Returns(c))

FairSpec == Spec /\ Fairness

-----------------------------------------------------------------------------
(* Properties                                                              *)

\* When Blazor has given up, the page is never left without an automatic retry,
\* however its calls overlap: either coming back to the tab starts one or a call
\* is still in flight (lines 16-17, 24, 43-44).
AutoRetryArmed ==
  Live /\ display = "failed" =>
    listening \/ \E c \in Call : call[c] \in {"reconnect", "resumeOfRetry"}

\* The dialog never covers a page that is connected: no event, late answer or
\* overlap of calls leaves it open once the connection is back (lines 14-15, 39).
DialogOnlyWhileLost == Connected => ~open

\* A page that is connected is reloaded, and its state lost, only by a call that
\* was in flight when another one brought the connection back (lines 32-37, 51-52).
ReloadOnlyWhenLost ==
  [][Connected /\ page' = "loading" => \E c \in stale : call[c] # "none"]_vars

\* If the server stays reachable, a page without a connection gets one again,
\* unless the user has dismissed the dialog of a paused circuit: the only button
\* that resumes it is then hidden.
Recovers ==
  <>[]reachable => [](~Connected => <>(Connected \/ (Paused /\ ~open)))
=============================================================================
