------------------------ MODULE ReconnectModalProofs ------------------------
(***************************************************************************)
(* The safety properties of ReconnectModal, for any number of overlapping  *)
(* calls.  The inductive invariant adds what the reloads rest on: a page   *)
(* that is being loaded has nothing left of the old document, the server   *)
(* holds the circuit of a connected page, and a call that is still         *)
(* resuming while the page is connected was in flight before it was.       *)
(***************************************************************************)
EXTENDS ReconnectModal, TLAPS

\* location.reload() leaves no listener, dialog or call behind (lines 19, 37, 52).
LoadingIsFresh ==
  ~Live => display = "hide" /\ ~open /\ call = NoCall /\ stale = {}

\* A connected page can be reconnected to its circuit.
CircuitIsHeld == Connected => circuit = "held"

\* While the page is connected, only old calls may still be refused a resume.
ResumesAreStale ==
  Connected =>
    \A c \in Call : call[c] \in {"resumeOfRetry", "resume"} => c \in stale

Inv ==
  /\ TypeOK
  /\ AutoRetryArmed
  /\ DialogOnlyWhileLost
  /\ LoadingIsFresh
  /\ CircuitIsHeld
  /\ ResumesAreStale

-----------------------------------------------------------------------------
\* A page that has just been loaded is in order.
LEMMA InitInv == Init => Inv
  BY DEF Init, Inv, TypeOK, AutoRetryArmed, DialogOnlyWhileLost, LoadingIsFresh,
         CircuitIsHeld, ResumesAreStale, Display, Awaited, NoCall, Live, Connected

\* Whatever it leaves, location.reload() keeps the invariant.
LEMMA ReloadInv ==
  ASSUME Inv, Reload, UNCHANGED <<visible, reachable, circuit>>
  PROVE  Inv'
  BY DEF Reload, Inv, TypeOK, AutoRetryArmed, DialogOnlyWhileLost, LoadingIsFresh,
         CircuitIsHeld, ResumesAreStale, Display, Awaited, NoCall, Live, Connected

\* A connection that comes back makes every call in flight an old one.
LEMMA ConnectionUpInv ==
  ASSUME Inv, Live, ConnectionUp, call' \in [Call -> Awaited], circuit' = "held",
         UNCHANGED <<visible, reachable>>
  PROVE  Inv'
  BY DEF ConnectionUp, handleReconnectStateChanged, Inv, TypeOK, AutoRetryArmed,
         DialogOnlyWhileLost, LoadingIsFresh, CircuitIsHeld, ResumesAreStale,
         Display, Awaited, NoCall, Live, Connected

\* A call that fails arms the listener before it leaves.
LEMMA CatchRetryInv ==
  ASSUME Inv, Live, NEW c \in Call, CatchRetry(c), UNCHANGED <<visible, reachable, circuit>>
  PROVE  Inv'
  BY DEF CatchRetry, Finish, Inv, TypeOK, AutoRetryArmed, DialogOnlyWhileLost,
         LoadingIsFresh, CircuitIsHeld, ResumesAreStale, Display, Awaited, NoCall,
         Live, Connected

\* A new call of retry takes over from the listener it removes.
LEMMA RetryInv ==
  ASSUME Inv, Live, NEW c \in Call, retry(c), visible' \in BOOLEAN,
         UNCHANGED <<reachable, circuit>>
  PROVE  Inv'
  BY DEF retry, Start, Inv, TypeOK, AutoRetryArmed, DialogOnlyWhileLost,
         LoadingIsFresh, CircuitIsHeld, ResumesAreStale, Display, Awaited, NoCall,
         Live, Connected

\* A call in flight belongs to a live page.
LEMMA CallsAreLive ==
  ASSUME Inv, NEW c \in Call, call[c] # "none"
  PROVE  Live
  BY DEF Inv, LoadingIsFresh, NoCall

-----------------------------------------------------------------------------
\* Every step keeps the invariant.
LEMMA NextInv ==
  ASSUME Inv, [Next]_vars
  PROVE  Inv'
<1> USE DEF Live, Connected
<1>0. call \in [Call -> Awaited]
      BY DEF Inv, TypeOK
<1>1. CASE Drop
      BY <1>1 DEF Drop, handleReconnectStateChanged, Inv, TypeOK, AutoRetryArmed,
         DialogOnlyWhileLost, LoadingIsFresh, CircuitIsHeld, ResumesAreStale, Display
<1>2. CASE Pause
      BY <1>2 DEF Pause, handleReconnectStateChanged, Inv, TypeOK, AutoRetryArmed,
         DialogOnlyWhileLost, LoadingIsFresh, CircuitIsHeld, ResumesAreStale, Display
<1>3. CASE Escape
      BY <1>3 DEF Escape, Inv, TypeOK, AutoRetryArmed, DialogOnlyWhileLost,
         LoadingIsFresh, CircuitIsHeld, ResumesAreStale
<1>4. CASE AttemptSucceeds
      BY <1>0, <1>4, ConnectionUpInv DEF AttemptSucceeds
<1>5. CASE AttemptRejected
      BY <1>5, ReloadInv DEF AttemptRejected
<1>6. CASE AttemptsFail
      BY <1>6 DEF AttemptsFail, handleReconnectStateChanged, Inv, TypeOK,
         AutoRetryArmed, DialogOnlyWhileLost, LoadingIsFresh, CircuitIsHeld,
         ResumesAreStale, Display
<1>7. CASE Evict
      BY <1>7 DEF Evict, scriptVars, Inv, TypeOK, AutoRetryArmed,
         DialogOnlyWhileLost, LoadingIsFresh, CircuitIsHeld, ResumesAreStale
<1>8. CASE ServerChange
      BY <1>8 DEF ServerChange, scriptVars, Inv, TypeOK, AutoRetryArmed,
         DialogOnlyWhileLost, LoadingIsFresh, CircuitIsHeld, ResumesAreStale
<1>9. CASE Load
      BY <1>9 DEF Load, NoCall, Inv, TypeOK, AutoRetryArmed, DialogOnlyWhileLost,
         LoadingIsFresh, CircuitIsHeld, ResumesAreStale
<1>10. CASE VisibilityChange
  <2>1. visible' \in BOOLEAN /\ UNCHANGED <<reachable, circuit>>
        BY <1>10 DEF VisibilityChange, Inv, TypeOK
  <2>2. CASE listening /\ visible'
        BY <1>10, <2>1, <2>2, RetryInv DEF VisibilityChange
  <2>3. CASE ~(listening /\ visible')
        BY <1>10, <2>1, <2>3 DEF VisibilityChange, scriptVars, Inv, TypeOK,
           AutoRetryArmed, DialogOnlyWhileLost, LoadingIsFresh, CircuitIsHeld,
           ResumesAreStale
  <2> QED BY <2>2, <2>3
<1>11. ASSUME NEW c \in Call, ClickResume(c)
       PROVE  Inv'
  <2>1. call' = [call EXCEPT ![c] = "resume"] /\ call' \in [Call -> Awaited]
        BY <1>0, <1>11 DEF ClickResume, Start, Awaited
  <2>2. \A d \in Call : call'[d] # call[d] => d = c /\ call[d] = "none"
        BY <1>0, <1>11, <2>1 DEF ClickResume, Start
  <2> QED BY <1>11, <2>1, <2>2 DEF ClickResume, Paused, Inv, TypeOK, AutoRetryArmed,
             DialogOnlyWhileLost, LoadingIsFresh, CircuitIsHeld, ResumesAreStale
<1>12. ASSUME NEW c \in Call, ClickRetry(c)
       PROVE  Inv'
       BY <1>12, RetryInv DEF ClickRetry, Inv, TypeOK
<1>13. ASSUME NEW c \in Call, ReconnectReturns(c)
       PROVE  Inv'
  <2>1. Live
        BY <1>13, CallsAreLive DEF ReconnectReturns
  <2>2. CASE reachable /\ circuit = "held" /\ Finish(c) /\ ConnectionUp
    <3>1. call' \in [Call -> Awaited]
          BY <1>0, <2>2 DEF Finish, Awaited
    <3> QED BY <1>13, <2>1, <2>2, <3>1, ConnectionUpInv DEF ReconnectReturns
  <2>3. CASE /\ reachable /\ circuit = "gone"
             /\ call' = [call EXCEPT ![c] = "resumeOfRetry"]
             /\ UNCHANGED <<page, display, open, listening, stale>>
    <3>1. call' \in [Call -> Awaited] /\ call'[c] = "resumeOfRetry"
          BY <1>0, <2>3 DEF Awaited
    <3>2. ~Connected
          BY <2>3 DEF Inv, CircuitIsHeld
    <3> QED BY <1>13, <2>1, <2>3, <3>1, <3>2 DEF ReconnectReturns, Inv, TypeOK,
               AutoRetryArmed, DialogOnlyWhileLost, LoadingIsFresh, CircuitIsHeld,
               ResumesAreStale
  <2>4. CASE CatchRetry(c)
        BY <1>13, <2>1, <2>4, CatchRetryInv DEF ReconnectReturns
  <2> QED BY <1>13, <2>2, <2>3, <2>4 DEF ReconnectReturns
<1>14. ASSUME NEW c \in Call, Live, Resumed(c), UNCHANGED <<visible, reachable>>
       PROVE  Inv'
  <2>1. call' \in [Call -> Awaited]
        BY <1>0, <1>14 DEF Resumed, Finish, Awaited
  <2> QED BY <1>14, <2>1, ConnectionUpInv DEF Resumed
<1>15. ASSUME NEW c \in Call, ResumeOfRetryReturns(c)
       PROVE  Inv'
  <2>1. Live
        BY <1>15, CallsAreLive DEF ResumeOfRetryReturns
  <2>2. CASE Resumed(c)
        BY <1>14, <1>15, <2>1, <2>2 DEF ResumeOfRetryReturns
  <2>3. CASE ResumeRefused
        BY <1>15, <2>3, ReloadInv DEF ResumeOfRetryReturns, ResumeRefused
  <2>4. CASE CatchRetry(c) /\ UNCHANGED circuit
        BY <1>15, <2>1, <2>4, CatchRetryInv DEF ResumeOfRetryReturns
  <2> QED BY <1>15, <2>2, <2>3, <2>4 DEF ResumeOfRetryReturns
<1>16. ASSUME NEW c \in Call, ResumeReturns(c)
       PROVE  Inv'
  <2>1. Live /\ call[c] = "resume"
        BY <1>16, CallsAreLive DEF ResumeReturns
  <2>2. CASE Resumed(c)
        BY <1>14, <1>16, <2>1, <2>2 DEF ResumeReturns
  <2>3. CASE ResumeRefused
        BY <1>16, <2>3, ReloadInv DEF ResumeReturns, ResumeRefused
  <2>4. CASE CatchResume(c)
    <3>1. call' = [call EXCEPT ![c] = "none"] /\ call' \in [Call -> Awaited]
          BY <1>0, <2>4 DEF CatchResume, Finish, Awaited
    <3>2. display' \in Display /\ (display' \in {"hide", "failed"} => display' = display)
          BY <2>4 DEF CatchResume, Inv, TypeOK, Display
    <3>3. \A d \in Call : d # c => call'[d] = call[d]
          BY <1>0, <3>1
    <3> QED BY <1>16, <2>1, <2>4, <3>1, <3>2, <3>3 DEF ResumeReturns, CatchResume,
               Inv, TypeOK, AutoRetryArmed, DialogOnlyWhileLost, LoadingIsFresh,
               CircuitIsHeld, ResumesAreStale
  <2> QED BY <1>16, <2>2, <2>3, <2>4 DEF ResumeReturns
<1>17. CASE UNCHANGED vars
       BY <1>17 DEF vars, scriptVars, Inv, TypeOK, AutoRetryArmed,
          DialogOnlyWhileLost, LoadingIsFresh, CircuitIsHeld, ResumesAreStale
<1> QED BY <1>1, <1>2, <1>3, <1>4, <1>5, <1>6, <1>7, <1>8, <1>9, <1>10, <1>11,
           <1>12, <1>13, <1>15, <1>16, <1>17 DEF Next, Attempts, Resume, Returns

\* The invariant holds in every reachable state.
THEOREM InvHolds == Spec => []Inv
BY InitInv, NextInv, PTL DEF Spec

\* Type correctness.
THEOREM TypeCorrect == Spec => []TypeOK
<1>1. Inv => TypeOK BY DEF Inv
<1> QED BY <1>1, InvHolds, PTL

\* After Blazor has given up, coming back to the tab starts a retry or one is in
\* flight, however many calls overlap.
THEOREM RetryStaysArmed == Spec => []AutoRetryArmed
<1>1. Inv => AutoRetryArmed BY DEF Inv
<1> QED BY <1>1, InvHolds, PTL

\* The dialog never covers a connected page.
THEOREM DialogMatches == Spec => []DialogOnlyWhileLost
<1>1. Inv => DialogOnlyWhileLost BY DEF Inv
<1> QED BY <1>1, InvHolds, PTL

\* A connected page is reloaded only by a call that was already in flight when
\* the connection came back.
THEOREM ConnectedPageStays == Spec => ReloadOnlyWhenLost
<1> DEFINE Reloaded == Connected /\ page' = "loading"
           Stays == Reloaded => \E c \in stale : call[c] # "none"
<1>1. Inv /\ [Next]_vars => [Stays]_vars
  <2> SUFFICES ASSUME Inv, Next, Connected, page' = "loading"
               PROVE  \E c \in stale : call[c] # "none"
      OBVIOUS
  <2>1. PICK c \in Call : ResumeOfRetryReturns(c) \/ ResumeReturns(c)
    <3>1. page = "live" /\ display = "hide" /\ circuit = "held"
          BY DEF Connected, Live, Inv, CircuitIsHeld
    <3> QED BY <3>1 DEF Next, Drop, Pause, Escape, Attempts, AttemptSucceeds,
               AttemptRejected, AttemptsFail, Evict, ServerChange, scriptVars, Load,
               Live, Connected, VisibilityChange, retry, Resume, ClickResume,
               ClickRetry, Returns, ReconnectReturns, ConnectionUp, CatchRetry
  <2>2. call[c] \in {"resumeOfRetry", "resume"}
        BY <2>1 DEF ResumeOfRetryReturns, ResumeReturns
  <2> QED BY <2>2 DEF Inv, ResumesAreStale
<1> QED BY <1>1, InvHolds, PTL DEF Spec, ReloadOnlyWhenLost
=============================================================================
