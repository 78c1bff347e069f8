-------------------------- MODULE OnboardingProofs --------------------------
(***************************************************************************)
(* Gate, listeners and nodes agree, for any number of nodes and any        *)
(* limits: the invariant OnboardingInv is inductive.  The gate moves only  *)
(* by tryAcquire and release, each with the listener's own flag and its    *)
(* poll; a node's session moves only by the LOGIN that offers the hub's.   *)
(***************************************************************************)
EXTENDS Onboarding

Gates == [holder : Nodes \cup {Nobody}, line : Seq(Nodes), denials : Nat]
LineSound(g) == g \in Gates /\ Distinct(g.line) /\ ~Holds(g.line, g.holder)

Logins == [acked : BOOLEAN, retries : 0..MaxLoginRetries, relogin : BOOLEAN,
           confirmed : BOOLEAN, pending : BOOLEAN, session : Sessions,
           synced : BOOLEAN, push : BOOLEAN]
Holdings == [age : 0..HoldPolls-1, confirmed : BOOLEAN, since : Nat, heard : BOOLEAN]

-----------------------------------------------------------------------------
(* The gate *)

LEMMA NobodyWaits == ASSUME NEW q \in Seq(Nodes) PROVE ~Holds(q, Nobody)
  BY NobodyAssumption DEF Holds

LEMMA EnqueueSound ==
  ASSUME NEW g, LineSound(g), NEW n \in Nodes, g.holder # n
  PROVE  LineSound(Enqueue(g, n)) /\ Enqueue(g, n).holder = g.holder
  <1>1. CASE InLine(g, n) \/ Len(g.line) = MaxWaiters
    BY <1>1 DEF Enqueue
  <1>2. CASE ~(InLine(g, n) \/ Len(g.line) = MaxWaiters)
    <2>1. Enqueue(g, n) = [g EXCEPT !.line = Append(g.line, n)]
      BY <1>2 DEF Enqueue
    <2>2. Append(g.line, n) \in Seq(Nodes) /\ Distinct(Append(g.line, n))
          /\ ~Holds(Append(g.line, n), g.holder)
      BY <1>2, NewcomerJoins DEF LineSound, Gates, InLine
    <2> QED
      BY <2>1, <2>2 DEF LineSound, Gates
  <1> QED
    BY <1>1, <1>2

LEMMA GrantSound ==
  ASSUME NEW g, LineSound(g), NEW n \in Nodes
  PROVE  LineSound(Grant(g, n)) /\ Grant(g, n).holder = n
  <1>1. Forget(g, n).line = Leave(g.line, n)
    BY DEF Forget, LineSound, Gates
  <1> QED
    BY <1>1, OthersStay DEF Grant, LineSound, Gates

\* tryAcquire takes the gate from nobody: it stays with its holder or goes from
\* nobody to the one who asks.
LEMMA TryAcquireSound ==
  ASSUME NEW g, LineSound(g), NEW n \in Nodes
  PROVE  /\ LineSound(TryAcquire(g, n))
         /\ \/ TryAcquire(g, n).holder = g.holder
            \/ g.holder = Nobody /\ TryAcquire(g, n).holder = n
  <1>1. CASE g.holder = n
    BY <1>1 DEF TryAcquire
  <1>2. CASE g.holder \notin {n, Nobody}
    BY <1>2, EnqueueSound DEF TryAcquire
  <1>3. CASE g.holder = Nobody
    <2>0. Nobody # n
      BY NobodyAssumption
    <2>1. CASE FirstInLine(g, n)
      BY <1>3, <2>0, <2>1, GrantSound DEF TryAcquire
    <2>2. CASE ~FirstInLine(g, n) /\ g.denials + 1 <= 2 * Len(g.line) + 2
      <3>1. LineSound([g EXCEPT !.denials = @ + 1]) /\ [g EXCEPT !.denials = @ + 1].holder = g.holder
        BY DEF LineSound, Gates
      <3> QED
        BY <1>3, <2>0, <2>2, <3>1, EnqueueSound DEF TryAcquire
    <2>3. CASE ~FirstInLine(g, n) /\ ~(g.denials + 1 <= 2 * Len(g.line) + 2)
      <3> DEFINE p == [g EXCEPT !.line = Tail(@), !.denials = 0]
      <3>1. Tail(g.line) \in Seq(Nodes) /\ Distinct(Tail(g.line))
        BY <2>3, HeadLeaves DEF LineSound, Gates, FirstInLine
      <3>2. LineSound(p) /\ p.holder = Nobody
        BY <1>3, <3>1, NobodyWaits DEF LineSound, Gates
      <3>3. TryAcquire(g, n) = IF FirstInLine(p, n) THEN Grant(p, n) ELSE Enqueue(p, n)
        BY <1>3, <2>0, <2>3 DEF TryAcquire
      <3> HIDE DEF p
      <3> QED
        BY <1>3, <2>0, <3>2, <3>3, EnqueueSound, GrantSound
    <2> QED
      BY <2>1, <2>2, <2>3
  <1> QED
    BY <1>1, <1>2, <1>3

\* release frees nobody else's hold.
LEMMA ReleasedSound ==
  ASSUME NEW g, LineSound(g), NEW n \in Nodes
  PROVE  /\ LineSound(Released(g, n))
         /\ Released(g, n).holder = IF g.holder = n THEN Nobody ELSE g.holder
  <1> DEFINE h == IF g.holder = n THEN Nobody ELSE g.holder
  <1>1. /\ Released(g, n) \in Gates /\ Released(g, n).line = Leave(g.line, n)
        /\ Released(g, n).holder = h
    BY OthersStay DEF Released, Forget, LineSound, Gates
  <1>2. Distinct(Leave(g.line, n)) /\ ~Holds(Leave(g.line, n), h)
    BY OthersStay, NobodyWaits DEF LineSound, Gates
  <1> QED
    BY <1>1, <1>2 DEF LineSound
-----------------------------------------------------------------------------
(* A listener's own steps *)

\* Whoever asks for the gate and has it afterwards is marked and polled.
LEMMA AcquireKeeps ==
  ASSUME OnboardingInv, NEW n \in Nodes, Acquire(n),
         NEW t \in [TimerNames -> TimerStates], timer' = [timer EXCEPT ![n] = t],
         t["poll"] = PollAfter(n)
  PROVE  /\ GateAgrees' /\ gate' \in Gates /\ held' \in [Nodes -> BOOLEAN]
         /\ hold' \in [Nodes -> Holdings]
  <1> USE DEF OnboardingInv
  <1>1. LineSound(gate)
    BY DEF TypeOK, GateAgrees, LineSound, Gates
  <1>2. /\ LineSound(gate')
        /\ gate'.holder = gate.holder \/ (gate.holder = Nobody /\ gate'.holder = n)
    BY <1>1, TryAcquireSound DEF Acquire
  <1>3. CASE held[n] \/ gate'.holder # n
    <2>1. UNCHANGED <<held, hold>> /\ t["poll"] = timer[n]["poll"]
      BY <1>3 DEF Acquire, PollAfter
    <2>2. gate'.holder = gate.holder
      BY <1>2, <1>3, NobodyAssumption DEF GateAgrees
    <2>3. \A m \in Nodes : held'[m] => timer'[m].poll # "off"
      BY <2>1 DEF GateAgrees, TypeOK
    <2> QED
      BY <1>2, <2>1, <2>2, <2>3 DEF GateAgrees, TypeOK, LineSound, Holdings
  <1>4. CASE ~held[n] /\ gate'.holder = n
    <2>1. held' = [held EXCEPT ![n] = TRUE] /\ hold' = [hold EXCEPT ![n] = NoHold]
      BY <1>4 DEF Acquire
    <2>2. t["poll"] = "next"
      BY <1>4, <2>1 DEF PollAfter, TypeOK
    <2>3. \A m \in Nodes : held'[m] <=> gate'.holder = m
      BY <1>2, <1>4, <2>1, NobodyAssumption DEF GateAgrees, TypeOK
    <2>4. \A m \in Nodes : held'[m] => timer'[m].poll # "off"
      BY <2>1, <2>2 DEF GateAgrees, TypeOK
    <2>5. hold' \in [Nodes -> Holdings]
      BY <2>1, LimitsAssumption DEF TypeOK, Holdings, NoHold
    <2> QED
      BY <1>2, <2>1, <2>3, <2>4, <2>5 DEF GateAgrees, TypeOK, LineSound
  <1> QED
    BY <1>3, <1>4

\* There is always an id that neither side nor the air holds.
LEMMA FreshIsFree ==
  ASSUME TypeOK, NEW n \in Nodes
  PROVE  FreshSession(n) \in SessionIds
  <1>1. \E s \in SessionIds : s \notin {login[n].session, node[n].session, up[n].session}
    BY DEF SessionIds
  <1> QED
    BY <1>1 DEF FreshSession

\* Nothing of the nodes moves, but for an uplink of n that has been taken off the air.
Quiet(n) ==
  /\ UNCHANGED node
  /\ UNCHANGED up \/ (up[n].kind = "sealed" /\ up' = [up EXCEPT ![n] = NoFrame])

LEMMA QuietKeeps ==
  ASSUME TypeOK, NEW n \in Nodes, Quiet(n)
  PROVE  /\ node' \in [Nodes -> [session : Sessions, provisioned : BOOLEAN]]
         /\ up' \in [Nodes -> {NoFrame} \cup Sealeds \cup Registers]
         /\ \A m \in Nodes : /\ up'[m].kind = "sealed" => up'[m] = up[m]
                             /\ up[m].kind = "register" => up'[m] = up[m]
  <1>1. node' \in [Nodes -> [session : Sessions, provisioned : BOOLEAN]]
    BY DEF Quiet, TypeOK
  <1>2. up' \in [Nodes -> {NoFrame} \cup Sealeds \cup Registers]
    BY DEF Quiet, TypeOK
  <1>3. DOMAIN up = Nodes /\ NoFrame.kind = "none"
    BY DEF TypeOK, NoFrame
  <1>4. CASE UNCHANGED up
    BY <1>1, <1>2, <1>4
  <1>5. CASE up[n].kind = "sealed" /\ up' = [up EXCEPT ![n] = NoFrame]
    <2>1. up'[n] = NoFrame /\ \A m \in Nodes \ {n} : up'[m] = up[m]
      BY <1>3, <1>5
    <2> QED
      BY <1>1, <1>2, <1>3, <1>5, <2>1
  <1> QED
    BY <1>4, <1>5 DEF Quiet

\* A LOGIN counts the node out until it answers.
LEMMA SendLoginKeeps ==
  ASSUME TypeOK, FramesAgree, NEW n \in Nodes, NEW l \in Logins, l.session = login[n].session,
         SendLogin(n, l), Quiet(n)
  PROVE  /\ login' \in [Nodes -> Logins] /\ down' \in [Nodes -> {NoFrame} \cup LoginFrames]
         /\ login'[n].retries = l.retries /\ \A m \in Nodes \ {n} : login'[m] = login[m]
         /\ FramesAgree'
  <1> DEFINE s == IF l.pending THEN l.session ELSE FreshSession(n)
             new == [l EXCEPT !.confirmed = FALSE, !.relogin = TRUE, !.pending = TRUE, !.session = s]
             frame == [kind |-> "login", session |-> s, register |-> AsksRegister(l), rebooted |-> ~l.acked]
  <1>1. s \in Sessions
    BY FreshIsFree DEF Sessions, Logins
  <1>2. login' = [login EXCEPT ![n] = new] /\ down' = [down EXCEPT ![n] = frame]
    BY DEF SendLogin
  <1>3. /\ new \in Logins /\ new.session = s /\ new.relogin /\ new.retries = l.retries
        /\ frame \in LoginFrames /\ frame.session = s
    BY <1>1 DEF Logins, LoginFrames, AsksRegister
  <1> HIDE DEF s, new, frame
  <1>4. /\ login \in [Nodes -> Logins] /\ down \in [Nodes -> {NoFrame} \cup LoginFrames]
    BY DEF TypeOK, Logins
  <1>5. FramesAgree'
    BY <1>2, <1>3, <1>4, QuietKeeps DEF FramesAgree, Quiet
  <1> QED
    BY <1>2, <1>3, <1>4, <1>5

\* do_login_and_arm_retry_, whoever calls it and whatever else it has set of its own.
LEMMA DoLoginKeeps ==
  ASSUME OnboardingInv, NEW n \in Nodes,
         NEW l \in Logins, l.session = login[n].session, l.retries = login[n].retries,
         l.relogin = login[n].relogin, l.confirmed => login[n].confirmed,
         NEW t \in [TimerNames -> TimerStates], t["poll"] = timer[n]["poll"],
         t["retry"] = timer[n]["retry"],
         DoLogin(n, l, t), Quiet(n)
  PROVE  OnboardingInv'
  <1> USE DEF OnboardingInv
  <1>1. Acquire(n)
    BY DEF DoLogin
  <1>2. CASE ~Granted(n)
    <2> DEFINE u == [t EXCEPT !["startup"] = "next"]
    <2>1. timer' = [timer EXCEPT ![n] = u] /\ login' = [login EXCEPT ![n] = l] /\ UNCHANGED down
      BY <1>2 DEF DoLogin
    <2>2. u \in [TimerNames -> TimerStates] /\ u["poll"] = timer[n]["poll"] /\ u["retry"] = timer[n]["retry"]
      BY DEF TimerNames, TimerStates
    <2> HIDE DEF u
    <2>3. PollAfter(n) = timer[n].poll
      BY <1>1, <1>2 DEF Acquire, Granted, PollAfter
    <2>4. /\ GateAgrees' /\ gate' \in Gates /\ held' \in [Nodes -> BOOLEAN] /\ hold' \in [Nodes -> Holdings]
      BY <1>1, <2>1, <2>2, <2>3, AcquireKeeps
    <2>5. FramesAgree' /\ RetriesLeft'
      BY <2>1, <2>2, QuietKeeps DEF FramesAgree, RetriesLeft, TypeOK, Quiet
    <2>6. TypeOK'
      BY <2>1, <2>2, <2>4, QuietKeeps DEF TypeOK, Gates, Holdings, Logins
    <2> QED
      BY <2>4, <2>5, <2>6
  <1>3. CASE Granted(n)
    <2> DEFINE u == [t EXCEPT !["retry"] = "later", !["poll"] = PollAfter(n)]
               k == [l EXCEPT !.acked = FALSE, !.retries = 0]
    <2>1. timer' = [timer EXCEPT ![n] = u] /\ SendLogin(n, k)
      BY <1>3 DEF DoLogin
    <2>2. PollAfter(n) \in TimerStates
      BY DEF PollAfter, TimerStates, TypeOK, TimerNames
    <2>3. u \in [TimerNames -> TimerStates] /\ u["poll"] = PollAfter(n)
      BY <2>2 DEF TimerNames, TimerStates
    <2>4. k \in Logins /\ k.session = login[n].session /\ k.retries = 0
      <3>1. 0 \in 0..MaxLoginRetries
        BY LimitsAssumption
      <3> QED
        BY <3>1 DEF Logins
    <2> HIDE DEF u, k
    <2>5. /\ GateAgrees' /\ gate' \in Gates /\ held' \in [Nodes -> BOOLEAN] /\ hold' \in [Nodes -> Holdings]
      BY <1>1, <2>1, <2>3, AcquireKeeps
    <2>6. /\ login' \in [Nodes -> Logins] /\ down' \in [Nodes -> {NoFrame} \cup LoginFrames]
          /\ login'[n].retries = 0 /\ \A m \in Nodes \ {n} : login'[m] = login[m]
          /\ FramesAgree'
      BY <2>1, <2>4, SendLoginKeeps
    <2>7. RetriesLeft'
      <3>1. \A m \in Nodes \ {n} : timer'[m] = timer[m]
        BY <2>1 DEF TypeOK
      <3>2. 0 < MaxLoginRetries
        BY LimitsAssumption
      <3> QED
        BY <2>6, <3>1, <3>2 DEF RetriesLeft
    <2>8. TypeOK'
      BY <2>1, <2>3, <2>5, <2>6, QuietKeeps DEF TypeOK, Gates, Holdings, Logins
    <2> QED
      BY <2>5, <2>6, <2>7, <2>8
  <1> QED
    BY <1>2, <1>3
LEMMA StartupKeeps ==
  ASSUME OnboardingInv, NEW n \in Nodes, StartupTimer(n)
  PROVE  OnboardingInv'
  <1>1. /\ Fired(n, "startup") \in [TimerNames -> TimerStates]
        /\ Fired(n, "startup")["poll"] = timer[n]["poll"]
        /\ Fired(n, "startup")["retry"] = timer[n]["retry"]
    BY DEF Fired, OnboardingInv, TypeOK, TimerNames, TimerStates
  <1>2. login[n] \in Logins
    BY DEF OnboardingInv, TypeOK, Logins
  <1> QED
    BY <1>1, <1>2, DoLoginKeeps DEF StartupTimer, Quiet

LEMMA RetryKeeps ==
  ASSUME OnboardingInv, NEW n \in Nodes, RetryTimer(n)
  PROVE  OnboardingInv'
  <1> USE DEF OnboardingInv
  <1>0. login[n] \in Logins /\ login[n].retries < MaxLoginRetries
    BY DEF RetryTimer, Due, RetriesLeft, TypeOK, Logins
  <1>5. UNCHANGED <<node, up>>
    BY DEF RetryTimer
  <1>6. timer[n] \in [TimerNames -> TimerStates]
    BY DEF TypeOK
  <1>1. CASE login[n].acked
    <2> DEFINE u == [timer[n] EXCEPT !["retry"] = "off"]
    <2>1. timer' = [timer EXCEPT ![n] = u] /\ UNCHANGED <<gate, held, hold, login, down>>
      BY <1>1 DEF RetryTimer, TypeOK, TimerNames
    <2>2. u \in [TimerNames -> TimerStates] /\ u["poll"] = timer[n]["poll"] /\ u["retry"] = "off"
      BY DEF TypeOK, TimerNames, TimerStates
    <2> HIDE DEF u
    <2>3. TypeOK'
      BY <1>5, <2>1, <2>2 DEF TypeOK
    <2> QED
      BY <1>5, <2>1, <2>2, <2>3 DEF GateAgrees, FramesAgree, RetriesLeft, TypeOK
  <1>2. CASE Acquire(n) /\ ~Granted(n) /\ timer' = [timer EXCEPT ![n].retry = "next"]
             /\ UNCHANGED <<login, down>>
    <2> DEFINE u == [timer[n] EXCEPT !["retry"] = "next"]
    <2>1. timer' = [timer EXCEPT ![n] = u] /\ UNCHANGED <<login, down>>
      BY <1>2 DEF TypeOK, TimerNames
    <2>2. u \in [TimerNames -> TimerStates] /\ u["poll"] = timer[n]["poll"]
      BY DEF TypeOK, TimerNames, TimerStates
    <2> HIDE DEF u
    <2>3. u["poll"] = PollAfter(n)
      BY <1>2, <2>2 DEF Acquire, Granted, PollAfter
    <2>4. /\ GateAgrees' /\ gate' \in Gates /\ held' \in [Nodes -> BOOLEAN] /\ hold' \in [Nodes -> Holdings]
      BY <1>2, <2>1, <2>2, <2>3, AcquireKeeps
    <2>5. TypeOK'
      BY <1>5, <2>1, <2>2, <2>4 DEF TypeOK, Gates, Holdings
    <2> QED
      BY <1>0, <1>5, <2>1, <2>4, <2>5 DEF FramesAgree, RetriesLeft, TypeOK
  <1>3. CASE /\ Acquire(n) /\ Granted(n)
             /\ login[n].retries + 1 < MaxLoginRetries
             /\ timer' = [timer EXCEPT ![n].retry = "later", ![n].poll = PollAfter(n)]
             /\ SendLogin(n, [login[n] EXCEPT !.retries = @ + 1])
    <2> DEFINE u == [timer[n] EXCEPT !["retry"] = "later", !["poll"] = PollAfter(n)]
               k == [login[n] EXCEPT !.retries = @ + 1]
    <2>1. timer' = [timer EXCEPT ![n] = u] /\ SendLogin(n, k)
      BY <1>3 DEF TypeOK, TimerNames
    <2>2. PollAfter(n) \in TimerStates
      BY DEF PollAfter, TimerStates, TypeOK, TimerNames
    <2>3. u \in [TimerNames -> TimerStates] /\ u["poll"] = PollAfter(n)
      BY <1>6, <2>2 DEF TimerNames, TimerStates
    <2>4. /\ k \in Logins /\ k.session = login[n].session /\ k.retries < MaxLoginRetries
      <3>1. login[n].retries + 1 \in 0..MaxLoginRetries
        BY <1>0, <1>3, LimitsAssumption DEF Logins
      <3> QED
        BY <1>0, <1>3, <3>1 DEF Logins
    <2> HIDE DEF u, k
    <2>5. /\ GateAgrees' /\ gate' \in Gates /\ held' \in [Nodes -> BOOLEAN] /\ hold' \in [Nodes -> Holdings]
      BY <1>3, <2>1, <2>3, AcquireKeeps
    <2>6. /\ login' \in [Nodes -> Logins] /\ down' \in [Nodes -> {NoFrame} \cup LoginFrames]
          /\ login'[n].retries = k.retries /\ \A m \in Nodes \ {n} : login'[m] = login[m]
          /\ FramesAgree'
      BY <1>5, <2>1, <2>4, SendLoginKeeps DEF Quiet
    <2>7. RetriesLeft'
      BY <2>1, <2>3, <2>4, <2>6 DEF RetriesLeft, TypeOK
    <2>8. TypeOK'
      BY <1>5, <2>1, <2>3, <2>5, <2>6 DEF TypeOK, Gates, Holdings, Logins
    <2> QED
      BY <2>5, <2>6, <2>7, <2>8
  <1>4. CASE /\ TryAcquire(gate, n).holder = n
             /\ login' = [login EXCEPT ![n].retries = @ + 1]
             /\ gate' = Released(TryAcquire(gate, n), n)
             /\ held' = [held EXCEPT ![n] = FALSE]
             /\ hold' = [hold EXCEPT ![n] = NoHold]
             /\ timer' = [timer EXCEPT ![n].retry = "off", ![n].poll = "off"]
             /\ UNCHANGED down
    <2> DEFINE u == [timer[n] EXCEPT !["retry"] = "off", !["poll"] = "off"]
               k == [login[n] EXCEPT !.retries = @ + 1]
    <2>1. timer' = [timer EXCEPT ![n] = u] /\ login' = [login EXCEPT ![n] = k]
      BY <1>4 DEF TypeOK, TimerNames
    <2>2. u \in [TimerNames -> TimerStates] /\ u["retry"] = "off"
      BY <1>6 DEF TimerNames, TimerStates
    <2>3. /\ k \in Logins /\ k.session = login[n].session /\ k.confirmed = login[n].confirmed
          /\ k.relogin = login[n].relogin
      <3>1. login[n].retries + 1 \in 0..MaxLoginRetries
        BY <1>0, LimitsAssumption DEF Logins
      <3> QED
        BY <1>0, <3>1 DEF Logins
    <2> HIDE DEF u, k
    <2>4. LineSound(TryAcquire(gate, n)) /\ gate.holder \in {Nobody, n}
      BY <1>4, TryAcquireSound DEF TypeOK, GateAgrees, LineSound, Gates
    <2>5. LineSound(gate') /\ gate'.holder = Nobody
      BY <1>4, <2>4, ReleasedSound
    <2>6. \A m \in Nodes : ~held'[m]
      BY <1>4, <2>4, NobodyAssumption DEF GateAgrees, TypeOK
    <2>7. GateAgrees'
      BY <2>5, <2>6, NobodyAssumption DEF GateAgrees, LineSound
    <2>8. FramesAgree' /\ RetriesLeft'
      BY <1>5, <1>4, <2>1, <2>2, <2>3 DEF FramesAgree, RetriesLeft, TypeOK
    <2>9. hold' \in [Nodes -> Holdings] /\ held' \in [Nodes -> BOOLEAN]
      BY <1>4, LimitsAssumption DEF TypeOK, Holdings, NoHold
    <2>10. gate' \in Gates /\ login' \in [Nodes -> Logins] /\ timer' \in [Nodes -> [TimerNames -> TimerStates]]
      BY <2>1, <2>2, <2>3, <2>5 DEF TypeOK, LineSound, Logins
    <2>11. TypeOK'
      BY <1>5, <1>4, <2>9, <2>10 DEF TypeOK, Gates, Holdings, Logins
    <2> QED
      BY <2>7, <2>8, <2>11
  <1> QED
    BY <1>1, <1>2, <1>3, <1>4 DEF RetryTimer

LEMMA SyncKeeps ==
  ASSUME OnboardingInv, NEW n \in Nodes, SyncTimer(n)
  PROVE  OnboardingInv'
  <1> USE DEF OnboardingInv
  <1>0. login[n] \in Logins /\ UNCHANGED <<node, up>>
    BY DEF SyncTimer, TypeOK, Logins
  <1>1. CASE login[n].synced
    <2> DEFINE u == [timer[n] EXCEPT !["sync"] = "off"]
    <2>1. timer' = [timer EXCEPT ![n] = u] /\ UNCHANGED <<gate, held, hold, login, down>>
      BY <1>1 DEF SyncTimer, TypeOK, TimerNames
    <2>2. u \in [TimerNames -> TimerStates] /\ u["poll"] = timer[n]["poll"] /\ u["retry"] = timer[n]["retry"]
      BY DEF TypeOK, TimerNames, TimerStates
    <2> HIDE DEF u
    <2>3. TypeOK'
      BY <1>0, <2>1, <2>2 DEF TypeOK
    <2> QED
      BY <1>0, <2>1, <2>2, <2>3 DEF GateAgrees, FramesAgree, RetriesLeft, TypeOK
  <1>2. CASE ~login[n].synced
    <2>1. /\ Fired(n, "sync") \in [TimerNames -> TimerStates]
          /\ Fired(n, "sync")["poll"] = timer[n]["poll"]
          /\ Fired(n, "sync")["retry"] = timer[n]["retry"]
      BY DEF Fired, TypeOK, TimerNames, TimerStates
    <2>2. DoLogin(n, login[n], Fired(n, "sync"))
      BY <1>2 DEF SyncTimer
    <2> QED
      BY <1>0, <2>1, <2>2, DoLoginKeeps DEF Quiet
  <1> QED
    BY <1>1, <1>2

LEMMA GiveUpKeeps ==
  ASSUME OnboardingInv, NEW n \in Nodes, GiveUp(n)
  PROVE  OnboardingInv'
  <1> DEFINE k == [login[n] EXCEPT !.confirmed = FALSE]
  <1>1. timer[n] \in [TimerNames -> TimerStates]
    BY DEF OnboardingInv, TypeOK
  <1>2. /\ k \in Logins /\ k.session = login[n].session /\ k.retries = login[n].retries
        /\ k.relogin = login[n].relogin /\ ~k.confirmed
    BY DEF OnboardingInv, TypeOK, Logins
  <1>3. DoLogin(n, k, timer[n]) /\ UNCHANGED <<node, up>>
    BY DEF GiveUp
  <1> HIDE DEF k
  <1> QED
    BY <1>1, <1>2, <1>3, DoLoginKeeps DEF Quiet

LEMMA PollKeeps ==
  ASSUME OnboardingInv, NEW n \in Nodes, PollTimer(n)
  PROVE  OnboardingInv'
  <1> USE DEF OnboardingInv
  <1>0. UNCHANGED <<login, node, down, up>> /\ timer[n]["poll"] = "now"
    BY DEF PollTimer, Due
  <1> DEFINE h == [hold[n] EXCEPT !.age = @ + 1, !.since = IF hold[n].confirmed THEN @ + 1 ELSE @]
  <1>1. PICK drained, owed \in BOOLEAN :
          IF Verdict(h, drained, owed) = "keep"
            THEN /\ hold' = [hold EXCEPT ![n] = h]
                 /\ timer' = [timer EXCEPT ![n].poll = "next"]
                 /\ UNCHANGED <<gate, held>>
            ELSE /\ hold' = [hold EXCEPT ![n] = NoHold]
                 /\ Release(n, Fired(n, "poll"))
    BY DEF PollTimer
  <1>2. CASE Verdict(h, drained, owed) = "keep"
    <2> DEFINE u == [timer[n] EXCEPT !["poll"] = "next"]
    <2>1. /\ timer' = [timer EXCEPT ![n] = u] /\ hold' = [hold EXCEPT ![n] = h]
          /\ UNCHANGED <<gate, held>>
      BY <1>1, <1>2 DEF TypeOK, TimerNames
    <2>2. u \in [TimerNames -> TimerStates] /\ u["poll"] = "next" /\ u["retry"] = timer[n]["retry"]
      BY DEF TypeOK, TimerNames, TimerStates
    <2>3. h.age < HoldPolls
      BY <1>2, LimitsAssumption DEF Verdict, TypeOK
    <2>4. h \in Holdings
      <3>1. hold[n] \in Holdings
        BY DEF TypeOK, Holdings
      <3>2. h.age = hold[n].age + 1 /\ HoldPolls \in Nat /\ hold[n].age \in Nat /\ hold[n].since \in Nat
        BY <3>1, LimitsAssumption DEF Holdings
      <3>3. hold[n].age + 1 \in 0..HoldPolls-1 /\ hold[n].since + 1 \in Nat
        BY <2>3, <3>2
      <3> QED
        BY <3>1, <3>3 DEF Holdings
    <2> HIDE DEF u, h
    <2>5. TypeOK'
      BY <1>0, <2>1, <2>2, <2>4 DEF TypeOK, Holdings
    <2> QED
      BY <1>0, <2>1, <2>2, <2>5 DEF GateAgrees, FramesAgree, RetriesLeft, TypeOK
  <1>3. CASE Verdict(h, drained, owed) # "keep"
    <2> DEFINE u == IF held[n] THEN [Fired(n, "poll") EXCEPT !["poll"] = "off"] ELSE Fired(n, "poll")
    <2>1. /\ timer' = [timer EXCEPT ![n] = u] /\ hold' = [hold EXCEPT ![n] = NoHold]
          /\ gate' = IF held[n] THEN Released(gate, n) ELSE gate
          /\ held' = [held EXCEPT ![n] = FALSE]
      BY <1>1, <1>3 DEF Release, Fired, TypeOK, TimerNames
    <2>2. u \in [TimerNames -> TimerStates] /\ u["retry"] = timer[n]["retry"]
      BY DEF Fired, TypeOK, TimerNames, TimerStates
    <2> HIDE DEF u
    <2>3. LineSound(gate') /\ gate'.holder = IF held[n] THEN Nobody ELSE gate.holder
      BY <2>1, ReleasedSound DEF TypeOK, GateAgrees, LineSound, Gates
    <2>4. \A m \in Nodes : /\ held'[m] <=> gate'.holder = m
                           /\ held'[m] => m # n /\ held[m]
      BY <2>1, <2>3, NobodyAssumption DEF TypeOK, GateAgrees
    <2>5. GateAgrees'
      BY <2>1, <2>3, <2>4 DEF GateAgrees, LineSound, TypeOK
    <2>6. FramesAgree' /\ RetriesLeft'
      BY <1>0, <2>1, <2>2 DEF FramesAgree, RetriesLeft, TypeOK
    <2>7. hold' \in [Nodes -> Holdings] /\ held' \in [Nodes -> BOOLEAN]
      BY <2>1, LimitsAssumption DEF TypeOK, Holdings, NoHold
    <2>8. TypeOK'
      BY <1>0, <2>1, <2>2, <2>3, <2>7 DEF TypeOK, LineSound, Gates, Holdings
    <2> QED
      BY <2>5, <2>6, <2>8
  <1> QED
    BY <1>2, <1>3
-----------------------------------------------------------------------------
(* Uplinks *)

\* The types of one listener and its node.
LEMMA OneListener ==
  ASSUME TypeOK, NEW n \in Nodes
  PROVE  /\ held[n] \in BOOLEAN /\ hold[n] \in Holdings
         /\ timer[n] \in [TimerNames -> TimerStates] /\ login[n] \in Logins
         /\ node[n] \in [session : Sessions, provisioned : BOOLEAN]
         /\ up[n].kind = "register" => up[n] \in Registers
  <1>1. up[n].kind = "register" => up[n] \in Registers
    <2>1. up[n] \in {NoFrame} \cup Sealeds \cup Registers
      BY DEF TypeOK
    <2>2. NoFrame.kind = "none" /\ \A f \in Sealeds : f.kind = "sealed"
      BY DEF NoFrame, Sealeds
    <2> QED
      BY <2>1, <2>2
  <1>2. held[n] \in BOOLEAN /\ hold[n] \in Holdings /\ timer[n] \in [TimerNames -> TimerStates]
    BY DEF TypeOK, Holdings
  <1>3. login[n] \in Logins /\ node[n] \in [session : Sessions, provisioned : BOOLEAN]
    BY DEF TypeOK, Logins
  <1> QED
    BY <1>1, <1>2, <1>3

LEMMA RegisterKeeps ==
  ASSUME OnboardingInv, NEW n \in Nodes, HandleRegister(n)
  PROVE  OnboardingInv'
  <1> USE DEF OnboardingInv
  <1> DEFINE l == login[n]
             clear == up[n].needsConfig
             k == [l EXCEPT !.synced = @ \/ clear, !.push = @ \/ (~clear /\ ~l.synced),
                            !.acked = FALSE, !.retries = 0, !.relogin = TRUE, !.pending = FALSE]
             t == [timer[n] EXCEPT !["startup"] = "later", !["retry"] = "off"]
             h == [hold[n] EXCEPT !.heard = held[n]]
             d == [node[n] EXCEPT !.provisioned = @ \/ clear]
  <1>1. /\ login' = [login EXCEPT ![n] = k] /\ timer' = [timer EXCEPT ![n] = t]
        /\ hold' = [hold EXCEPT ![n] = h] /\ node' = [node EXCEPT ![n] = d]
        /\ up' = [up EXCEPT ![n] = NoFrame] /\ UNCHANGED <<gate, held, down>>
    BY DEF HandleRegister, TypeOK, TimerNames
  <1>2. clear \in BOOLEAN
    BY OneListener DEF HandleRegister, Registers
  <1>3. k \in Logins /\ k.session = login[n].session /\ k.relogin /\ k.retries = 0
    <2>1. 0 \in 0..MaxLoginRetries /\ l \in Logins
      BY LimitsAssumption, OneListener
    <2>2. (l.synced \/ clear) \in BOOLEAN /\ (l.push \/ (~clear /\ ~l.synced)) \in BOOLEAN
      OBVIOUS
    <2> QED
      BY <2>1, <2>2 DEF Logins
  <1>4. t \in [TimerNames -> TimerStates] /\ t["poll"] = timer[n]["poll"] /\ t["retry"] = "off"
    BY OneListener DEF TimerNames, TimerStates
  <1>5. h \in Holdings
    BY OneListener DEF Holdings
  <1>6. d \in [session : Sessions, provisioned : BOOLEAN] /\ d.session = node[n].session
    <2>1. (node[n].provisioned \/ clear) \in BOOLEAN
      OBVIOUS
    <2> QED
      BY <2>1, OneListener
  <1> HIDE DEF l, clear, k, t, h, d
  <1>7. TypeOK'
    BY <1>1, <1>3, <1>4, <1>5, <1>6 DEF TypeOK, Logins, Holdings
  <1>8. GateAgrees' /\ RetriesLeft'
    BY <1>1, <1>3, <1>4 DEF TypeOK, GateAgrees, RetriesLeft
  <1>9. FramesAgree'
    BY <1>1, <1>3, <1>6 DEF TypeOK, FramesAgree, NoFrame
  <1> QED
    BY <1>7, <1>8, <1>9

LEMMA UplinkKeeps ==
  ASSUME OnboardingInv, NEW n \in Nodes, HandleUplink(n)
  PROVE  OnboardingInv'
  <1> USE DEF OnboardingInv
  <1> DEFINE k == Confirmed(login[n])
             t == IF login[n].acked THEN timer[n]
                  ELSE [timer[n] EXCEPT !["retry"] = "off",
                                        !["sync"] = IF Confirmed(login[n]).synced
                                                      THEN timer[n]["sync"] ELSE "later"]
             h == [hold[n] EXCEPT !.heard = held[n], !.confirmed = held[n]]
  <1>1. /\ login' = [login EXCEPT ![n] = k] /\ timer' = [timer EXCEPT ![n] = t]
        /\ hold' = [hold EXCEPT ![n] = h]
        /\ up' = [up EXCEPT ![n] = NoFrame] /\ UNCHANGED <<gate, held, node, down>>
    <2>1. timer' = [timer EXCEPT ![n] = t]
      BY DEF HandleUplink, TypeOK
    <2>2. hold' = [hold EXCEPT ![n] = h]
      BY DEF HandleUplink, TypeOK
    <2>3. login' = [login EXCEPT ![n] = k]
      BY DEF HandleUplink, TypeOK
    <2> QED
      BY <2>1, <2>2, <2>3 DEF HandleUplink
  <1>2. k \in Logins /\ k.session = login[n].session /\ k.retries = 0
    <2>1. 0 \in 0..MaxLoginRetries /\ login[n] \in Logins
      BY LimitsAssumption, OneListener
    <2>2. (login[n].synced \/ login[n].push) \in BOOLEAN
      OBVIOUS
    <2> QED
      BY <2>1, <2>2 DEF Confirmed, Logins
  <1>3. t \in [TimerNames -> TimerStates] /\ t["poll"] = timer[n]["poll"]
    BY OneListener DEF TimerNames, TimerStates
  <1>4. h \in Holdings
    BY OneListener DEF Holdings
  <1>5. node[n].session = login[n].session
    BY DEF HandleUplink, FramesAgree
  <1> HIDE DEF k, t, h
  <1>6. TypeOK'
    BY <1>1, <1>2, <1>3, <1>4 DEF TypeOK, Logins, Holdings
  <1>7. GateAgrees' /\ RetriesLeft'
    <2>1. GateAgrees'
      BY <1>1, <1>3 DEF TypeOK, GateAgrees
    <2>2. RetriesLeft'
      BY <1>1, <1>2, LimitsAssumption DEF TypeOK, RetriesLeft
    <2> QED
      BY <2>1, <2>2
  <1>8. FramesAgree'
    BY <1>1, <1>2, <1>5 DEF TypeOK, FramesAgree, NoFrame
  <1> QED
    BY <1>6, <1>7, <1>8

LEMMA StrayKeeps ==
  ASSUME OnboardingInv, NEW n \in Nodes, HandleStrayUplink(n)
  PROVE  OnboardingInv'
  <1>1. Quiet(n)
    BY DEF HandleStrayUplink, Quiet
  <1>2. CASE login[n].session # 0
    <2>1. UNCHANGED <<gate, held, hold, timer, login, down>>
      BY <1>2 DEF HandleStrayUplink
    <2>2. TypeOK'
      BY <1>1, <2>1, QuietKeeps DEF OnboardingInv, TypeOK
    <2> QED
      BY <1>1, <2>1, <2>2, QuietKeeps
      DEF OnboardingInv, GateAgrees, FramesAgree, RetriesLeft, Quiet
  <1>3. CASE login[n].session = 0
    <2>1. DoLogin(n, login[n], timer[n])
      BY <1>3 DEF HandleStrayUplink
    <2> QED
      BY <1>1, <2>1, DoLoginKeeps, OneListener DEF OnboardingInv
  <1> QED
    BY <1>2, <1>3
-----------------------------------------------------------------------------
(* Time, the nodes and the radio *)

LEMMA ElapseKeeps ==
  ASSUME OnboardingInv, NEW n \in Nodes, NEW t \in TimerNames, Elapse(n, t)
  PROVE  OnboardingInv'
  <1> USE DEF OnboardingInv
  <1>1. /\ timer[n][t] = "later" /\ timer' = [timer EXCEPT ![n] = [timer[n] EXCEPT ![t] = "now"]]
        /\ UNCHANGED <<gate, held, hold, login, node, down, up>>
    BY DEF Elapse, TypeOK
  <1>2. timer' \in [Nodes -> [TimerNames -> TimerStates]]
    BY <1>1 DEF TypeOK, TimerStates
  <1>3. \A m \in Nodes, u \in TimerNames : timer'[m][u] # "off" <=> timer[m][u] # "off"
    BY <1>1 DEF TypeOK
  <1>4. "poll" \in TimerNames /\ "retry" \in TimerNames
    BY DEF TimerNames
  <1>5. TypeOK'
    BY <1>1, <1>2 DEF TypeOK
  <1> QED
    BY <1>1, <1>3, <1>4, <1>5 DEF GateAgrees, FramesAgree, RetriesLeft

LEMMA TickKeeps ==
  ASSUME OnboardingInv, Tick
  PROVE  OnboardingInv'
  <1> USE DEF OnboardingInv
  <1>1. /\ timer' = [n \in Nodes |-> [t \in TimerNames |->
                        IF timer[n][t] = "next" THEN "now" ELSE timer[n][t]]]
        /\ UNCHANGED <<gate, held, hold, login, node, down, up>>
    BY DEF Tick
  <1>2. timer' \in [Nodes -> [TimerNames -> TimerStates]]
    BY <1>1 DEF TypeOK, TimerStates
  <1>3. \A m \in Nodes, u \in TimerNames : timer'[m][u] # "off" <=> timer[m][u] # "off"
    BY <1>1 DEF TypeOK
  <1>4. "poll" \in TimerNames /\ "retry" \in TimerNames
    BY DEF TimerNames
  <1>5. TypeOK'
    BY <1>1, <1>2 DEF TypeOK
  <1> QED
    BY <1>1, <1>3, <1>4, <1>5 DEF GateAgrees, FramesAgree, RetriesLeft

\* A node moves to the session it is offered, which is the hub's; one that asks for its
\* configuration first stays where it is.
LEMMA NodeLoginKeeps ==
  ASSUME OnboardingInv, NEW n \in Nodes, NodeLogin(n)
  PROVE  OnboardingInv'
  <1> USE DEF OnboardingInv
  <1>1. /\ down[n] # NoFrame /\ up[n] = NoFrame /\ down' = [down EXCEPT ![n] = NoFrame]
        /\ UNCHANGED <<gate, held, hold, timer, login>>
    BY DEF NodeLogin
  <1>2. down[n] \in LoginFrames /\ down[n].session = login[n].session /\ down[n].session \in Sessions
    BY <1>1 DEF TypeOK, FramesAgree, LoginFrames
  <1>3. down' \in [Nodes -> {NoFrame} \cup LoginFrames]
    BY <1>1 DEF TypeOK
  <1>4. GateAgrees' /\ RetriesLeft'
    BY <1>1 DEF GateAgrees, RetriesLeft
  <1>5. CASE UNCHANGED <<node, up>>
    <2>1. TypeOK'
      BY <1>1, <1>3, <1>5 DEF TypeOK
    <2> QED
      BY <1>1, <1>4, <1>5, <2>1 DEF TypeOK, FramesAgree
  <1>6. CASE /\ up' = [up EXCEPT ![n] = [kind |-> "register", session |-> 0, asked |-> TRUE,
                                        needsConfig |-> ~node[n].provisioned]]
             /\ UNCHANGED node
    <2> DEFINE r == [kind |-> "register", session |-> 0, asked |-> TRUE,
                     needsConfig |-> ~node[n].provisioned]
    <2>1. r \in Registers /\ r.kind = "register"
      BY DEF Registers
    <2>2. up' = [up EXCEPT ![n] = r] /\ UNCHANGED node
      BY <1>6
    <2> HIDE DEF r
    <2>3. TypeOK'
      BY <1>1, <1>3, <2>1, <2>2 DEF TypeOK
    <2>4. FramesAgree'
      BY <1>1, <2>1, <2>2 DEF TypeOK, FramesAgree, NoFrame
    <2> QED
      BY <1>4, <2>3, <2>4
  <1>7. CASE /\ node' = [node EXCEPT ![n].session = down[n].session]
             /\ up' = [up EXCEPT ![n] = Sealed(down[n].session)]
    <2> DEFINE d == [node[n] EXCEPT !.session = down[n].session]
    <2>1. node' = [node EXCEPT ![n] = d]
      BY <1>7 DEF TypeOK
    <2>2. d \in [session : Sessions, provisioned : BOOLEAN] /\ d.session = login[n].session
      BY <1>2, OneListener
    <2>3. /\ Sealed(down[n].session) \in Sealeds /\ Sealed(down[n].session).kind = "sealed"
          /\ Sealed(down[n].session).session = login[n].session
      BY <1>2 DEF Sealed, Sealeds
    <2> HIDE DEF d
    <2>4. TypeOK'
      <3>1. node' \in [Nodes -> [session : Sessions, provisioned : BOOLEAN]]
        BY <2>1, <2>2 DEF TypeOK
      <3>2. up' \in [Nodes -> {NoFrame} \cup Sealeds \cup Registers]
        BY <1>7, <2>3 DEF TypeOK
      <3> QED
        BY <1>1, <1>3, <3>1, <3>2 DEF TypeOK
    <2>5. FramesAgree'
      BY <1>1, <1>7, <2>1, <2>2, <2>3 DEF TypeOK, FramesAgree
    <2> QED
      BY <1>4, <2>4, <2>5
  <1> QED
    BY <1>5, <1>6, <1>7 DEF NodeLogin

LEMMA RebootKeeps ==
  ASSUME OnboardingInv, NEW n \in Nodes, NodeReboot(n)
  PROVE  OnboardingInv'
  <1> USE DEF OnboardingInv
  <1>1. UNCHANGED <<gate, held, hold, timer, login, down>>
    BY DEF NodeReboot
  <1>2. PICK p \in BOOLEAN :
          /\ node' = [node EXCEPT ![n] = [session |-> 0, provisioned |-> p]]
          /\ up' = [up EXCEPT ![n] = [kind |-> "register", session |-> 0, asked |-> FALSE,
                                     needsConfig |-> ~p]]
    BY DEF NodeReboot
  <1> DEFINE d == [session |-> 0, provisioned |-> p]
             r == [kind |-> "register", session |-> 0, asked |-> FALSE, needsConfig |-> ~p]
  <1>3. node' = [node EXCEPT ![n] = d] /\ up' = [up EXCEPT ![n] = r]
    BY <1>2
  <1>4. /\ d \in [session : Sessions, provisioned : BOOLEAN]
        /\ r \in Registers /\ r.kind = "register" /\ ~r.asked
    BY DEF Registers, Sessions
  <1> HIDE DEF d, r
  <1>5. TypeOK'
    BY <1>1, <1>3, <1>4 DEF TypeOK
  <1>6. FramesAgree'
    BY <1>1, <1>3, <1>4 DEF TypeOK, FramesAgree
  <1> QED
    BY <1>1, <1>5, <1>6 DEF GateAgrees, RetriesLeft

\* What is lost is a LOGIN, an uplink or a REGISTER that was asked for; none of them told of
\* a session left behind.
LEMMA LostKeeps ==
  ASSUME OnboardingInv, NEW n \in Nodes, Lost(n)
  PROVE  OnboardingInv'
  <1> USE DEF OnboardingInv
  <1>1. UNCHANGED <<gate, held, hold, timer, login, node>>
    BY DEF Lost
  <1>2. CASE down' = [down EXCEPT ![n] = NoFrame] /\ UNCHANGED up
    <2>1. TypeOK'
      BY <1>1, <1>2 DEF TypeOK
    <2> QED
      BY <1>1, <1>2, <2>1 DEF TypeOK, GateAgrees, FramesAgree, RetriesLeft
  <1>3. CASE /\ up[n].kind = "sealed" \/ (up[n].kind = "register" /\ up[n].asked)
             /\ up' = [up EXCEPT ![n] = NoFrame]
             /\ UNCHANGED down
    <2>1. TypeOK'
      BY <1>1, <1>3 DEF TypeOK
    <2>2. FramesAgree'
      BY <1>1, <1>3 DEF TypeOK, FramesAgree, NoFrame
    <2> QED
      BY <1>1, <2>1, <2>2 DEF GateAgrees, RetriesLeft
  <1> QED
    BY <1>2, <1>3 DEF Lost

-----------------------------------------------------------------------------
LEMMA InitOnboarding == Init => OnboardingInv
  <1> SUFFICES ASSUME Init PROVE OnboardingInv
    OBVIOUS
  <1>1. /\ gate \in Gates /\ Distinct(gate.line) /\ ~Holds(gate.line, gate.holder)
        /\ \A n \in Nodes : ~held[n] /\ gate.holder # n
    BY NobodyAssumption DEF Init, Gates, Distinct, Holds
  <1>2. GateAgrees
    BY <1>1 DEF GateAgrees
  <1>3. hold \in [Nodes -> Holdings] /\ held \in [Nodes -> BOOLEAN]
    BY LimitsAssumption DEF Init, Holdings, NoHold
  <1>4. timer \in [Nodes -> [TimerNames -> TimerStates]]
    BY DEF Init, TimerNames, TimerStates
  <1>5. login \in [Nodes -> Logins] /\ \A n \in Nodes : login[n].relogin /\ login[n].retries < MaxLoginRetries
    <2>1. 0 \in 0..MaxLoginRetries /\ 0 < MaxLoginRetries
      BY LimitsAssumption
    <2> QED
      BY <2>1 DEF Init, Logins, Sessions
  <1>6. /\ node \in [Nodes -> [session : Sessions, provisioned : BOOLEAN]]
        /\ down \in [Nodes -> {NoFrame} \cup LoginFrames]
        /\ up \in [Nodes -> {NoFrame} \cup Sealeds \cup Registers]
    BY DEF Init, Sessions, SessionIds, Sealed, Sealeds
  <1>7. TypeOK
    BY <1>1, <1>3, <1>4, <1>5, <1>6 DEF TypeOK, Gates, Holdings, Logins
  <1>8. FramesAgree
    BY <1>5 DEF Init, FramesAgree, NoFrame, Sealed
  <1> QED
    BY <1>2, <1>5, <1>7, <1>8 DEF OnboardingInv, RetriesLeft

LEMMA OnboardingStep == OnboardingInv /\ [Next]_vars => OnboardingInv'
  <1>1. ASSUME OnboardingInv, Next PROVE OnboardingInv'
    BY <1>1, TickKeeps, StartupKeeps, RetryKeeps, SyncKeeps, PollKeeps, RegisterKeeps, UplinkKeeps,
       StrayKeeps, NodeLoginKeeps, RebootKeeps, LostKeeps, GiveUpKeeps, ElapseKeeps
    DEF Next, Timer, Uplink, Environment
  <1>2. ASSUME OnboardingInv, UNCHANGED vars PROVE OnboardingInv'
    BY <1>2 DEF vars, onboarding, session, OnboardingInv, TypeOK, GateAgrees, FramesAgree, RetriesLeft
  <1> QED
    BY <1>1, <1>2

\* Types, gate, frames and retries keep to the invariant: no hold reaches its cap, no retry its
\* limit.
THEOREM OnboardingInvHolds == Spec => []OnboardingInv
  BY InitOnboarding, OnboardingStep, PTL DEF Spec

\* Nobody holds the gate unknown to it or unpolled, nobody waits twice, and no node is counted
\* in under a session it has left, for any number of nodes and any limits.
THEOREM OnboardingAgreesHolds == Spec => []OnboardingAgrees
  <1>1. OnboardingInv => OnboardingAgrees
    BY DEF OnboardingInv, FramesAgree, OnboardingAgrees, ConfirmedIsShared
  <1> QED
    BY <1>1, OnboardingInvHolds, PTL

-----------------------------------------------------------------------------
(* One at a time *)

\* A LOGIN is put on the air by two operations, both of which have just asked for the gate.
LEMMA LoginIsGranted ==
  ASSUME TypeOK, Next, NEW n \in Nodes, down'[n] # down[n], down'[n] # NoFrame
  PROVE  gate'.holder = n
  <1>1. ASSUME NEW m \in Nodes, NEW l, NEW t, DoLogin(m, l, t) PROVE gate'.holder = n
    <2>1. Granted(m)
      BY <1>1 DEF DoLogin
    <2>2. n = m
      BY <1>1, <2>1 DEF DoLogin, SendLogin, TypeOK
    <2> QED
      BY <2>1, <2>2 DEF Granted
  <1>2. ASSUME NEW m \in Nodes, RetryTimer(m) PROVE gate'.holder = n
    <2>1. Granted(m) /\ SendLogin(m, [login[m] EXCEPT !.retries = @ + 1])
      BY <1>2 DEF RetryTimer
    <2>2. n = m
      BY <2>1 DEF SendLogin, TypeOK
    <2> QED
      BY <2>1, <2>2 DEF Granted
  <1>3. ASSUME NEW m \in Nodes, StartupTimer(m) \/ SyncTimer(m) \/ GiveUp(m) \/ HandleStrayUplink(m)
        PROVE  gate'.holder = n
    BY <1>1, <1>3 DEF StartupTimer, SyncTimer, GiveUp, HandleStrayUplink
  <1>4. ASSUME NEW m \in Nodes, NodeLogin(m) \/ Lost(m) PROVE FALSE
    BY <1>4 DEF NodeLogin, Lost, TypeOK
  <1>5. ASSUME NEW m \in Nodes, \/ PollTimer(m) \/ HandleRegister(m) \/ HandleUplink(m) \/ NodeReboot(m)
                                \/ \E t \in TimerNames : Elapse(m, t)
        PROVE  FALSE
    BY <1>5 DEF PollTimer, HandleRegister, HandleUplink, NodeReboot, Elapse
  <1> QED
    BY <1>2, <1>3, <1>4, <1>5 DEF Next, Timer, Uplink, Environment, Tick

\* A LOGIN goes out only to the node that holds the gate, whichever path sends it.
THEOREM OneOnboardingHolds == Spec => OneOnboarding
  <1>1. OnboardingInv /\ [Next]_vars
        => [\A n \in Nodes : down'[n] # down[n] /\ down'[n] # NoFrame => gate'.holder = n]_vars
    BY LoginIsGranted DEF OnboardingInv
  <1> QED
    BY <1>1, OnboardingInvHolds, PTL DEF Spec, OneOnboarding
=============================================================================
