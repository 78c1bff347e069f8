------------------------------ MODULE HubSession ------------------------------
(***************************************************************************)
(* The hub's secure session with one node: MAC-1 transmit and receive      *)
(* counters, MAC-2 session keys, and the three threads that use them       *)
(* (configuration/docs/threading-model.md):                                *)
(*                                                                         *)
(*   loop       owns the counters, changes the keys, logs in, sends and    *)
(*              re-sends commands, starts and stops the test streams;      *)
(*   esp_timer  runs one callback per test stream, which seals a frame     *)
(*              under an FCNT taken from a block the loop reserved;        *)
(*   send task  tags every copy of a queued frame under the key lock.      *)
(*                                                                         *)
(* One action is the code between two lock boundaries another thread can   *)
(* run between.  A loop handler that takes several locks is a sequence of  *)
(* actions driven by lpc; a timer callback is a sequence driven by tpc[s]. *)
(* A key is named by what it is derived from: <<session id, node nonce>>.  *)
(***************************************************************************)
EXTENDS Integers, FiniteSets

CONSTANTS
    PingStreams,     \* streams started by start_mac_ping (refused while active)
    TestStreams,     \* streams started by start_mode_test / start_drift_test
    RestartTests,    \* may a test stream be started while it already runs?
    BlockSizes,      \* sizes of the FCNT blocks a stream reserves
    FcntLimit,       \* framecrypto::kMsgidCtrLimit, 2^31 in the code
    RestoreMargin,   \* ids a restored counter skips, 64 in the code
    RxWindow,        \* mac1::kForwardWindow, 1024 in the code
    MaxLogins,       \* bound: base nonces the hub mints
    MaxEpoch,        \* bound: no REGISTER is handled past this key epoch
    MaxNodeKeys,     \* bound: node nonces the node mints
    MaxUplinks,      \* bound: uplinks the node sends in one session
    MaxBoots         \* bound: times the hub reboots

ASSUME StreamsAssumption == PingStreams \cap TestStreams = {}
ASSUME RestartAssumption == RestartTests \in BOOLEAN
ASSUME BlockAssumption   == BlockSizes \subseteq Nat \ {0}
ASSUME LimitAssumption   == FcntLimit \in Nat /\ FcntLimit > 2
ASSUME WindowAssumption  == RxWindow \in Nat \ {0} /\ RestoreMargin \in Nat
ASSUME BoundAssumption   == {MaxLogins, MaxEpoch, MaxNodeKeys, MaxUplinks, MaxBoots} \subseteq Nat

Streams == PingStreams \cup TestStreams

NoKeys  == <<0, 0>>
Key     == Nat \X Nat

\* A frame: the session id, key and FCNT of the CTR block it was encrypted
\* with, and the key epoch its FrameSeal is bound to.
Frame   == [sid : Nat, key : Key, fcnt : Nat, epoch : Nat]
Plain   == [sid |-> 0, key |-> NoKeys, fcnt |-> 0, epoch |-> 0]
NoFrame == [sid |-> 0, key |-> NoKeys, fcnt |-> FcntLimit, epoch |-> 0]   \* an empty buffer

Session(f)   == <<f.key, f.sid>>
Keystream(f) == <<f.key, f.sid, f.fcnt>>
IsSealed(f)  == f.key # NoKeys

NoCopy == [cipher |-> <<NoKeys, 0>>, tag |-> <<NoKeys, 0>>]

VARIABLES
    \* loop task
    lpc, lbase, stopping, confirmed, relogin, pending, tx, rx, stored, minted,
    \* SessionKeyStore, under keys_mutex_
    sid, live, epoch,
    \* FCNT reservations, under session_tx_mutex_
    res,
    \* esp_timer task: stream flag, timer armed, mac_ping_crypto_, callback position
    \* and locals, frame buffer
    active, timerOn, crypto, tpc, tEpoch, tFcnt, tEncrypt, tFrame, buf,
    \* tracker: the sealed frames in its queue; every sealed frame ever handed to
    \* it; whether two of those shared a keystream; the last copy tagged
    queue, handed, reused, lastCopy,
    \* the node and what it sent; uplinks the hub has accepted
    logins, nodeKey, nodeTx, nodeKeys, uplinks, accepted,
    boots

loopVars   == <<lpc, lbase, stopping, confirmed, relogin, pending, tx, rx, stored, minted>>
keyVars    == <<sid, live, epoch>>
timerVars  == <<active, timerOn, crypto, tpc, tEpoch, tFcnt, tEncrypt, tFrame, buf>>
nodeVars   == <<logins, nodeKey, nodeTx, nodeKeys, uplinks, accepted, boots>>
airVars    == <<queue, handed, reused, lastCopy>>
vars       == <<loopVars, keyVars, res, timerVars, airVars, nodeVars>>

-----------------------------------------------------------------------------
(* FcntReservation *)

Reservation == [valid : BOOLEAN, next : Nat, last : Nat, epoch : Nat]

Invalidate(r) == [valid |-> FALSE, next |-> 0, last |-> 0, epoch |-> r.epoch]

Grant(first, last, e) ==
    LET ok == first # 0 /\ first <= last
    IN  [valid |-> ok, next |-> IF ok THEN first ELSE 0, last |-> IF ok THEN last ELSE 0, epoch |-> e]

\* The FCNT take() answers when the key epoch reads e: 0 when there is none.
Taken(r, e) == IF r.valid /\ r.epoch = e THEN r.next ELSE 0

\* What take() leaves of the reservation.
AfterTake(r, e) ==
    IF ~r.valid THEN r
    ELSE IF r.epoch # e \/ r.next = r.last THEN Invalidate(r)
    ELSE [r EXCEPT !.next = @ + 1]

InvalidateAll == [s \in Streams |-> Invalidate(res[s])]

-----------------------------------------------------------------------------
(* Allocating and sealing.  Exhausted: the counter stays, the id handed    *)
(* back is FcntLimit, and the seal refuses it.                             *)

Spent     == tx >= FcntLimit - 1
Allocated == IF Spent THEN FcntLimit ELSE tx + 1
AfterAlloc == IF Spent THEN tx ELSE tx + 1

\* Mutant of Sealed: the CTR space is not checked when sealing.
SealedAnyFcnt(fcnt, encrypt) ==
    IF ~encrypt \/ sid = 0 THEN Plain
    ELSE IF live = NoKeys THEN NoFrame
    ELSE [sid |-> sid, key |-> live, fcnt |-> fcnt, epoch |-> epoch]

\* v1_frame_ and sealFrameV1: plaintext outside a session; no frame when the
\* FCNT is spent or the keys are gone; else a ciphertext under the live keys.
Sealed(fcnt, encrypt) ==
    IF ~encrypt \/ sid = 0 THEN Plain
    ELSE IF fcnt >= FcntLimit \/ live = NoKeys THEN NoFrame
    ELSE [sid |-> sid, key |-> live, fcnt |-> fcnt, epoch |-> epoch]

\* mac0_send_ of a frame just sealed.  Only sealed frames are followed; reused
\* records that one met the keystream of a frame handed over before.
HandOver(f) ==
    /\ queue' = IF IsSealed(f) THEN queue \cup {f} ELSE queue
    /\ handed' = IF IsSealed(f) THEN handed \cup {f} ELSE handed
    /\ reused' = (reused \/ (IsSealed(f) /\ \E g \in handed : Keystream(g) = Keystream(f)))
-----------------------------------------------------------------------------
\* The loop is between handlers; it spins while a stop waits for a callback.
LoopIdle == lpc = "idle" /\ stopping = {}

-----------------------------------------------------------------------------
(* Login, register and the confirming uplink: the loop changes the session *)

\* Mutant of ClearKeys: a fresh challenge leaves the old keys live.
ClearNothing == UNCHANGED keyVars

\* clearKeys: nothing happens to a peer the store does not know.
ClearKeys ==
    /\ live' = NoKeys
    /\ epoch' = IF sid = 0 THEN epoch ELSE epoch + 1
    /\ sid' = sid

\* send_login, first part.  A fresh challenge mints a base nonce and clears
\* the keys; a retry of a pending challenge keeps both.
BeginLogin ==
    IF pending # 0
      THEN /\ lbase' = pending
           /\ lpc' = "restart"
           /\ UNCHANGED <<pending, minted, keyVars>>
      ELSE /\ minted < MaxLogins
           /\ minted' = minted + 1
           /\ lbase' = minted'
           /\ pending' = lbase'
           /\ ClearKeys
           /\ lpc' = "dropLogin"

\* do_login_and_arm_retry_ and login_retry_step_ with the onboarding gate held:
\* from a startup, register or retry timer, an uplink for which the hub has no
\* base nonce, an exhausted counter, or a config change.
SendLogin ==
    /\ LoopIdle
    /\ BeginLogin
    /\ UNCHANGED <<stopping, confirmed, relogin, tx, rx, stored, res, timerVars, airVars, nodeVars>>

\* Mutant of DropKeyedState: the stored frame outlives its keys.
DropBlocksOnly ==
    /\ lpc \in {"dropLogin", "dropRegister"}
    /\ res' = InvalidateAll
    /\ lpc' = IF lpc = "dropLogin" THEN "restart" ELSE "idle"
    /\ UNCHANGED <<lbase, stopping, confirmed, relogin, pending, stored, tx, rx, minted, keyVars, timerVars,
                   airVars, nodeVars>>

\* clearSessionKeys_, after the store: the reserved blocks and the Control
\* channel's stored frame go with the keys.
DropKeyedState ==
    /\ lpc \in {"dropLogin", "dropRegister"}
    /\ res' = InvalidateAll
    /\ stored' = NoFrame
    /\ lpc' = IF lpc = "dropLogin" THEN "restart" ELSE "idle"
    /\ UNCHANGED <<lbase, stopping, confirmed, relogin, pending, tx, rx, minted, keyVars, timerVars,
                   airVars, nodeVars>>

\* send_login: both counters restart, no reserved FCNT survives, and the
\* session is unconfirmed.
RestartCounters ==
    /\ lpc = "restart"
    /\ tx' = 0 /\ rx' = 0
    /\ res' = InvalidateAll
    /\ confirmed' = FALSE /\ relogin' = TRUE
    /\ lpc' = "setid"
    /\ UNCHANGED <<lbase, stopping, pending, stored, minted, keyVars, timerVars, airVars, nodeVars>>

\* SessionKeyStore::setSessionId: a new id starts a key epoch, the keys stay.
SetSessionId(base) ==
    /\ sid' = base
    /\ epoch' = IF sid = base THEN epoch ELSE epoch + 1
    /\ live' = live

\* send_login: setSessionId, allocate the LOGIN's FCNT, send it.
PublishLogin ==
    /\ lpc = "setid"
    /\ SetSessionId(lbase)
    /\ tx' = AfterAlloc
    /\ logins' = logins \cup {lbase}
    /\ lpc' = "idle"
    /\ lbase' = 0
    /\ UNCHANGED <<stopping, confirmed, relogin, pending, rx, stored, minted, res, timerVars,
                   airVars, nodeKey, nodeTx, nodeKeys, uplinks, accepted, boots>>

\* Mutant of HandleRegister: commands are not held back for the relogin.
HandleRegisterUnmarked ==
    /\ LoopIdle
    /\ epoch < MaxEpoch
    /\ pending' = 0
    /\ ClearKeys
    /\ lpc' = "dropRegister"
    /\ UNCHANGED <<lbase, stopping, confirmed, relogin, tx, rx, stored, minted, res, timerVars, airVars,
                   nodeVars>>

\* handle_register_: the node restarted; its keys go, the next login is fresh.
HandleRegister ==
    /\ LoopIdle
    /\ epoch < MaxEpoch
    /\ relogin' = TRUE
    /\ pending' = 0
    /\ ClearKeys
    /\ lpc' = "dropRegister"
    /\ UNCHANGED <<lbase, stopping, confirmed, tx, rx, stored, minted, res, timerVars, airVars, nodeVars>>

\* admit_frame_ and the uplink pipeline up to a verified tag.  A session-opening
\* uplink yields a candidate key unless the live keys belong to this session.
NeedsCandidate(u) == u.opening /\ (live = NoKeys \/ live[1] # sid)
UplinkKey(u)      == IF NeedsCandidate(u) THEN <<sid, u.key[2]>> ELSE live

\* Mutant of Admitted: the last accepted counter value is admitted again.
AdmittedAgain(u) == u.fcnt >= rx /\ u.fcnt <= rx + RxWindow

\* admit_frame_: a forward step within the window; nothing is committed yet.
Admitted(u) == u.fcnt > rx /\ u.fcnt <= rx + RxWindow

\* verifyUplinkV1: the tag covers the session id and fits the key it is tried with.
Verified(u) ==
    /\ UplinkKey(u) # NoKeys
    /\ u.key = UplinkKey(u) /\ u.key[1] = sid

\* handle_encrypted_ up to uplink_verify_.
Acceptable(u) ==
    /\ LoopIdle
    /\ Admitted(u)
    /\ sid # 0
    /\ Verified(u)
    /\ u.fcnt < FcntLimit

\* commit_rx_msgid_: the counter moves only for an authentic frame.
CommitFcnt(u) ==
    /\ rx' = u.fcnt
    /\ accepted' = accepted \cup {<<u.key, u.fcnt>>}

\* SessionKeyStore::install.
Install(k) ==
    /\ live' = k
    /\ epoch' = epoch + 1
    /\ sid' = sid

\* uplink_accept_: commit the counter, install the candidate.
AcceptUplink(u) ==
    /\ Acceptable(u)
    /\ CommitFcnt(u)
    /\ IF NeedsCandidate(u)
         THEN /\ Install(UplinkKey(u))
              /\ lpc' = "installed"
         ELSE /\ UNCHANGED keyVars
              /\ lpc' = "confirm"
    /\ UNCHANGED <<lbase, stopping, confirmed, relogin, pending, tx, stored, minted, res, timerVars,
                   airVars, logins, nodeKey, nodeTx, nodeKeys, uplinks, boots>>

\* installSessionKeys_ after the store, then confirm_session_.
ConfirmSession ==
    /\ lpc \in {"installed", "confirm"}
    /\ res' = IF lpc = "installed" THEN InvalidateAll ELSE res
    /\ confirmed' = TRUE /\ relogin' = FALSE
    /\ pending' = 0
    /\ lpc' = "idle"
    /\ UNCHANGED <<lbase, stopping, tx, rx, stored, minted, keyVars, timerVars, airVars, nodeVars>>

\* dlv_give_up_: the session is presumed dead.  do_login_and_arm_retry_ logs in
\* at once if this node gets the onboarding gate; if another node holds it,
\* only a poll timer is armed (a later SendLogin).
GiveUp(gate) ==
    /\ LoopIdle
    /\ stored # NoFrame
    /\ confirmed' = FALSE
    /\ stored' = NoFrame
    /\ IF gate THEN BeginLogin ELSE UNCHANGED <<lpc, lbase, pending, minted, keyVars>>
    /\ UNCHANGED <<stopping, relogin, tx, rx, res, timerVars, airVars, nodeVars>>

-----------------------------------------------------------------------------
(* Commands.  The allocation, the seal and the hand-over are one action:   *)
(* only the loop allocates and only the loop changes the keys.             *)

\* A Fire request (TimeSync, config): one frame, nothing stored.
SendFire ==
    /\ LoopIdle
    /\ LET f == Sealed(Allocated, confirmed)
       IN  HandOver(f)
    /\ tx' = AfterAlloc
    /\ UNCHANGED <<lpc, lbase, stopping, confirmed, relogin, pending, rx, stored, minted, keyVars, res,
                   timerVars, lastCopy, nodeVars>>

\* A Control command: deferred while a relogin is pending, packed once and
\* stored so a retry re-sends the same bytes.
SendControl ==
    /\ LoopIdle
    /\ ~relogin
    /\ LET f == Sealed(Allocated, confirmed)
       IN  HandOver(f) /\ stored' = f
    /\ tx' = AfterAlloc
    /\ UNCHANGED <<lpc, lbase, stopping, confirmed, relogin, pending, rx, minted, keyVars, res, timerVars,
                   lastCopy, nodeVars>>

ResendControl ==
    /\ LoopIdle
    /\ ~relogin
    /\ stored # NoFrame
    /\ queue' = IF IsSealed(stored) THEN queue \cup {stored} ELSE queue
    /\ UNCHANGED <<loopVars, keyVars, res, timerVars, handed, reused, lastCopy, nodeVars>>

\* dlv_ack_: the command is answered, nothing is left to re-send.
ControlDone ==
    /\ LoopIdle
    /\ stored # NoFrame
    /\ stored' = NoFrame
    /\ UNCHANGED <<lpc, lbase, stopping, confirmed, relogin, pending, tx, rx, minted, keyVars, res,
                   timerVars, airVars, nodeVars>>

-----------------------------------------------------------------------------
(* Test streams, loop side *)

\* reserve_fcnt_block_ with the counter at c: the block's first FCNT is
\* allocated and the counter skips to its end, clamped to the CTR space.
BlockEnd(c, n) == IF c + n >= FcntLimit THEN FcntLimit - 1 ELSE c + n

Reserved(r, c, n) ==
    IF c >= FcntLimit - 1 THEN Invalidate(r) ELSE Grant(c + 1, BlockEnd(c, n), epoch)

AfterReserve(c, n) == IF c >= FcntLimit - 1 THEN c ELSE BlockEnd(c, n)

\* build_mac_ping_frame_ and pack_test_frame_ on the loop, from reservation r.
\* Without an FCNT a ping goes out in plaintext and a test stream goes silent.
BuiltOnLoop(s, r, encrypt) ==
    IF Taken(r, epoch) # 0 THEN Sealed(Taken(r, epoch), encrypt)
    ELSE IF s \in PingStreams THEN Plain ELSE NoFrame

\* start_mode_test / start_drift_test: the START frame is built in the
\* stream's own buffer and sent, the run's block reserved, the timer stopped.
StartTest(s, n) ==
    /\ LoopIdle
    /\ ~active[s] \/ RestartTests
    /\ active' = [active EXCEPT ![s] = TRUE]
    /\ timerOn' = [timerOn EXCEPT ![s] = FALSE]
    /\ LET f == Sealed(Allocated, confirmed)
       IN  buf' = [buf EXCEPT ![s] = f] /\ HandOver(f)
    /\ res' = [res EXCEPT ![s] = Reserved(@, AfterAlloc, n)]
    /\ tx' = AfterReserve(AfterAlloc, n)
    /\ UNCHANGED <<lpc, lbase, stopping, confirmed, relogin, pending, rx, stored, minted, keyVars, crypto,
                   tpc, tEpoch, tFcnt, tEncrypt, tFrame, lastCopy, nodeVars>>

\* The "grid arm" timeout 3 s later: the first mark is built on the loop.
ArmGrid(s) ==
    /\ LoopIdle
    /\ active[s] /\ ~timerOn[s]
    /\ LET f == BuiltOnLoop(s, res[s], confirmed)
       IN  buf' = [buf EXCEPT ![s] = f]
    /\ res' = [res EXCEPT ![s] = AfterTake(@, epoch)]
    /\ timerOn' = [timerOn EXCEPT ![s] = TRUE]
    /\ UNCHANGED <<lpc, lbase, stopping, confirmed, relogin, pending, tx, rx, stored, minted, keyVars, active,
                   crypto, tpc, tEpoch, tFcnt, tEncrypt, tFrame, airVars, nodeVars>>

\* start_mac_ping: refused while active; pings are sealed only in a session.
StartPing(s, n) ==
    /\ LoopIdle
    /\ ~active[s]
    /\ active' = [active EXCEPT ![s] = TRUE]
    /\ timerOn' = [timerOn EXCEPT ![s] = TRUE]
    /\ LET r == IF confirmed THEN Reserved(res[s], tx, n) ELSE Invalidate(res[s])
           f == BuiltOnLoop(s, r, TRUE)
       IN  /\ res' = [res EXCEPT ![s] = AfterTake(r, epoch)]
           /\ buf' = [buf EXCEPT ![s] = f]
           /\ crypto' = [crypto EXCEPT ![s] = Taken(r, epoch) # 0]
          
    /\ tx' = IF confirmed THEN AfterReserve(tx, n) ELSE tx
    /\ UNCHANGED <<lpc, lbase, stopping, confirmed, relogin, pending, rx, stored, minted, keyVars, tpc, tEpoch,
                   tFcnt, tEncrypt, tFrame, airVars, nodeVars>>

\* stop_*: the flag, then esp_timer_stop, then the loop spins until the
\* callback is idle (wait_callback_idle_).
BeginStop(s) ==
    /\ LoopIdle
    /\ active[s]
    /\ active' = [active EXCEPT ![s] = FALSE]
    /\ timerOn' = [timerOn EXCEPT ![s] = FALSE]
    /\ stopping' = {s}
    /\ UNCHANGED <<lpc, lbase, confirmed, relogin, pending, tx, rx, stored, minted, keyVars, res, crypto,
                   tpc, tEpoch, tFcnt, tEncrypt, tFrame, buf, airVars, nodeVars>>

\* Mutant of CallbackIdle: the loop does not wait.
CallbackIgnored(s) == s \in Streams

\* wait_callback_idle_: esp_timer_stop lets a dispatched callback finish.
CallbackIdle(s) == tpc[s] = "idle"

\* A test stream then builds and sends its STOP frame in the shared buffer;
\* a ping stream empties its buffer.
FinishStop(s) ==
    /\ s \in stopping
    /\ CallbackIdle(s)
    /\ stopping' = {}
    /\ buf' = [buf EXCEPT ![s] = NoFrame]
    /\ IF s \in TestStreams
         THEN /\ LET f == Sealed(Allocated, confirmed)
                 IN  HandOver(f)
              /\ tx' = AfterAlloc
         ELSE UNCHANGED <<queue, handed, reused, tx>>
    /\ UNCHANGED <<lpc, lbase, confirmed, relogin, pending, rx, stored, minted, keyVars, res, active, timerOn,
                   crypto, tpc, tEpoch, tFcnt, tEncrypt, tFrame, lastCopy, nodeVars>>

-----------------------------------------------------------------------------
(* Test streams, esp_timer side: send the frame built last time, then      *)
(* build the next one from the reserved block                              *)

\* Mutant of Leave: the busy flag is left set.
LeaveBusy(s, f) ==
    /\ buf' = [buf EXCEPT ![s] = f]
    /\ UNCHANGED <<tpc, tEpoch, tFcnt, tEncrypt, tFrame>>

\* The callback's end: it leaves frame f in the buffer.
Leave(s, f) ==
    /\ buf' = [buf EXCEPT ![s] = f]
    /\ tpc' = [tpc EXCEPT ![s] = "idle"]
    /\ tEpoch' = [tEpoch EXCEPT ![s] = 0]
    /\ tFcnt' = [tFcnt EXCEPT ![s] = 0]
    /\ tEncrypt' = [tEncrypt EXCEPT ![s] = FALSE]
    /\ tFrame' = [tFrame EXCEPT ![s] = NoFrame]

TimerFire(s) ==
    /\ timerOn[s] /\ tpc[s] = "idle"
    /\ active[s] /\ buf[s] # NoFrame
    /\ HandOver(buf[s])
    /\ tpc' = [tpc EXCEPT ![s] = "build"]
    /\ UNCHANGED <<loopVars, keyVars, res, active, timerOn, crypto, tEpoch, tFcnt, tEncrypt, tFrame, buf,
                   lastCopy, nodeVars>>

\* take_reserved_fcnt_ reads the key epoch before it takes the lock.  A ping
\* outside a session takes nothing and is plaintext for the rest of the run.
TimerReadEpoch(s) ==
    /\ tpc[s] = "build"
    /\ IF s \in TestStreams \/ (crypto[s] /\ confirmed)
         THEN /\ tEpoch' = [tEpoch EXCEPT ![s] = epoch]
              /\ tpc' = [tpc EXCEPT ![s] = "take"]
              /\ UNCHANGED <<crypto, tFcnt, tEncrypt, tFrame, buf>>
         ELSE /\ Leave(s, Plain)
              /\ crypto' = [crypto EXCEPT ![s] = FALSE]
    /\ UNCHANGED <<loopVars, keyVars, res, active, timerOn, airVars, nodeVars>>

TimerTake(s) ==
    /\ tpc[s] = "take"
    /\ res' = [res EXCEPT ![s] = AfterTake(@, tEpoch[s])]
    /\ IF Taken(res[s], tEpoch[s]) = 0
         THEN /\ Leave(s, IF s \in PingStreams THEN Plain ELSE NoFrame)
              /\ crypto' = [crypto EXCEPT ![s] = FALSE]
         ELSE /\ tFcnt' = [tFcnt EXCEPT ![s] = Taken(res[s], tEpoch[s])]
              /\ tEncrypt' = [tEncrypt EXCEPT ![s] = s \in PingStreams]
              /\ tpc' = [tpc EXCEPT ![s] = IF s \in PingStreams THEN "seal" ELSE "flag"]
              /\ UNCHANGED <<crypto, tEpoch, tFrame, buf>>
    /\ UNCHANGED <<loopVars, keyVars, active, timerOn, airVars, nodeVars>>

\* pack_test_frame_ reads session_confirmed_ after the take.
TimerReadConfirmed(s) ==
    /\ tpc[s] = "flag"
    /\ tEncrypt' = [tEncrypt EXCEPT ![s] = confirmed]
    /\ tpc' = [tpc EXCEPT ![s] = "seal"]
    /\ UNCHANGED <<loopVars, keyVars, res, active, timerOn, crypto, tEpoch, tFcnt, tFrame, buf, airVars,
                   nodeVars>>

TimerSeal(s) ==
    /\ tpc[s] = "seal"
    /\ LET f == Sealed(tFcnt[s], tEncrypt[s])
       IN 
           /\ IF IsSealed(f)
                THEN /\ tFrame' = [tFrame EXCEPT ![s] = f]
                  /\ tpc' = [tpc EXCEPT ![s] = "check"]
                  /\ UNCHANGED <<tEpoch, tFcnt, tEncrypt, buf>>
             ELSE Leave(s, f)
    /\ UNCHANGED <<loopVars, keyVars, res, active, timerOn, crypto, airVars, nodeVars>>

\* Mutant of SealedInEpoch: the epoch of the seal is not compared.
SealedWhenever(f, r) == r \in Reservation

\* sealed_in_epoch_: a frame sealed under another key epoch than the block's
\* never reaches the buffer.
SealedInEpoch(f, r) == f.epoch = r.epoch

TimerCheck(s) ==
    /\ tpc[s] = "check"
    /\ Leave(s, IF SealedInEpoch(tFrame[s], res[s]) THEN tFrame[s] ELSE NoFrame)
    /\ UNCHANGED <<loopVars, keyVars, res, active, timerOn, crypto, airVars, nodeVars>>

-----------------------------------------------------------------------------
(* Send task: copySealerV1 tags one copy of a queued frame under the key   *)
(* lock; a frame of another key epoch is not tagged and the copy dropped.  *)

Taggable(f) == f.epoch = epoch /\ sid # 0 /\ live # NoKeys

SendCopy(f) ==
    /\ f \in queue
    /\ Taggable(f)
    /\ lastCopy' = [cipher |-> Session(f), tag |-> <<live, sid>>]
    /\ UNCHANGED <<loopVars, keyVars, res, timerVars, queue, handed, reused, nodeVars>>

-----------------------------------------------------------------------------
(* A hub reboot, at any moment: keys, session ids, reservations, streams   *)
(* and the tracker queue are RAM.  The counters are restored from flash;   *)
(* relogin is set for a node restored as registered (setup()).             *)

NoReservation == [valid |-> FALSE, next |-> 0, last |-> 0, epoch |-> 0]

Reboot ==
    /\ boots < MaxBoots
    /\ boots' = boots + 1
    /\ lpc' = "idle" /\ lbase' = 0 /\ stopping' = {}
    /\ confirmed' = FALSE /\ relogin' \in BOOLEAN /\ pending' = 0
    /\ stored' = NoFrame
    /\ tx' = tx + RestoreMargin
    /\ sid' = 0 /\ live' = NoKeys /\ epoch' = 0
    /\ res' = [s \in Streams |-> NoReservation]
    /\ active' = [s \in Streams |-> FALSE]
    /\ timerOn' = [s \in Streams |-> FALSE]
    /\ crypto' = [s \in Streams |-> FALSE]
    /\ buf' = [s \in Streams |-> NoFrame]
    /\ tpc' = [s \in Streams |-> "idle"]
    /\ tEpoch' = [s \in Streams |-> 0]
    /\ tFcnt' = [s \in Streams |-> 0]
    /\ tEncrypt' = [s \in Streams |-> FALSE]
    /\ tFrame' = [s \in Streams |-> NoFrame]
    /\ queue' = {} /\ lastCopy' = NoCopy
    /\ UNCHANGED <<rx, minted, handed, reused, logins, nodeKey, nodeTx, nodeKeys, uplinks, accepted>>

-----------------------------------------------------------------------------
(* The node (external).  It may hear any LOGIN the hub ever sent, and      *)
(* answers each with a node nonce of its own.  Uplinks are never removed,  *)
(* so one may be lost, late, reordered or received several times.          *)

NodeLogin(base) ==
    /\ base \in logins
    /\ nodeKeys < MaxNodeKeys
    /\ nodeKeys' = nodeKeys + 1
    /\ nodeKey' = <<base, nodeKeys'>>
    /\ nodeTx' = 0
    /\ UNCHANGED <<loopVars, keyVars, res, timerVars, airVars, logins, uplinks, accepted, boots>>

NodeSend(opening) ==
    /\ nodeKey # NoKeys
    /\ nodeTx < MaxUplinks
    /\ nodeTx' = nodeTx + 1
    /\ uplinks' = uplinks \cup {[key |-> nodeKey, fcnt |-> nodeTx', opening |-> opening]}
    /\ UNCHANGED <<loopVars, keyVars, res, timerVars, airVars, logins, nodeKey, nodeKeys, accepted, boots>>

-----------------------------------------------------------------------------
Init ==
    /\ lpc = "idle" /\ lbase = 0 /\ stopping = {}
    /\ confirmed = FALSE /\ relogin \in BOOLEAN /\ pending = 0
    /\ tx = 0 /\ rx = 0 /\ stored = NoFrame /\ minted = 0
    /\ sid = 0 /\ live = NoKeys /\ epoch = 0
    /\ res = [s \in Streams |-> NoReservation]
    /\ active = [s \in Streams |-> FALSE]
    /\ timerOn = [s \in Streams |-> FALSE]
    /\ crypto = [s \in Streams |-> FALSE]
    /\ buf = [s \in Streams |-> NoFrame]
    /\ tpc = [s \in Streams |-> "idle"]
    /\ tEpoch = [s \in Streams |-> 0]
    /\ tFcnt = [s \in Streams |-> 0]
    /\ tEncrypt = [s \in Streams |-> FALSE]
    /\ tFrame = [s \in Streams |-> NoFrame]
    /\ queue = {} /\ handed = {} /\ reused = FALSE /\ lastCopy = NoCopy
    /\ logins = {} /\ nodeKey = NoKeys /\ nodeTx = 0 /\ nodeKeys = 0
    /\ uplinks = {} /\ accepted = {}
    /\ boots = 0

LoopStep ==
    \/ SendLogin \/ DropKeyedState \/ RestartCounters \/ PublishLogin
    \/ HandleRegister \/ ConfirmSession
    \/ \E gate \in BOOLEAN : GiveUp(gate)
    \/ SendFire \/ SendControl \/ ResendControl \/ ControlDone
    \/ \E u \in uplinks : AcceptUplink(u)

StreamStep ==
    \/ \E s \in TestStreams, n \in BlockSizes : StartTest(s, n)
    \/ \E s \in TestStreams : ArmGrid(s)
    \/ \E s \in PingStreams, n \in BlockSizes : StartPing(s, n)
    \/ \E s \in Streams : BeginStop(s) \/ FinishStop(s)

CallbackStep(s) ==
    TimerReadEpoch(s) \/ TimerTake(s) \/ TimerReadConfirmed(s) \/ TimerSeal(s) \/ TimerCheck(s)

TimerStep == \E s \in Streams : TimerFire(s) \/ CallbackStep(s)

NodeStep ==
    \/ \E base \in logins : NodeLogin(base)
    \/ \E opening \in BOOLEAN : NodeSend(opening)

Running == LoopStep \/ StreamStep \/ TimerStep \/ NodeStep \/ \E f \in queue : SendCopy(f)

Next == Running \/ Reboot

Spec == Init /\ [][Next]_vars

\* The esp_timer task runs a started callback to its end, and the loop, which
\* does nothing else while it spins, sees that it has ended.
Fairness ==
    \A s \in Streams : WF_vars(CallbackStep(s)) /\ WF_vars(FinishStop(s))

FairSpec == Spec /\ Fairness
-----------------------------------------------------------------------------
(* Properties *)

LoopType ==
    /\ lpc \in {"idle", "dropLogin", "dropRegister", "restart", "setid", "installed", "confirm"}
    /\ lbase \in Nat /\ pending \in Nat /\ tx \in Nat /\ rx \in Nat /\ minted \in Nat
    /\ stopping \subseteq Streams
    /\ confirmed \in BOOLEAN /\ relogin \in BOOLEAN
    /\ stored \in Frame

KeyType == sid \in Nat /\ live \in Key /\ epoch \in Nat

StreamType ==
    /\ res \in [Streams -> Reservation]
    /\ active \in [Streams -> BOOLEAN] /\ timerOn \in [Streams -> BOOLEAN]
    /\ crypto \in [Streams -> BOOLEAN]
    /\ tpc \in [Streams -> {"idle", "build", "take", "flag", "seal", "check"}]
    /\ tEpoch \in [Streams -> Nat] /\ tFcnt \in [Streams -> Nat]
    /\ tEncrypt \in [Streams -> BOOLEAN]
    /\ tFrame \in [Streams -> Frame] /\ buf \in [Streams -> Frame]

AirType ==
    /\ queue \subseteq Frame /\ handed \subseteq Frame
    /\ reused \in BOOLEAN
    /\ lastCopy \in [cipher : Key \X Nat, tag : Key \X Nat]

NodeType ==
    /\ logins \subseteq Nat /\ nodeKey \in Key /\ nodeTx \in Nat /\ nodeKeys \in Nat
    /\ uplinks \subseteq [key : Key, fcnt : Nat, opening : BOOLEAN]
    /\ accepted \subseteq Key \X Nat
    /\ boots \in Nat

TypeOK == LoopType /\ KeyType /\ StreamType /\ AirType /\ NodeType

\* No two ciphertexts handed to the radio share a CTR keystream: an FCNT is
\* sealed at most once under one key, whichever thread sealed it and however
\* often the session was rebuilt (review P1, HB1).
KeystreamUnique ==
    ~reused

\* A frame handed to the radio spends an FCNT of the 31-bit CTR space: neither
\* the counter nor a reserved block ever runs into bit 31 (framecrypto).
FcntInSpace ==
    \A f \in handed : f.fcnt \in 1 .. FcntLimit - 1

\* The send task never tags a copy under a key or session id other than the
\* ones its ciphertext was made under, however long the frame was queued (HB7).
CopyMatchesSeal ==
    lastCopy.tag = lastCopy.cipher

\* Between handlers, a ciphertext the Control channel may re-send was sealed
\* under the live keys: a retry never sends bytes the node cannot verify
\* (Invariant I3 (a)).
StoredFrameIsLive ==
    LoopIdle /\ IsSealed(stored) => stored.epoch = epoch /\ stored.key = live

\* A key is live only under the session id it was derived for, so a CTR block
\* never pairs one session's id with another's key (HB7).
KeysMatchSessionId ==
    live # NoKeys => live[1] = sid

\* An uplink is accepted at most once: no copy, delay or relogin makes the hub
\* act twice on the same authenticated frame.
AcceptedOnce ==
    [][\A u \in uplinks : AcceptUplink(u) => <<u.key, u.fcnt>> \notin accepted]_vars

\* While a stream's callback runs, only the callback writes the stream's frame
\* buffer (threading-model.md, rule 5).
BufferOwnership ==
    [][\A s \in Streams :
         (tpc[s] # "idle" /\ buf'[s] # buf[s]) => tpc'[s] = "idle"]_vars

\* A confirmed session rests on live keys, except between a REGISTER and the
\* LOGIN that answers it: what the hub believes it encrypts, it can encrypt.
ConfirmedHasKeys ==
    confirmed /\ ~relogin /\ lpc # "dropLogin" /\ lpc # "restart" => live # NoKeys

\* What reaches the radio is sound: no FCNT is sealed twice under one key, none leaves the CTR
\* space, every copy carries a tag of the session its ciphertext is of, and a key is only ever
\* paired with the id of its own session.
SealSound ==
    KeystreamUnique /\ FcntInSpace /\ CopyMatchesSeal /\ KeysMatchSessionId

\* What the loop believes of its keys is true between handlers: a session it counts as
\* confirmed has keys, and bytes kept for a retry are of the keys now live.
KeysAreLive ==
    ConfirmedHasKeys /\ StoredFrameIsLive

\* A Control command is packed in plaintext only for a node the hub holds no
\* session keys for (review HB5: deferred, never packed plaintext for a node
\* that refuses plaintext).
NoPlaintextCommandInSession ==
    stored = Plain => live = NoKeys

\* A stop terminates: the callback it spins on always comes to its end.
StopCompletes ==
    \A s \in Streams : s \in stopping ~> stopping = {}
-----------------------------------------------------------------------------
(* The inductive invariant behind these properties, when no test stream is *)
(* started while it runs.                                                  *)

LoggingIn == lpc \in {"dropLogin", "restart", "setid"}

\* The session: keys exist only for the current session id, and while a login
\* challenge is pending only in the instant before it is confirmed.
SessionInv ==
    /\ sid \in 0 .. minted /\ pending \in 0 .. minted
    /\ live # NoKeys => sid # 0 /\ live[1] = sid
    /\ LoggingIn => lbase = pending /\ pending # 0
    /\ ~LoggingIn /\ pending # 0 => pending = sid
    /\ LoggingIn \/ lpc = "dropRegister" => live = NoKeys
    /\ live # NoKeys /\ pending # 0 => lpc = "installed"

\* Reservations: a valid block is not empty; none is of the current key epoch
\* before the installed keys are confirmed.
BlockInv ==
    \A s \in Streams :
      /\ res[s].valid => res[s].next \in 1 .. res[s].last
      /\ res[s].epoch <= epoch
      /\ lpc = "installed" => res[s].epoch < epoch

\* Streams: a callback runs only while the timer is armed or a stop waits for
\* it, so no start meets a running callback.
StreamInv ==
    /\ \A s \in Streams :
         /\ timerOn[s] => active[s]
         /\ s \in stopping => ~active[s]
         /\ tpc[s] # "idle" => timerOn[s] \/ s \in stopping
    /\ \A s, t \in stopping : s = t
    /\ stopping # {} => lpc = "idle"

\* Key epochs: a frame of the current epoch was sealed under the live keys.
Current(f) == IsSealed(f) => f.epoch <= epoch /\ (f.epoch = epoch => Session(f) = <<live, sid>>)

EpochInv ==
    /\ \A f \in queue : IsSealed(f) /\ Current(f)
    /\ \A s \in Streams : Current(buf[s]) /\ Current(tFrame[s])
    /\ Current(stored)

\* The sealed frame a stream will still hand over, if any.
Upcoming(s) ==
    IF tpc[s] = "idle" /\ timerOn[s] THEN buf[s]
    ELSE IF tpc[s] = "check" /\ SealedInEpoch(tFrame[s], res[s]) THEN tFrame[s]
    ELSE Plain

\* The FCNTs a stream may still seal under the live keys: those of its block
\* and the one its callback has taken.
Block(s)  == IF res[s].valid THEN res[s].next .. res[s].last ELSE {}
Held(s)   == IF tpc[s] \in {"flag", "seal"} THEN {tFcnt[s]} ELSE {}
Usable(s) == live # NoKeys /\ res[s].epoch = epoch
Mine(s)   == IF Usable(s) THEN Block(s) \cup Held(s) ELSE {}

\* A frame that spent its FCNT: of a session that is not being set up, and
\* not above the counter if the session is the current one.
SpentBy(f) ==
    /\ f.fcnt \in 1 .. FcntLimit - 1
    /\ f.sid \in 1 .. minted
    /\ f.sid # pending
    /\ f.sid = sid /\ lpc # "setid" => f.fcnt <= tx

Distinct(f, g) == f.sid = g.sid => f.fcnt # g.fcnt

\* No frame that was or will be handed over shares its FCNT with another.
FrameInv ==
    /\ \A f \in handed : SpentBy(f)
    /\ \A s \in Streams : IsSealed(Upcoming(s)) =>
         /\ SpentBy(Upcoming(s))
         /\ \A f \in handed : Distinct(Upcoming(s), f)
         /\ \A t \in Streams \ {s} : IsSealed(Upcoming(t)) => Distinct(Upcoming(s), Upcoming(t))

\* A FCNT a stream may still seal is below the counter and nobody else's.
OwnInv ==
    \A s \in Streams :
      /\ Usable(s) => Block(s) \cap Held(s) = {}
      /\ \A n \in Mine(s) :
           /\ n \in 1 .. tx /\ n < FcntLimit
           /\ \A f \in handed : f.sid = sid => f.fcnt # n
           /\ \A t \in Streams :
                /\ IsSealed(Upcoming(t)) /\ Upcoming(t).sid = sid => Upcoming(t).fcnt # n
                /\ t # s => n \notin Mine(t)

\* Uplinks: what was accepted in the current session is not above rx.
AcceptedInv ==
    \A a \in accepted :
      /\ a[1][1] \in 1 .. minted
      /\ a[1][1] = pending => lpc = "installed"
      /\ a[1][1] = sid /\ lpc # "setid" => a[2] <= rx

\* Belief: the loop confirms a session only with keys in the store, and a frame it keeps is
\* of the live keys until the handler that cleared those has dropped it.
LiveInv ==
    /\ ConfirmedHasKeys
    /\ lpc \in {"installed", "confirm"} => live # NoKeys
    /\ IsSealed(stored) /\ lpc \notin {"dropLogin", "dropRegister"}
       => stored.epoch = epoch /\ stored.key = live

IInv ==
    /\ TypeOK
    /\ SessionInv /\ BlockInv /\ StreamInv
    /\ FrameInv /\ OwnInv /\ KeystreamUnique
    /\ EpochInv /\ CopyMatchesSeal
    /\ AcceptedInv
=============================================================================
