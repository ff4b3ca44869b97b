------------------------------- MODULE BleLink -------------------------------
(***************************************************************************)
(* The BLE link to one controller, and who may use it when.                *)
(*                                                                         *)
(* Every client object of a controller shares one ControllerLock           *)
(* (ble/locking.py).  A stateless client (ble/client_v2.py) connects and   *)
(* disconnects around every operation; a persistent one                    *)
(* (ble/client_persistent.py) holds its link between operations and        *)
(* releases it in the background.  The controller accepts one connection   *)
(* at a time.  Tasks of the event loop call operations on their client:    *)
(* reads, which are retried, and mutations (retry_safe=False).             *)
(***************************************************************************)
EXTENDS Naturals, FiniteSets

CONSTANTS
  Clients,       \* client objects made for the controller
  Persistent,    \* those that hold their link
  HoldForever,   \* those among them without an idle release
  Tasks,         \* callers
  ClientOf,      \* the client a task calls
  None,
  MaxAttempts,   \* REQUEST_MAX_ATTEMPTS
  LateConnects,  \* clients whose connect may end as its time runs out
  MaxLinks,      \* bound: connections established
  MaxCalls       \* bound: operations called

ASSUME LinkAssumption ==
  /\ Persistent \subseteq Clients /\ HoldForever \subseteq Persistent
  /\ LateConnects \subseteq Clients
  /\ ClientOf \in [Tasks -> Clients]
  /\ None \notin Tasks \cup Nat
  /\ MaxAttempts \in Nat \ {0} /\ MaxLinks \in Nat /\ MaxCalls \in Nat

VARIABLES
  lock,      \* ControllerLock: the task that owns the transaction, or None
  deferred,  \* ControllerLock.recover: the link still to be cleaned up, or None
  up,        \* the connection the controller is on, or None
  made,      \* connections established so far
  active,    \* _active_client of each persistent client: a link, or None
  releases,  \* _pending_releases of each persistent client
  failed,    \* the connection whose background disconnect failed, or None
  idle,      \* the idle-release timer of each persistent client is armed
  task,      \* what each task does
  calls      \* operations called so far

vars == <<lock, deferred, up, made, active, releases, failed, idle, task, calls>>

Links == 1..MaxLinks

\* A connection attempt that never got as far as a connection.
HalfOpen == 0

-----------------------------------------------------------------------------
(* Tasks. link: the connection of the attempt; then: where the task goes    *)
(* once the connection is cleaned up; sent: how often a mutation reached    *)
(* the controller.                                                          *)

Pcs == {"out", "wait", "check", "begin", "draining", "connecting", "running",
        "cleanup", "held"}

Out == [pc |-> "out", safe |-> TRUE, attempt |-> 0, link |-> None,
        then |-> "out", sent |-> 0]

InSession == {"begin", "draining", "connecting", "running"}

Holds(t) == ClientOf[t] \in Persistent

Set(t, pc)  == [task[t] EXCEPT !.pc = pc]
Moved(t, pc, link, then, sent) ==
  [pc |-> pc, safe |-> task[t].safe, attempt |-> task[t].attempt, link |-> link,
   then |-> then, sent |-> sent]
Goto(t, pc) == task' = [task EXCEPT ![t] = Set(t, pc)]

\* The exception, or the end, leaves the transaction.
Exits(t) == /\ task' = [task EXCEPT ![t] = [Out EXCEPT !.sent = task[t].sent]]
            /\ lock' = None

\* A mutation may have been carried out by the controller.
Sent(t) == IF task[t].safe THEN {task[t].sent} ELSE {task[t].sent, task[t].sent + 1}

\* _reset_session_state and _schedule_background_disconnect.
Release(c) ==
  /\ releases' = [releases EXCEPT ![c] = @ \cup ({active[c]} \ {None})]
  /\ active' = [active EXCEPT ![c] = None]

Closed(l) == IF up = l THEN None ELSE up

\* Mutated: a mutation is retried like a read.
RetriesAll(t) == IF task[t].attempt < MaxAttempts THEN {"check", "out"} ELSE {"out"}

\* Mutated: one attempt too many.
OneMore(t) == IF task[t].safe /\ task[t].attempt <= MaxAttempts THEN {"check", "out"}
                                                               ELSE {"out"}

\* A failed attempt is tried again, unless it may have changed something or
\* the attempts or the deadline are used up.
Afterwards(t) == IF task[t].safe /\ task[t].attempt < MaxAttempts THEN {"check", "out"}
                                                                ELSE {"out"}

-----------------------------------------------------------------------------
(* ControllerLock.hold and check_cleanup. *)

Request(t) ==
  /\ task[t].pc = "out"
  /\ calls < MaxCalls
  /\ calls' = calls + 1
  /\ \E safe \in BOOLEAN :
       task' = [task EXCEPT ![t] = [Out EXCEPT !.pc = "wait", !.safe = safe]]
  /\ UNCHANGED <<lock, deferred, up, made, active, releases, failed, idle>>

Enter(t) ==
  /\ task[t].pc = "wait"
  /\ lock = None
  /\ lock' = t
  /\ Goto(t, "check")
  /\ UNCHANGED <<deferred, up, made, active, releases, failed, idle, calls>>

\* Mutated: the executor goes on over an unresolved cleanup.
CheckSkipped(t) ==
  /\ task[t].pc = "check"
  /\ task' = [task EXCEPT ![t] = [Set(t, "begin") EXCEPT !.attempt = @ + 1]]
  /\ UNCHANGED <<lock, deferred, up, made, active, releases, failed, idle, calls>>

Check(t) ==
  /\ task[t].pc = "check"
  /\ deferred = None
  /\ task' = [task EXCEPT ![t] = [Set(t, "begin") EXCEPT !.attempt = @ + 1]]
  /\ UNCHANGED <<lock, deferred, up, made, active, releases, failed, idle, calls>>

\* The retained cleanup succeeds now.
Recover(t) ==
  /\ task[t].pc = "check"
  /\ deferred # None
  /\ deferred' = None
  /\ up' = Closed(deferred)
  /\ task' = [task EXCEPT ![t] = [Set(t, "begin") EXCEPT !.attempt = @ + 1]]
  /\ UNCHANGED <<lock, made, active, releases, failed, idle, calls>>

\* Mutated: the error leaves the lock behind.
RecoverKeepsLock(t) ==
  /\ task[t].pc = "check"
  /\ deferred # None
  /\ Goto(t, "out")
  /\ UNCHANGED <<lock, deferred, up, made, active, releases, failed, idle, calls>>

\* "Previous Bluetooth cleanup still pending; will retry automatically".
RecoverFails(t) ==
  /\ task[t].pc = "check"
  /\ deferred # None
  /\ Exits(t)
  /\ UNCHANGED <<deferred, up, made, active, releases, failed, idle, calls>>

\* The transaction of a task may span several operations.
Again(t) ==
  /\ task[t].pc = "held"
  /\ calls < MaxCalls
  /\ calls' = calls + 1
  /\ \E safe \in BOOLEAN :
       task' = [task EXCEPT ![t] = [Out EXCEPT !.pc = "check", !.safe = safe]]
  /\ UNCHANGED <<lock, deferred, up, made, active, releases, failed, idle>>

Exit(t) ==
  /\ task[t].pc = "held"
  /\ Exits(t)
  /\ UNCHANGED <<deferred, up, made, active, releases, failed, idle, calls>>

-----------------------------------------------------------------------------
(* Connecting. *)

\* The persistent client reuses its link while it is connected.
Reuse(t) ==
  LET c == ClientOf[t] IN
  /\ task[t].pc = "begin" /\ Holds(t)
  /\ active[c] # None /\ active[c] = up
  /\ idle' = [idle EXCEPT ![c] = FALSE]
  /\ task' = [task EXCEPT ![t] = [Set(t, "running") EXCEPT !.link = up]]
  /\ UNCHANGED <<lock, deferred, up, made, active, releases, failed, calls>>

\* No link, a dead one, or one with a disconnect hint.
Renew(t) ==
  LET c == ClientOf[t] IN
  /\ task[t].pc = "begin" /\ Holds(t)
  /\ idle' = [idle EXCEPT ![c] = FALSE]
  /\ Release(c)
  /\ Goto(t, "draining")
  /\ UNCHANGED <<lock, deferred, up, made, failed, calls>>

\* Mutated: a new connection does not wait for the releases.
DrainSkipped(t) ==
  /\ task[t].pc = "draining"
  /\ Goto(t, "connecting")
  /\ UNCHANGED <<lock, deferred, up, made, active, releases, failed, idle, calls>>

\* _drain_pending_releases: each is bounded, and shorter than the deadline.
Drain(t) ==
  /\ task[t].pc = "draining"
  /\ releases[ClientOf[t]] = {}
  /\ Goto(t, "connecting")
  /\ UNCHANGED <<lock, deferred, up, made, active, releases, failed, idle, calls>>

Resolve(t) ==
  /\ task[t].pc = "begin" /\ ~Holds(t)
  /\ Goto(t, "connecting")
  /\ UNCHANGED <<lock, deferred, up, made, active, releases, failed, idle, calls>>

Established == /\ up = None
               /\ made < MaxLinks
               /\ made' = made + 1
               /\ up' = made + 1

Connect(t) ==
  LET c == ClientOf[t] IN
  /\ task[t].pc = "connecting"
  /\ Established
  /\ active' = IF Holds(t) THEN [active EXCEPT ![c] = up'] ELSE active
  /\ task' = [task EXCEPT ![t] = [Set(t, "running") EXCEPT !.link = up']]
  /\ UNCHANGED <<lock, deferred, releases, failed, idle, calls>>

\* The link is there as the time for it runs out: wait_for abandons the
\* connect, or the deadline is found exceeded after it.  The stateless client
\* knows the connection (_connecting_client) and cleans it up; the persistent
\* one resets its session.
ConnectLate(t) ==
  /\ task[t].pc = "connecting"
  /\ ClientOf[t] \in LateConnects
  /\ Established
  /\ IF Holds(t)
       THEN Exits(t)
       ELSE /\ task' = [task EXCEPT ![t] = Moved(t, "cleanup", up', "out", task[t].sent)]
            /\ UNCHANGED lock
  /\ UNCHANGED <<deferred, active, releases, failed, idle, calls>>

\* Only the stateless client tries to connect again in the same operation,
\* after it has cleaned up what there is of the connection.
ConnectFails(t) ==
  /\ task[t].pc = "connecting"
  /\ IF Holds(t)
       THEN /\ Exits(t)
            /\ idle' = [idle EXCEPT ![ClientOf[t]] =
                          task[t].safe /\ ClientOf[t] \notin HoldForever]
       ELSE /\ \E then \in Afterwards(t) :
                 task' = [task EXCEPT ![t] =
                            Moved(t, "cleanup", HalfOpen, then, task[t].sent)]
            /\ UNCHANGED <<lock, idle>>
  /\ UNCHANGED <<deferred, up, made, active, releases, failed, calls>>

-----------------------------------------------------------------------------
(* Running the operation on the link. *)

\* The operation returns; a persistent client keeps its link for a while.
OpSucceeds(t) ==
  LET c == ClientOf[t]
      sent == IF task[t].safe THEN task[t].sent ELSE task[t].sent + 1 IN
  /\ task[t].pc = "running"
  /\ up = task[t].link
  /\ IF Holds(t)
       THEN /\ task' = [task EXCEPT ![t] = Moved(t, "held", None, "out", sent)]
            /\ idle' = [idle EXCEPT ![c] = c \notin HoldForever]
       ELSE /\ task' = [task EXCEPT ![t] = Moved(t, "cleanup", task[t].link, "held", sent)]
            /\ UNCHANGED idle
  /\ UNCHANGED <<lock, deferred, up, made, active, releases, failed, calls>>

\* The link dropped, an answer did not come, or the deadline passed; a
\* mutation is not retried whatever became of it.
OpFails(t) ==
  /\ task[t].pc = "running"
  /\ \E sent \in Sent(t), then \in Afterwards(t) :
       IF Holds(t)
         THEN /\ Release(ClientOf[t])
              /\ IF then = "out"
                   THEN /\ lock' = None
                        /\ task' = [task EXCEPT ![t] = [Out EXCEPT !.sent = sent]]
                   ELSE /\ UNCHANGED lock
                        /\ task' = [task EXCEPT ![t] = [Moved(t, "begin", None, "out", sent)
                                                      EXCEPT !.attempt = @ + 1]]
         ELSE /\ task' = [task EXCEPT ![t] = Moved(t, "cleanup", task[t].link, then, sent)]
              /\ UNCHANGED <<lock, active, releases>>
  /\ UNCHANGED <<deferred, up, made, failed, idle, calls>>

\* _cleanup of the stateless client: disconnected, or left to the next user.
CleanedUp(t) ==
  IF task[t].then = "out"
    THEN Exits(t)
    ELSE /\ task' = [task EXCEPT ![t] = Moved(t, task[t].then, None, "out", task[t].sent)]
         /\ UNCHANGED lock

Cleanup(t) ==
  /\ task[t].pc = "cleanup"
  /\ up' = Closed(task[t].link)
  /\ CleanedUp(t)
  /\ UNCHANGED <<deferred, made, active, releases, failed, idle, calls>>

CleanupFails(t) ==
  /\ task[t].pc = "cleanup"
  /\ deferred' = task[t].link
  /\ CleanedUp(t)
  /\ UNCHANGED <<up, made, active, releases, failed, idle, calls>>

\* CancelledError, wherever the task is.  An operation that has just returned
\* keeps the persistent link, without an idle timer.
Cancel(t) ==
  LET c == ClientOf[t] IN
  /\ task[t].pc \notin {"out", "cleanup"}
  /\ IF task[t].pc = "wait"
       THEN Goto(t, "out") /\ UNCHANGED <<lock, active, releases>>
     ELSE IF task[t].pc \in {"connecting", "running"} /\ ~Holds(t)
       THEN /\ task' = [task EXCEPT ![t] = Moved(t, "cleanup",
                          IF task[t].link = None THEN HalfOpen ELSE task[t].link, "out", task[t].sent)]
            /\ UNCHANGED <<lock, active, releases>>
     ELSE IF task[t].pc = "running"
       THEN /\ Exits(t)
            /\ \/ Release(c)
               \/ up = task[t].link /\ UNCHANGED <<active, releases>>
     ELSE Exits(t) /\ UNCHANGED <<active, releases>>
  /\ UNCHANGED <<deferred, up, made, failed, idle, calls>>

-----------------------------------------------------------------------------
(* The persistent client between operations, and the radio. *)

\* Mutated: the state is reset and the disconnect forgotten.
IdleForgets(c) ==
  /\ idle[c]
  /\ idle' = [idle EXCEPT ![c] = FALSE]
  /\ active' = [active EXCEPT ![c] = None]
  /\ UNCHANGED <<lock, deferred, up, made, releases, failed, task, calls>>

IdleRelease(c) ==
  /\ idle[c]
  /\ idle' = [idle EXCEPT ![c] = FALSE]
  /\ Release(c)
  /\ UNCHANGED <<lock, deferred, up, made, failed, task, calls>>

\* disconnect(): under the session lock, so never in the middle of an attempt.
Disconnect(c) ==
  /\ c \in Persistent
  /\ \A t \in Tasks : ClientOf[t] = c => task[t].pc \notin InSession
  /\ idle' = [idle EXCEPT ![c] = FALSE]
  /\ Release(c)
  /\ UNCHANGED <<lock, deferred, up, made, failed, task, calls>>

\* A background disconnect ends.  Some backends disconnect by MAC address,
\* whichever connection that reaches.
ReleaseDone(c) ==
  /\ \E l \in releases[c] :
       /\ releases' = [releases EXCEPT ![c] = @ \ {l}]
       /\ up' \in {Closed(l), None}
  /\ UNCHANGED <<lock, deferred, made, active, failed, idle, task, calls>>

\* It times out or raises: the link is logged and forgotten.
ReleaseFails(c) ==
  /\ \E l \in releases[c] :
       /\ releases' = [releases EXCEPT ![c] = @ \ {l}]
       /\ failed' = IF up = l THEN l ELSE failed
  /\ UNCHANGED <<lock, deferred, up, made, active, idle, task, calls>>

\* The radio, or the controller, ends the connection.
Drop ==
  /\ up # None
  /\ up' = None
  /\ UNCHANGED <<lock, deferred, made, active, releases, failed, idle, task, calls>>

-----------------------------------------------------------------------------
Init ==
  /\ lock = None /\ deferred = None /\ up = None
  /\ made = 0 /\ calls = 0
  /\ active = [c \in Clients |-> None]
  /\ releases = [c \in Clients |-> {}]
  /\ failed = None
  /\ idle = [c \in Clients |-> FALSE]
  /\ task = [t \in Tasks |-> Out]

\* What the event loop runs to its end once a task is in the transaction.
TaskStep(t) ==
  \/ Check(t) \/ Recover(t) \/ RecoverFails(t) \/ Exit(t)
  \/ Reuse(t) \/ Renew(t) \/ Drain(t) \/ Resolve(t)
  \/ Connect(t) \/ ConnectLate(t) \/ ConnectFails(t)
  \/ OpSucceeds(t) \/ OpFails(t) \/ Cleanup(t) \/ CleanupFails(t)

Next ==
  \/ \E t \in Tasks : Request(t) \/ Enter(t) \/ Again(t) \/ TaskStep(t) \/ Cancel(t)
  \/ \E c \in Clients : IdleRelease(c) \/ Disconnect(c) \/ ReleaseDone(c) \/ ReleaseFails(c)
  \/ Drop

Spec == Init /\ [][Next]_vars

\* Every wait of the code is bounded by a timeout, and asyncio.Lock is fair.
Fairness ==
  /\ \A t \in Tasks : WF_vars(TaskStep(t)) /\ SF_vars(Enter(t))
  /\ \A c \in Clients : WF_vars(ReleaseDone(c) \/ ReleaseFails(c)) /\ WF_vars(IdleRelease(c))

FairSpec == Spec /\ Fairness

-----------------------------------------------------------------------------
(* Properties. *)

Running(t) == task[t].pc = "running"

TaskType == [pc : Pcs, safe : BOOLEAN, attempt : 0..MaxAttempts,
             link : Links \cup {HalfOpen, None}, then : {"out", "check", "held"}, sent : Nat]

\* Every variable keeps its type, and no operation has an attempt too many.
LinkTypeOK ==
  /\ lock \in Tasks \cup {None}
  /\ deferred \in Links \cup {HalfOpen, None} /\ up \in Links \cup {None}
  /\ made \in 0..MaxLinks /\ calls \in 0..MaxCalls
  /\ active \in [Clients -> Links \cup {None}]
  /\ releases \in [Clients -> SUBSET Links] /\ failed \in Links \cup {None}
  /\ idle \in [Clients -> BOOLEAN]
  /\ task \in [Tasks -> TaskType]

\* client_persistent.py: "on any other exit the session is invalidated
\* synchronously and the link torn down": the connection the controller is on
\* always has somebody who will use or close it, unless that teardown failed.
LinkIsOwned ==
  up # None =>
    \/ up = deferred \/ up = failed
    \/ \E c \in Clients : up = active[c] \/ up \in releases[c]
    \/ \E t \in Tasks : up = task[t].link

\* locking.py: "retry unresolved cleanup before reuse": nobody runs an
\* operation over a cleanup that is still to be done.
RunsOverNoCleanup == \A t \in Tasks : Running(t) => deferred = None

\* client_persistent.py: "a MAC-addressed disconnect can never reach a fresh
\* link": while an operation runs, no disconnect of its client is under way.
NoReleaseUnderway == \A t \in Tasks : Running(t) => releases[ClientOf[t]] = {}

\* A mutation never reaches the controller twice for one call.
NoReplay == \A t \in Tasks : task[t].sent <= 1

\* Every call comes to an end.
CallEnds == \A t \in Tasks : task[t].pc # "out" ~> task[t].pc = "out"

=============================================================================
