---------------------------- MODULE BleLinkProofs ----------------------------
(***************************************************************************)
(* What BleLink guarantees for any number of clients, tasks, connections   *)
(* and attempts.                                                           *)
(***************************************************************************)
EXTENDS BleLink, TLAPS

(* The inductive invariant.                                                *)

\* A stateless client has nothing to release; a client that has a link has
\* released every other.
ClientsFit ==
  \A c \in Clients :
    /\ c \notin Persistent => active[c] = None /\ releases[c] = {} /\ ~idle[c]
    /\ active[c] # None => releases[c] = {}

\* The task will still run its operation, or run it again.
ToRun(t) == \/ task[t].pc \in InSession \cup {"wait", "check"}
            \/ task[t].pc = "cleanup" /\ task[t].then = "check"

\* ... and its next attempt is counted when it begins.
ToTry(t) == \/ task[t].pc \in {"wait", "check"}
            \/ task[t].pc = "cleanup" /\ task[t].then = "check"

\* Where a task is agrees with what the others have left: past the lock it
\* owns it; a session starts over no cleanup; from the drain on nothing of its
\* client's can start a release, and none is under way once it connects; an
\* operation that will be run has not sent anything yet.
Fits(t) ==
  /\ task[t].pc \notin {"out", "wait"} => lock = t
  /\ task[t].pc \in InSession => deferred = None
  /\ task[t].pc \in {"draining", "connecting", "running"} => ~idle[ClientOf[t]]
  /\ task[t].pc \in {"connecting", "running"} => releases[ClientOf[t]] = {}
  /\ ToRun(t) => task[t].sent = 0
  /\ ToTry(t) => task[t].attempt < MaxAttempts
  /\ task[t].sent <= 1

LinkInv == LinkTypeOK /\ ClientsFit /\ \A t \in Tasks : Fits(t)

-----------------------------------------------------------------------------
USE LinkAssumption

\* Every variable but the tasks has its type.
Others ==
  /\ lock \in Tasks \cup {None}
  /\ deferred \in Links \cup {HalfOpen, None} /\ up \in Links \cup {None}
  /\ made \in 0..MaxLinks /\ calls \in 0..MaxCalls
  /\ active \in [Clients -> Links \cup {None}]
  /\ releases \in [Clients -> SUBSET Links] /\ failed \in Links \cup {None}
  /\ idle \in [Clients -> BOOLEAN]

\* A step moves one task, which owns the lock before it or finds it free,
\* or leaves alone what other tasks depend on: it is enough to see that the
\* task fits where it goes.
LEMMA OneMoves ==
  ASSUME LinkInv, NEW t \in Tasks,
         task' = [task EXCEPT ![t] = task'[t]], task'[t] \in TaskType, Fits(t)',
         Others', ClientsFit',
         lock \in {t, None} \/ UNCHANGED <<lock, deferred, idle, releases>>
  PROVE  LinkInv'
<1>1. task' \in [Tasks -> TaskType]
  BY DEF LinkInv, LinkTypeOK
<1>2. \A u \in Tasks : Fits(u)'
  <2> SUFFICES ASSUME NEW u \in Tasks, u # t PROVE Fits(u)'
    OBVIOUS
  <2>1. task'[u] = task[u]
    BY DEF LinkInv, LinkTypeOK
  <2>2. Fits(u)
    BY DEF LinkInv
  <2>3. CASE lock \in {t, None}
    <3>1. task[u].pc \in {"out", "wait"}
      BY <2>2, <2>3 DEF Fits
    <3> QED
      BY <2>1, <2>2, <3>1 DEF Fits, ToRun, ToTry, InSession
  <2>4. CASE UNCHANGED <<lock, deferred, idle, releases>>
    BY <2>1, <2>2, <2>4 DEF Fits, ToRun, ToTry
  <2> QED
    BY <2>3, <2>4
<1> QED
  BY <1>1, <1>2 DEF LinkInv, LinkTypeOK, Others

Rec(p, s, a, l, h, n) ==
  [pc |-> p, safe |-> s, attempt |-> a, link |-> l, then |-> h, sent |-> n]

\* The fields of a task, and the changes the actions make to them.
LEMMA Shapes ==
  ASSUME LinkInv, NEW t \in Tasks
  PROVE  /\ task[t] = Rec(task[t].pc, task[t].safe, task[t].attempt, task[t].link,
                          task[t].then, task[t].sent)
         /\ task[t].pc \in Pcs /\ task[t].safe \in BOOLEAN
         /\ task[t].attempt \in 0..MaxAttempts
         /\ task[t].link \in Links \cup {HalfOpen, None}
         /\ task[t].then \in {"out", "check", "held"} /\ task[t].sent \in Nat
         /\ \A p : Set(t, p) = Rec(p, task[t].safe, task[t].attempt, task[t].link,
                                   task[t].then, task[t].sent)
         /\ Fits(t)
<1>1. task[t] \in TaskType /\ Fits(t)
  BY DEF LinkInv, LinkTypeOK
<1>2. \A r \in TaskType :
        /\ r = Rec(r.pc, r.safe, r.attempt, r.link, r.then, r.sent)
        /\ r.pc \in Pcs /\ r.safe \in BOOLEAN /\ r.attempt \in 0..MaxAttempts
        /\ r.link \in Links \cup {HalfOpen, None}
        /\ r.then \in {"out", "check", "held"} /\ r.sent \in Nat
        /\ \A p : [r EXCEPT !.pc = p] = Rec(p, r.safe, r.attempt, r.link, r.then, r.sent)
  BY DEF TaskType, Rec
<1> QED
  BY <1>1, <1>2 DEF Set

\* ... without the changes.
LEMMA Typed ==
  ASSUME LinkInv, NEW t \in Tasks
  PROVE  /\ task[t].pc \in Pcs /\ task[t].safe \in BOOLEAN
         /\ task[t].attempt \in 0..MaxAttempts
         /\ task[t].link \in Links \cup {HalfOpen, None}
         /\ task[t].then \in {"out", "check", "held"} /\ task[t].sent \in Nat
         /\ Fits(t) /\ ClientOf[t] \in Clients
BY Shapes

LEMMA OthersTyped == LinkInv => Others /\ ClientsFit
BY DEF LinkInv, LinkTypeOK, Others

\* A task that is out, or that waits for the lock, fits whatever it left.
LEMMA OutFits ==
  ASSUME NEW t \in Tasks, task'[t].pc = "out", task'[t].sent \in {0, 1}
  PROVE  Fits(t)'
BY DEF Fits, ToRun, ToTry, InSession

LEMMA ExitsType ==
  ASSUME LinkInv, NEW t \in Tasks, Exits(t)
  PROVE  /\ task' = [task EXCEPT ![t] = task'[t]] /\ task'[t] \in TaskType /\ Fits(t)'
         /\ lock' \in Tasks \cup {None}
<1>1. task'[t] = Rec("out", TRUE, 0, None, "out", task[t].sent)
  BY DEF Exits, Out, Rec, LinkInv, LinkTypeOK
<1>2. task[t].sent \in {0, 1}
  BY Shapes DEF Fits
<1>3. task'[t] \in TaskType
  BY <1>1, <1>2 DEF TaskType, Rec, Pcs
<1>4. task'[t].pc = "out" /\ task'[t].sent \in {0, 1}
  BY <1>1, <1>2 DEF Rec
<1> QED
  BY <1>3, <1>4, OutFits DEF Exits, LinkInv, LinkTypeOK

-----------------------------------------------------------------------------
(* One lemma per action of a task. *)

LEMMA ByRequest ==
  ASSUME LinkInv, NEW t \in Tasks, Request(t) PROVE LinkInv'
<1>1. PICK safe \in BOOLEAN :
        task' = [task EXCEPT ![t] = [Out EXCEPT !.pc = "wait", !.safe = safe]]
  BY DEF Request
<1>2. task'[t] = Rec("wait", safe, 0, None, "out", 0)
  BY <1>1 DEF LinkInv, LinkTypeOK, Out, Rec
<1>3. task'[t] \in TaskType
  BY <1>2 DEF TaskType, Rec, Pcs
<1>4. Fits(t)'
  BY <1>2 DEF Fits, ToRun, ToTry, InSession, Rec
<1>5. Others' /\ ClientsFit'
  BY DEF Request, LinkInv, LinkTypeOK, Others, ClientsFit
<1> QED
  BY <1>1, <1>2, <1>3, <1>4, <1>5, OneMoves DEF Request

LEMMA ByEnter ==
  ASSUME LinkInv, NEW t \in Tasks, Enter(t) PROVE LinkInv'
<1>1. task' = [task EXCEPT ![t] = task'[t]] /\ task'[t] = Rec("check", task[t].safe, task[t].attempt, task[t].link,
          task[t].then, task[t].sent)
  BY Shapes DEF Enter, LinkInv, LinkTypeOK, Rec, Goto
<1>0. /\ task[t].pc \in Pcs /\ task[t].safe \in BOOLEAN
      /\ task[t].attempt \in 0..MaxAttempts
      /\ task[t].link \in Links \cup {HalfOpen, None}
      /\ task[t].then \in {"out", "check", "held"} /\ task[t].sent \in Nat
      /\ Fits(t)
  BY Typed
<1>2. task'[t] \in TaskType
  BY <1>0, <1>1 DEF Enter, TaskType, Rec, Pcs, Fits, ToTry
<1>3. Fits(t)'
  BY <1>0, <1>1 DEF Enter, Fits, ToRun, ToTry, InSession, Rec
<1>4. Others' /\ ClientsFit'
  BY DEF Enter, LinkInv, LinkTypeOK, Others, ClientsFit
<1> QED
  BY <1>1, <1>2, <1>3, <1>4, <1>0, OneMoves DEF Enter, Fits

LEMMA ByCheck ==
  ASSUME LinkInv, NEW t \in Tasks, Check(t) PROVE LinkInv'
<1>1. task' = [task EXCEPT ![t] = task'[t]] /\ task'[t] = Rec("begin", task[t].safe, task[t].attempt + 1, task[t].link,
          task[t].then, task[t].sent)
  BY Shapes DEF Check, LinkInv, LinkTypeOK, Rec
<1>0. /\ task[t].pc \in Pcs /\ task[t].safe \in BOOLEAN
      /\ task[t].attempt \in 0..MaxAttempts
      /\ task[t].link \in Links \cup {HalfOpen, None}
      /\ task[t].then \in {"out", "check", "held"} /\ task[t].sent \in Nat
      /\ Fits(t)
  BY Typed
<1>2. task'[t] \in TaskType
  BY <1>0, <1>1 DEF Check, TaskType, Rec, Pcs, Fits, ToTry
<1>3. Fits(t)'
  BY <1>0, <1>1 DEF Check, Fits, ToRun, ToTry, InSession, Rec
<1>4. Others' /\ ClientsFit'
  BY DEF Check, LinkInv, LinkTypeOK, Others, ClientsFit
<1> QED
  BY <1>1, <1>2, <1>3, <1>4, <1>0, OneMoves DEF Check, Fits

LEMMA ByRecover ==
  ASSUME LinkInv, NEW t \in Tasks, Recover(t) PROVE LinkInv'
<1>1. task' = [task EXCEPT ![t] = task'[t]] /\ task'[t] = Rec("begin", task[t].safe, task[t].attempt + 1, task[t].link,
          task[t].then, task[t].sent)
  BY Shapes DEF Recover, LinkInv, LinkTypeOK, Rec
<1>0. /\ task[t].pc \in Pcs /\ task[t].safe \in BOOLEAN
      /\ task[t].attempt \in 0..MaxAttempts
      /\ task[t].link \in Links \cup {HalfOpen, None}
      /\ task[t].then \in {"out", "check", "held"} /\ task[t].sent \in Nat
      /\ Fits(t)
  BY Typed
<1>2. task'[t] \in TaskType
  BY <1>0, <1>1 DEF Recover, TaskType, Rec, Pcs, Fits, ToTry
<1>3. Fits(t)'
  BY <1>0, <1>1 DEF Recover, Fits, ToRun, ToTry, InSession, Rec
<1>4. Others' /\ ClientsFit'
  BY DEF Recover, LinkInv, LinkTypeOK, Others, ClientsFit, Closed
<1> QED
  BY <1>1, <1>2, <1>3, <1>4, <1>0, OneMoves DEF Recover, Fits

LEMMA ByRecoverFails ==
  ASSUME LinkInv, NEW t \in Tasks, RecoverFails(t) PROVE LinkInv'
<1>1. Exits(t)
  BY DEF RecoverFails
<1>2. Others' /\ ClientsFit'
  BY <1>1, ExitsType DEF RecoverFails, LinkInv, LinkTypeOK, Others, ClientsFit
<1> QED
  BY <1>1, <1>2, ExitsType, Shapes, OneMoves DEF RecoverFails, Fits

LEMMA ByExit ==
  ASSUME LinkInv, NEW t \in Tasks, Exit(t) PROVE LinkInv'
<1>1. Exits(t)
  BY DEF Exit
<1>2. Others' /\ ClientsFit'
  BY <1>1, ExitsType DEF Exit, LinkInv, LinkTypeOK, Others, ClientsFit
<1> QED
  BY <1>1, <1>2, ExitsType, Shapes, OneMoves DEF Exit, Fits

LEMMA ByAgain ==
  ASSUME LinkInv, NEW t \in Tasks, Again(t) PROVE LinkInv'
<1>0. Fits(t)
  BY Typed
<1>1. PICK safe \in BOOLEAN :
        task' = [task EXCEPT ![t] = [Out EXCEPT !.pc = "check", !.safe = safe]]
  BY DEF Again
<1>2. task'[t] = Rec("check", safe, 0, None, "out", 0)
  BY <1>1 DEF LinkInv, LinkTypeOK, Out, Rec
<1>3. task'[t] \in TaskType
  BY <1>2 DEF TaskType, Rec, Pcs
<1>6. lock' = t
  BY <1>0 DEF Again, Fits
<1>4. Fits(t)'
  BY <1>2, <1>6 DEF Fits, ToRun, ToTry, InSession, Rec
<1>5. Others' /\ ClientsFit'
  BY DEF Again, LinkInv, LinkTypeOK, Others, ClientsFit
<1> QED
  BY <1>1, <1>2, <1>3, <1>4, <1>5, <1>0, OneMoves DEF Again, Fits

LEMMA ByReuse ==
  ASSUME LinkInv, NEW t \in Tasks, Reuse(t) PROVE LinkInv'
<1> DEFINE c == ClientOf[t]
<1>1. /\ task' = [task EXCEPT ![t] = task'[t]]
      /\ task'[t] = Rec("running", task[t].safe, task[t].attempt, up, task[t].then, task[t].sent)
  BY Shapes DEF Reuse, LinkInv, LinkTypeOK, Rec
<1>2. c \in Clients /\ Fits(t) /\ Others
  BY Typed, OthersTyped
<1>3. up \in Links /\ idle' = [idle EXCEPT ![c] = FALSE] /\ idle' \in [Clients -> BOOLEAN]
  BY <1>2 DEF Reuse, Others
<1>4. task'[t] \in TaskType
  BY <1>1, <1>3, Typed DEF TaskType, Rec, Pcs
<1>5. Fits(t)'
  BY <1>1, <1>2, <1>3, OthersTyped DEF ClientsFit, Reuse, Fits, ToRun, ToTry, InSession, Rec, Others
<1>6. Others' /\ ClientsFit'
  BY <1>2, <1>3, OthersTyped DEF Reuse, Others, ClientsFit
<1> QED
  BY <1>1, <1>2, <1>4, <1>5, <1>6, OneMoves DEF Reuse, Fits

\* _reset_session_state and the background disconnect keep the types.
LEMMA ReleaseType ==
  ASSUME Others, NEW c \in Persistent, Release(c)
  PROVE  /\ active' \in [Clients -> Links \cup {None}]
         /\ releases' \in [Clients -> SUBSET Links]
         /\ \A d \in Clients : d # c => active'[d] = active[d] /\ releases'[d] = releases[d]
BY DEF Others, Release

LEMMA ByRenew ==
  ASSUME LinkInv, NEW t \in Tasks, Renew(t) PROVE LinkInv'
<1> DEFINE c == ClientOf[t]
<1>1. /\ task' = [task EXCEPT ![t] = task'[t]]
      /\ task'[t] = Rec("draining", task[t].safe, task[t].attempt, task[t].link,
                        task[t].then, task[t].sent)
  BY Shapes DEF Renew, Goto, LinkInv, LinkTypeOK, Rec
<1>2. c \in Persistent /\ c \in Clients /\ Fits(t) /\ Others /\ ClientsFit
  BY Typed, OthersTyped DEF Renew, Holds
<1>3. idle' \in [Clients -> BOOLEAN] /\ idle' = [idle EXCEPT ![c] = FALSE] /\ Release(c)
  BY <1>2 DEF Renew, Others
<1>4. task'[t] \in TaskType
  BY <1>1, Typed DEF TaskType, Rec, Pcs
<1>5. Fits(t)'
  BY <1>1, <1>2, <1>3 DEF Renew, Fits, ToRun, ToTry, InSession, Rec, Others
<1>6. Others'
  BY <1>2, <1>3, ReleaseType DEF Renew, Others
<1>7. ClientsFit'
  BY <1>2, <1>3 DEF ClientsFit, Others, Release
<1> QED
  BY <1>1, <1>2, <1>4, <1>5, <1>6, <1>7, OneMoves DEF Renew, Fits

LEMMA ByDrain ==
  ASSUME LinkInv, NEW t \in Tasks, Drain(t) PROVE LinkInv'
<1>1. /\ task' = [task EXCEPT ![t] = task'[t]]
      /\ task'[t] = Rec("connecting", task[t].safe, task[t].attempt, task[t].link,
                        task[t].then, task[t].sent)
  BY Shapes DEF Drain, Goto, LinkInv, LinkTypeOK, Rec
<1>2. Fits(t) /\ Others /\ ClientsFit
  BY Typed, OthersTyped
<1>3. task'[t] \in TaskType
  BY <1>1, Typed DEF TaskType, Rec, Pcs
<1>4. Fits(t)'
  BY <1>1, <1>2 DEF Drain, Fits, ToRun, ToTry, InSession, Rec
<1>5. Others' /\ ClientsFit'
  BY <1>2 DEF Drain, Others, ClientsFit
<1> QED
  BY <1>1, <1>2, <1>3, <1>4, <1>5, OneMoves DEF Drain, Fits

LEMMA ByResolve ==
  ASSUME LinkInv, NEW t \in Tasks, Resolve(t) PROVE LinkInv'
<1>1. /\ task' = [task EXCEPT ![t] = task'[t]]
      /\ task'[t] = Rec("connecting", task[t].safe, task[t].attempt, task[t].link,
                        task[t].then, task[t].sent)
  BY Shapes DEF Resolve, Goto, LinkInv, LinkTypeOK, Rec
<1>2. Fits(t) /\ Others /\ ClientsFit /\ ClientOf[t] \in Clients
  BY Typed, OthersTyped
<1>3. task'[t] \in TaskType
  BY <1>1, Typed DEF TaskType, Rec, Pcs
<1>4. ~idle[ClientOf[t]] /\ releases[ClientOf[t]] = {}
  BY <1>2 DEF Resolve, Holds, ClientsFit
<1>5. Fits(t)'
  BY <1>1, <1>2, <1>4 DEF Resolve, Fits, ToRun, ToTry, InSession, Rec
<1>6. Others' /\ ClientsFit'
  BY <1>2 DEF Resolve, Others, ClientsFit
<1> QED
  BY <1>1, <1>2, <1>3, <1>5, <1>6, OneMoves DEF Resolve, Fits

LEMMA ByConnect ==
  ASSUME LinkInv, NEW t \in Tasks, Connect(t) PROVE LinkInv'
<1> DEFINE c == ClientOf[t]
<1>1. /\ task' = [task EXCEPT ![t] = task'[t]]
      /\ task'[t] = Rec("running", task[t].safe, task[t].attempt, up', task[t].then, task[t].sent)
  BY Shapes DEF Connect, LinkInv, LinkTypeOK, Rec
<1>2. Fits(t) /\ Others /\ ClientsFit /\ c \in Clients
  BY Typed, OthersTyped
<1>3. up' \in Links /\ made' \in 0..MaxLinks
  BY <1>2 DEF Connect, Established, Links, Others
<1>4. task'[t] \in TaskType
  BY <1>1, <1>3, Typed DEF TaskType, Rec, Pcs
<1>5. releases[c] = {} /\ ~idle[c]
  BY <1>2 DEF Connect, Fits
<1>6. Fits(t)'
  BY <1>1, <1>2, <1>5 DEF Connect, Fits, ToRun, ToTry, InSession, Rec
<1>7. Others'
  BY <1>2, <1>3 DEF Connect, Others
<1>8. ClientsFit'
  BY <1>2, <1>5 DEF Connect, Others, ClientsFit, Holds
<1> QED
  BY <1>1, <1>2, <1>4, <1>6, <1>7, <1>8, OneMoves DEF Connect, Fits

\* A task that goes to clean up its connection.
LEMMA CleansUp ==
  ASSUME LinkInv, NEW t \in Tasks, NEW h \in {"out", "check", "held"},
         task[t].pc \in {"connecting", "running"},
         NEW l \in Links \cup {HalfOpen, None}, NEW n \in {0, 1},
         h = "check" => n = 0 /\ task[t].attempt < MaxAttempts,
         task' = [task EXCEPT ![t] =
                    Rec("cleanup", task[t].safe, task[t].attempt, l, h, n)],
         UNCHANGED lock, Others', ClientsFit'
  PROVE  LinkInv'
<1>1. task'[t] = Rec("cleanup", task[t].safe, task[t].attempt, l, h, n)
  BY DEF LinkInv, LinkTypeOK
<1>2. Fits(t)
  BY Typed
<1>3. task'[t] \in TaskType
  BY <1>1, Typed DEF TaskType, Rec, Pcs
<1>4. Fits(t)'
  BY <1>1, <1>2 DEF Fits, ToRun, ToTry, InSession, Rec
<1> QED
  BY <1>1, <1>2, <1>3, <1>4, OneMoves DEF Fits

LEMMA ByConnectLate ==
  ASSUME LinkInv, NEW t \in Tasks, ConnectLate(t) PROVE LinkInv'
<1>1. Fits(t) /\ Others /\ ClientsFit /\ task[t].sent \in {0, 1}
  BY Typed, OthersTyped DEF Fits
<1>2. up' \in Links /\ made' \in 0..MaxLinks
  BY <1>1 DEF ConnectLate, Established, Links, Others
<1>3. ClientsFit'
  BY <1>1 DEF ConnectLate, ClientsFit
<1>4. CASE Holds(t)
  <2>1. Exits(t)
    BY <1>4 DEF ConnectLate
  <2>2. Others'
    BY <1>1, <1>2, <2>1, ExitsType DEF ConnectLate, Others
  <2> QED
    BY <1>1, <1>3, <2>1, <2>2, ExitsType, OneMoves DEF ConnectLate, Fits
<1>5. CASE ~Holds(t)
  <2>1. task' = [task EXCEPT ![t] = Rec("cleanup", task[t].safe, task[t].attempt, up', "out",
                                        task[t].sent)]
    BY <1>5 DEF ConnectLate, Moved, Rec
  <2>2. UNCHANGED lock /\ Others'
    BY <1>1, <1>2, <1>5 DEF ConnectLate, Others
  <2> QED
    BY <1>1, <1>2, <1>3, <2>1, <2>2, CleansUp DEF ConnectLate
<1> QED
  BY <1>4, <1>5

LEMMA ByConnectFails ==
  ASSUME LinkInv, NEW t \in Tasks, ConnectFails(t) PROVE LinkInv'
<1>1. Fits(t) /\ Others /\ ClientsFit /\ task[t].sent = 0
  BY Typed, OthersTyped DEF ConnectFails, Fits, ToRun, InSession
<1>2. CASE Holds(t)
  <2>1. Exits(t)
    BY <1>2 DEF ConnectFails
  <2>2. idle' \in [Clients -> BOOLEAN]
    <3>1. task[t].safe \in BOOLEAN
      BY Typed
    <3>2. (task[t].safe /\ ClientOf[t] \notin HoldForever) \in BOOLEAN
      BY <3>1
    <3> QED
      BY <1>1, <1>2, <3>2 DEF ConnectFails, Others
  <2>3. Others'
    BY <1>1, <2>1, <2>2, ExitsType DEF ConnectFails, Others
  <2>4. ClientsFit'
    BY <1>1, <1>2 DEF ConnectFails, ClientsFit, Others, Holds
  <2> QED
    BY <1>1, <2>1, <2>3, <2>4, ExitsType, OneMoves DEF ConnectFails, Fits
<1>3. CASE ~Holds(t)
  <2>1. PICK h \in Afterwards(t) :
          task' = [task EXCEPT ![t] = Moved(t, "cleanup", HalfOpen, h, task[t].sent)]
    BY <1>3 DEF ConnectFails
  <2>2. task' = [task EXCEPT ![t] = Rec("cleanup", task[t].safe, task[t].attempt, HalfOpen, h,
                                        task[t].sent)]
    BY <2>1 DEF Moved, Rec
  <2>3. h \in {"out", "check", "held"} /\ (h = "check" => task[t].attempt < MaxAttempts)
    BY DEF Afterwards
  <2>4. UNCHANGED lock /\ Others' /\ ClientsFit'
    BY <1>1, <1>3 DEF ConnectFails, Others, ClientsFit
  <2> QED
    BY <1>1, <2>2, <2>3, <2>4, CleansUp DEF ConnectFails
<1> QED
  BY <1>2, <1>3

LEMMA ByOpSucceeds ==
  ASSUME LinkInv, NEW t \in Tasks, OpSucceeds(t) PROVE LinkInv'
<1> DEFINE c == ClientOf[t]
           n == IF task[t].safe THEN task[t].sent ELSE task[t].sent + 1
<1>1. Fits(t) /\ Others /\ ClientsFit /\ c \in Clients /\ task[t].sent = 0
  BY Typed, OthersTyped DEF OpSucceeds, Fits, ToRun, InSession
<1>2. n \in {0, 1}
  BY <1>1
<1> HIDE DEF n
<1>3. CASE Holds(t)
  <2>1. /\ task' = [task EXCEPT ![t] = task'[t]]
        /\ task'[t] = Rec("held", task[t].safe, task[t].attempt, None, "out", n)
    BY <1>3 DEF OpSucceeds, LinkInv, LinkTypeOK, n, Moved, Rec
  <2>2. task'[t] \in TaskType
    BY <1>2, <2>1, Typed DEF TaskType, Rec, Pcs
  <2>3. Fits(t)'
    BY <1>1, <1>2, <2>1 DEF OpSucceeds, Fits, ToRun, ToTry, InSession, Rec
  <2>4. idle' = [idle EXCEPT ![c] = c \notin HoldForever]
    BY <1>3 DEF OpSucceeds
  <2>5. Others'
    BY <1>1, <2>4 DEF OpSucceeds, Others
  <2>6. ClientsFit'
    BY <1>1, <1>3, <2>4 DEF OpSucceeds, Others, ClientsFit, Holds
  <2> QED
    BY <1>1, <2>1, <2>2, <2>3, <2>5, <2>6, OneMoves DEF OpSucceeds, Fits
<1>4. CASE ~Holds(t)
  <2>1. task' = [task EXCEPT ![t] = Rec("cleanup", task[t].safe, task[t].attempt, task[t].link,
                                        "held", n)]
    BY <1>4 DEF OpSucceeds, n, Moved, Rec
  <2>2. UNCHANGED lock /\ Others' /\ ClientsFit'
    BY <1>1, <1>4 DEF OpSucceeds, Others, ClientsFit
  <2> QED
    BY <1>2, <2>1, <2>2, Typed, CleansUp DEF OpSucceeds
<1> QED
  BY <1>3, <1>4

LEMMA ByOpFails ==
  ASSUME LinkInv, NEW t \in Tasks, OpFails(t) PROVE LinkInv'
<1> DEFINE c == ClientOf[t]
<1>1. Fits(t) /\ Others /\ ClientsFit /\ c \in Clients /\ task[t].sent = 0 /\ lock = t
  BY Typed, OthersTyped DEF OpFails, Fits, ToRun, InSession
<1>2. PICK n \in Sent(t), h \in Afterwards(t) :
        IF Holds(t)
          THEN /\ Release(c)
               /\ IF h = "out"
                    THEN /\ lock' = None
                         /\ task' = [task EXCEPT ![t] = [Out EXCEPT !.sent = n]]
                    ELSE /\ UNCHANGED lock
                         /\ task' = [task EXCEPT ![t] = [Moved(t, "begin", None, "out", n)
                                                       EXCEPT !.attempt = @ + 1]]
          ELSE /\ task' = [task EXCEPT ![t] = Moved(t, "cleanup", task[t].link, h, n)]
               /\ UNCHANGED <<lock, active, releases>>
  BY DEF OpFails
<1>3. /\ n \in {0, 1} /\ h \in {"out", "check"}
      /\ h = "check" => n = 0 /\ task[t].attempt < MaxAttempts
  BY <1>1, <1>2 DEF Sent, Afterwards
<1>4. CASE Holds(t)
  <2>1. c \in Persistent /\ Release(c)
    BY <1>2, <1>4 DEF Holds
  <2>2. Others' /\ ClientsFit'
    <3>1. lock' \in Tasks \cup {None}
      BY <1>1, <1>2, <1>4 DEF Others
    <3>2. Others'
      BY <1>1, <2>1, <3>1, ReleaseType DEF OpFails, Others
    <3>3. ClientsFit'
      BY <1>1, <2>1 DEF OpFails, ClientsFit, Others, Release
    <3> QED
      BY <3>2, <3>3
  <2>3. CASE h = "out"
    <3>1. task' = [task EXCEPT ![t] = task'[t]] /\ task'[t] = Rec("out", TRUE, 0, None, "out", n)
      BY <1>2, <1>4, <2>3 DEF Out, Rec, LinkInv, LinkTypeOK
    <3>2. task'[t] \in TaskType
      BY <1>3, <3>1 DEF TaskType, Rec, Pcs
    <3>3. Fits(t)'
      BY <1>3, <3>1 DEF Fits, ToRun, ToTry, InSession, Rec
    <3> QED
      BY <1>1, <2>2, <3>1, <3>2, <3>3, OneMoves
  <2>4. CASE h = "check"
    <3>1. /\ task' = [task EXCEPT ![t] = task'[t]]
          /\ task'[t] = Rec("begin", task[t].safe, task[t].attempt + 1, None, "out", n)
      BY <1>2, <1>4, <2>4 DEF LinkInv, LinkTypeOK, Moved, Rec
    <3>2. task'[t] \in TaskType
      BY <1>3, <2>4, <3>1, Typed DEF TaskType, Rec, Pcs
    <3>3. lock' = t /\ deferred' = None
      BY <1>1, <1>2, <1>4, <2>4 DEF OpFails, Fits, InSession
    <3>4. Fits(t)'
      BY <1>3, <2>4, <3>1, <3>3 DEF Fits, ToRun, ToTry, InSession, Rec
    <3> QED
      BY <1>1, <2>2, <3>1, <3>2, <3>4, OneMoves
  <2> QED
    BY <1>3, <2>3, <2>4
<1>5. CASE ~Holds(t)
  <2>1. task' = [task EXCEPT ![t] = Rec("cleanup", task[t].safe, task[t].attempt, task[t].link,
                                        h, n)]
    BY <1>2, <1>5 DEF Moved, Rec
  <2>2. UNCHANGED lock /\ Others' /\ ClientsFit'
    BY <1>1, <1>2, <1>5 DEF OpFails, Others, ClientsFit
  <2> QED
    BY <1>3, <2>1, <2>2, Typed, CleansUp DEF OpFails
<1> QED
  BY <1>4, <1>5

\* What follows a cleanup, done or left: the task leaves, goes on, or tries again.
LEMMA ByCleanedUp ==
  ASSUME LinkInv, NEW t \in Tasks, task[t].pc = "cleanup", CleanedUp(t), ClientsFit',
         deferred' \in Links \cup {HalfOpen, None}, up' \in Links \cup {None},
         UNCHANGED <<made, active, releases, failed, idle, calls>>
  PROVE  LinkInv'
<1>1. Fits(t) /\ Others /\ task[t].sent \in {0, 1} /\ lock = t
  BY Typed, OthersTyped DEF Fits
<1>2. CASE task[t].then = "out"
  <2>1. Exits(t)
    BY <1>2 DEF CleanedUp
  <2>2. Others'
    BY <1>1, <2>1, ExitsType DEF Others
  <2> QED
    BY <1>1, <2>1, <2>2, ExitsType, OneMoves
<1>3. CASE task[t].then # "out"
  <2>1. task[t].then \in {"check", "held"} /\ task[t].then \in Pcs
    BY <1>3, Typed DEF Pcs
  <2>2. /\ task' = [task EXCEPT ![t] = task'[t]] /\ UNCHANGED lock
        /\ task'[t] = Rec(task[t].then, task[t].safe, task[t].attempt, None, "out", task[t].sent)
    BY <1>3 DEF CleanedUp, LinkInv, LinkTypeOK, Moved, Rec
  <2>3. task'[t] \in TaskType
    BY <2>1, <2>2, Typed DEF TaskType, Rec
  <2>4. Fits(t)'
    BY <1>1, <2>1, <2>2 DEF Fits, ToRun, ToTry, InSession, Rec
  <2>5. Others'
    BY <1>1, <2>2 DEF Others
  <2> QED
    BY <1>1, <2>2, <2>3, <2>4, <2>5, OneMoves
<1> QED
  BY <1>2, <1>3

LEMMA ByCleanup ==
  ASSUME LinkInv, NEW t \in Tasks, Cleanup(t) PROVE LinkInv'
<1>1. Others /\ ClientsFit
  BY OthersTyped
<1>2. ClientsFit' /\ deferred' \in Links \cup {HalfOpen, None} /\ up' \in Links \cup {None}
  BY <1>1 DEF Cleanup, ClientsFit, Closed, Others
<1> QED
  BY <1>2, ByCleanedUp DEF Cleanup

LEMMA ByCleanupFails ==
  ASSUME LinkInv, NEW t \in Tasks, CleanupFails(t) PROVE LinkInv'
<1>1. Others /\ ClientsFit
  BY OthersTyped
<1>2. ClientsFit' /\ deferred' \in Links \cup {HalfOpen, None} /\ up' \in Links \cup {None}
  BY <1>1, Typed DEF CleanupFails, ClientsFit, Others
<1> QED
  BY <1>2, ByCleanedUp DEF CleanupFails

LEMMA ByCancel ==
  ASSUME LinkInv, NEW t \in Tasks, Cancel(t) PROVE LinkInv'
<1> DEFINE c == ClientOf[t]
<1>1. Fits(t) /\ Others /\ ClientsFit /\ c \in Clients /\ task[t].sent \in {0, 1}
  BY Typed, OthersTyped DEF Fits
<1>2. CASE task[t].pc = "wait"
  <2>1. /\ task' = [task EXCEPT ![t] = task'[t]]
        /\ task'[t] = Rec("out", task[t].safe, task[t].attempt, task[t].link, task[t].then,
                          task[t].sent)
    BY <1>2, Shapes DEF Cancel, Goto, LinkInv, LinkTypeOK, Rec
  <2>2. task'[t] \in TaskType
    BY <2>1, Typed DEF TaskType, Rec, Pcs
  <2>3. Fits(t)'
    BY <1>1, <2>1 DEF Fits, ToRun, ToTry, InSession, Rec
  <2>4. UNCHANGED <<lock, deferred, idle, releases>> /\ Others' /\ ClientsFit'
    BY <1>1, <1>2 DEF Cancel, Others, ClientsFit
  <2> QED
    BY <2>1, <2>2, <2>3, <2>4, OneMoves
<1>3. CASE task[t].pc \in {"connecting", "running"} /\ ~Holds(t)
  <2> DEFINE l == IF task[t].link = None THEN HalfOpen ELSE task[t].link
  <2>1. l \in Links \cup {HalfOpen, None}
    BY Typed
  <2> HIDE DEF l
  <2>2. task' = [task EXCEPT ![t] = Rec("cleanup", task[t].safe, task[t].attempt, l, "out",
                                        task[t].sent)]
    BY <1>3 DEF Cancel, Moved, Rec, l
  <2>3. UNCHANGED lock /\ Others' /\ ClientsFit'
    BY <1>1, <1>3 DEF Cancel, Others, ClientsFit
  <2> QED
    BY <1>1, <1>3, <2>1, <2>2, <2>3, CleansUp
<1>4. CASE task[t].pc = "running" /\ Holds(t)
  <2>1. Exits(t) /\ (Release(c) \/ UNCHANGED <<active, releases>>)
    BY <1>4 DEF Cancel
  <2>2. c \in Persistent
    BY <1>4 DEF Holds
  <2>3. /\ active' \in [Clients -> Links \cup {None}]
        /\ releases' \in [Clients -> SUBSET Links]
    BY <1>1, <2>1, <2>2, ReleaseType DEF Others
  <2>4. Others'
    BY <1>1, <2>1, <2>3, ExitsType DEF Cancel, Others
  <2>5. ClientsFit'
    BY <1>1, <2>1, <2>2 DEF Cancel, Others, ClientsFit, Release
  <2> QED
    BY <1>1, <1>4, <2>1, <2>4, <2>5, ExitsType, OneMoves DEF Fits
<1>5. CASE /\ task[t].pc \notin {"out", "wait", "cleanup"}
           /\ ~(task[t].pc \in {"connecting", "running"} /\ ~Holds(t))
           /\ ~(task[t].pc = "running" /\ Holds(t))
  <2>1. Exits(t) /\ UNCHANGED <<active, releases, deferred, up, made, failed, idle, calls>>
    BY <1>5 DEF Cancel
  <2>2. Others' /\ ClientsFit'
    BY <1>1, <2>1, ExitsType DEF Others, ClientsFit
  <2> QED
    BY <1>1, <1>5, <2>1, <2>2, ExitsType, OneMoves DEF Fits
<1> QED
  BY <1>2, <1>3, <1>4, <1>5 DEF Cancel

-----------------------------------------------------------------------------
(* The steps of no task: nothing of theirs changes, and a client releases   *)
(* only while none of its tasks counts on it.                               *)

LEMMA NobodyMoves ==
  ASSUME LinkInv, UNCHANGED <<task, lock, deferred>>, Others', ClientsFit',
         \A c \in Clients :
           \/ UNCHANGED <<idle[c], releases[c]>>
           \/ ~idle'[c] /\ releases'[c] \subseteq releases[c]
           \/ ~idle'[c] /\ \A t \in Tasks : ClientOf[t] = c =>
                             task[t].pc \notin {"draining", "connecting", "running"}
  PROVE  LinkInv'
<1>1. task' \in [Tasks -> TaskType]
  BY DEF LinkInv, LinkTypeOK
<1>2. ASSUME NEW t \in Tasks PROVE Fits(t)'
  <2>1. Fits(t) /\ ClientOf[t] \in Clients
    BY Typed
  <2>2. /\ task[t].pc \in {"draining", "connecting", "running"} => ~idle'[ClientOf[t]]
        /\ task[t].pc \in {"connecting", "running"} => releases'[ClientOf[t]] = {}
    BY <2>1 DEF Fits
  <2> QED
    BY <2>1, <2>2 DEF Fits, ToRun, ToTry
<1> QED
  BY <1>1, <1>2 DEF LinkInv, LinkTypeOK, Others

LEMMA ByIdleRelease ==
  ASSUME LinkInv, NEW c \in Clients, IdleRelease(c) PROVE LinkInv'
<1>1. Others /\ ClientsFit
  BY OthersTyped
<1>2. c \in Persistent /\ Release(c) /\ idle' = [idle EXCEPT ![c] = FALSE]
  BY <1>1 DEF IdleRelease, ClientsFit
<1>3. Others'
  BY <1>1, <1>2, ReleaseType DEF IdleRelease, Others
<1>4. ClientsFit'
  BY <1>1, <1>2 DEF ClientsFit, Others, Release
<1>5. ~idle'[c] /\ \A t \in Tasks : ClientOf[t] = c =>
                     task[t].pc \notin {"draining", "connecting", "running"}
  BY <1>1, <1>2, Typed DEF IdleRelease, Fits, Others
<1>6. \A d \in Clients : d # c => UNCHANGED <<idle[d], releases[d]>>
  BY <1>1, <1>2 DEF Release, Others
<1> QED
  BY <1>3, <1>4, <1>5, <1>6, NobodyMoves DEF IdleRelease

LEMMA ByDisconnect ==
  ASSUME LinkInv, NEW c \in Clients, Disconnect(c) PROVE LinkInv'
<1>1. Others /\ ClientsFit
  BY OthersTyped
<1>2. c \in Persistent /\ Release(c) /\ idle' = [idle EXCEPT ![c] = FALSE]
  BY DEF Disconnect
<1>3. Others'
  BY <1>1, <1>2, ReleaseType DEF Disconnect, Others
<1>4. ClientsFit'
  BY <1>1, <1>2 DEF ClientsFit, Others, Release
<1>5. ~idle'[c] /\ \A t \in Tasks : ClientOf[t] = c =>
                     task[t].pc \notin {"draining", "connecting", "running"}
  BY <1>1, <1>2 DEF Disconnect, InSession, Others
<1>6. \A d \in Clients : d # c => UNCHANGED <<idle[d], releases[d]>>
  BY <1>1, <1>2 DEF Release, Others
<1> QED
  BY <1>3, <1>4, <1>5, <1>6, NobodyMoves DEF Disconnect

\* A background disconnect ends: one release less.
LEMMA ReleaseEnds ==
  ASSUME LinkInv, NEW c \in Clients, NEW l \in releases[c],
         releases' = [releases EXCEPT ![c] = @ \ {l}],
         up' \in Links \cup {None}, failed' \in Links \cup {None},
         UNCHANGED <<lock, deferred, made, active, idle, task, calls>>
  PROVE  LinkInv'
<1>1. Others /\ ClientsFit
  BY OthersTyped
<1>2. Others'
  BY <1>1 DEF Others
<1>3. ClientsFit'
  BY <1>1 DEF ClientsFit, Others
<1>5. task' \in [Tasks -> TaskType]
  BY DEF LinkInv, LinkTypeOK
<1>6. ASSUME NEW t \in Tasks PROVE Fits(t)'
  <2>1. Fits(t) /\ ClientOf[t] \in Clients
    BY Typed
  <2>2. releases[ClientOf[t]] = {} => releases'[ClientOf[t]] = {}
    BY <1>1, <2>1 DEF Others
  <2> QED
    BY <2>1, <2>2 DEF Fits, ToRun, ToTry
<1> QED
  BY <1>2, <1>3, <1>5, <1>6 DEF LinkInv, LinkTypeOK, Others

LEMMA ByReleaseDone ==
  ASSUME LinkInv, NEW c \in Clients, ReleaseDone(c) \/ ReleaseFails(c) PROVE LinkInv'
<1>1. Others
  BY OthersTyped
<1>2. CASE ReleaseDone(c)
  <2>1. PICK l \in releases[c] :
          releases' = [releases EXCEPT ![c] = @ \ {l}] /\ up' \in {Closed(l), None}
    BY <1>2 DEF ReleaseDone
  <2>2. up' \in Links \cup {None} /\ failed' \in Links \cup {None}
    BY <1>1, <1>2, <2>1 DEF ReleaseDone, Closed, Others
  <2> QED
    BY <1>2, <2>1, <2>2, ReleaseEnds DEF ReleaseDone
<1>3. CASE ReleaseFails(c)
  <2>1. PICK l \in releases[c] : /\ releases' = [releases EXCEPT ![c] = @ \ {l}]
                                 /\ failed' = IF up = l THEN l ELSE failed
    BY <1>3 DEF ReleaseFails
  <2>2. up' \in Links \cup {None} /\ failed' \in Links \cup {None}
    BY <1>1, <1>3, <2>1 DEF ReleaseFails, Others
  <2> QED
    BY <1>3, <2>1, <2>2, ReleaseEnds DEF ReleaseFails
<1> QED
  BY <1>2, <1>3

LEMMA ByDrop ==
  ASSUME LinkInv, Drop \/ UNCHANGED vars PROVE LinkInv'
<1>1. Others /\ ClientsFit
  BY OthersTyped
<1>2. Others' /\ ClientsFit' /\ UNCHANGED <<task, lock, deferred, idle, releases>>
  BY <1>1 DEF Drop, vars, Others, ClientsFit
<1> QED
  BY <1>2, NobodyMoves

-----------------------------------------------------------------------------
LEMMA InitInv == Init => LinkInv
<1> SUFFICES ASSUME Init PROVE LinkInv
  OBVIOUS
<1>1. Out \in TaskType
  BY DEF Out, TaskType, Pcs
<1>2. LinkTypeOK /\ ClientsFit
  BY <1>1 DEF Init, LinkTypeOK, ClientsFit
<1>3. ASSUME NEW t \in Tasks PROVE Fits(t)
  BY DEF Init, Out, Fits, ToRun, ToTry, InSession
<1> QED
  BY <1>2, <1>3 DEF LinkInv

LEMMA NextInv == LinkInv /\ [Next]_vars => LinkInv'
<1> SUFFICES ASSUME LinkInv, [Next]_vars PROVE LinkInv'
  OBVIOUS
<1>1. ASSUME NEW t \in Tasks, TaskStep(t) PROVE LinkInv'
  BY <1>1, ByCheck, ByRecover, ByRecoverFails, ByExit, ByReuse, ByRenew, ByDrain, ByResolve,
     ByConnect, ByConnectLate, ByConnectFails, ByOpSucceeds, ByOpFails, ByCleanup,
     ByCleanupFails DEF TaskStep
<1>2. ASSUME NEW t \in Tasks, Request(t) \/ Enter(t) \/ Again(t) \/ Cancel(t) PROVE LinkInv'
  BY <1>2, ByRequest, ByEnter, ByAgain, ByCancel
<1>3. ASSUME NEW c \in Clients,
             IdleRelease(c) \/ Disconnect(c) \/ ReleaseDone(c) \/ ReleaseFails(c)
      PROVE  LinkInv'
  BY <1>3, ByIdleRelease, ByDisconnect, ByReleaseDone
<1>4. CASE Drop \/ UNCHANGED vars
  BY <1>4, ByDrop
<1> QED
  BY <1>1, <1>2, <1>3, <1>4 DEF Next

LEMMA Invariant == Spec => []LinkInv
<1>1. LinkInv /\ [Next]_vars => LinkInv'
  BY NextInv
<1> QED
  BY InitInv, <1>1, PTL DEF Spec

\* The variables keep their types and no operation is tried more often than
\* REQUEST_MAX_ATTEMPTS, whatever the number of clients and tasks.
THEOREM LinkTypes == Spec => []LinkTypeOK
<1>1. LinkInv => LinkTypeOK
  BY DEF LinkInv
<1> QED
  BY Invariant, <1>1, PTL

\* ControllerLock: no operation runs over a cleanup that is still to be done,
\* through whichever client object it comes.
THEOREM NoCleanupOverrun == Spec => []RunsOverNoCleanup
<1>1. LinkInv => RunsOverNoCleanup
  BY DEF LinkInv, Fits, InSession, RunsOverNoCleanup, Running
<1> QED
  BY Invariant, <1>1, PTL

\* PersistentSolemClient: a release of the client is never under way while it
\* runs an operation.
THEOREM ReleasesDrained == Spec => []NoReleaseUnderway
<1>1. LinkInv => NoReleaseUnderway
  BY DEF LinkInv, Fits, NoReleaseUnderway, Running
<1> QED
  BY Invariant, <1>1, PTL

\* retry_safe=False: a mutation reaches the controller at most once.
THEOREM SentOnce == Spec => []NoReplay
<1>1. LinkInv => NoReplay
  BY DEF LinkInv, Fits, NoReplay
<1> QED
  BY Invariant, <1>1, PTL

-----------------------------------------------------------------------------
(* Somebody owns the connection the controller is on.                       *)

\* A task knows a connection while it runs or cleans up only; it cleans up as
\* the owner of the lock, over no other cleanup; and the connection on which a
\* persistent client runs an operation is the one the client holds.
LinkKnown(t) ==
  /\ task[t].pc = "cleanup" => deferred = None
  /\ task[t].pc \notin {"running", "cleanup"} => task[t].link = None
  /\ task[t].pc = "running" /\ Holds(t) => task[t].link = active[ClientOf[t]]

OwnerInv == LinkInv /\ LinkIsOwned /\ \A t \in Tasks : LinkKnown(t)

\* Only the task that owns the lock, or one on its way in, moves or defers; and
\* nobody resets a client one of whose operations runs.
LEMMA OwnerFrame ==
  ASSUME OwnerInv, NEW t \in Tasks,
         task' = [task EXCEPT ![t] = task'[t]],
         LinkKnown(t)',
         lock \in {t, None} \/ UNCHANGED <<deferred, active>>
  PROVE  \A u \in Tasks : LinkKnown(u)'
<1> SUFFICES ASSUME NEW u \in Tasks, u # t PROVE LinkKnown(u)'
  OBVIOUS
<1>1. task'[u] = task[u] /\ LinkKnown(u) /\ Fits(u)
  BY Typed DEF OwnerInv, LinkInv, LinkTypeOK
<1>2. CASE lock \in {t, None}
  <2>1. task[u].pc \in {"out", "wait"}
    BY <1>1, <1>2 DEF Fits
  <2> QED
    BY <1>1, <2>1 DEF LinkKnown
<1>3. CASE UNCHANGED <<deferred, active>>
  BY <1>1, <1>3 DEF LinkKnown, Holds
<1> QED
  BY <1>2, <1>3

\* The owners of a connection among the fields that all tasks share.
Kept(l) == \/ l = deferred \/ l = failed
           \/ \E c \in Clients : l = active[c] \/ l \in releases[c]

\* A task gives a connection up only to somebody who keeps it, and what was
\* kept stays so.
LEMMA OwnerStep ==
  ASSUME OwnerInv, NEW t \in Tasks,
         task' = [task EXCEPT ![t] = task'[t]],
         NEW l, l # None, up' = l,
         \/ task'[t].link = l
         \/ Kept(l)'
         \/ up = l /\ task[t].link # l /\ (Kept(l) => Kept(l)')
  PROVE  LinkIsOwned'
<1>0. task'[t].link = l => LinkIsOwned'
  BY DEF LinkIsOwned
<1>1. Kept(l)' => LinkIsOwned'
  BY DEF LinkIsOwned, Kept
<1>2. CASE up = l /\ task[t].link # l /\ ~Kept(l)
  <2>1. PICK u \in Tasks : l = task[u].link
    BY <1>2 DEF OwnerInv, LinkIsOwned, Kept
  <2>2. task'[u] = task[u]
    BY <1>2, <2>1 DEF OwnerInv, LinkInv, LinkTypeOK
  <2> QED
    BY <2>1, <2>2 DEF LinkIsOwned
<1> QED
  BY <1>0, <1>1, <1>2

\* A reset hands the client's connection to its releases.
LEMMA ReleaseKeeps ==
  ASSUME Others, NEW c \in Clients, Release(c), UNCHANGED <<deferred, failed>>,
         NEW l, l # None, Kept(l)
  PROVE  Kept(l)'
<1>1. /\ \A d \in Clients : d # c => active'[d] = active[d] /\ releases'[d] = releases[d]
      /\ releases'[c] = releases[c] \cup ({active[c]} \ {None})
  BY DEF Release, Others
<1> QED
  BY <1>1 DEF Kept

Known == LinkIsOwned /\ \A t \in Tasks : LinkKnown(t)

LEMMA KnownFacts ==
  ASSUME OwnerInv, NEW t \in Tasks
  PROVE  /\ task[t] \in TaskType /\ Fits(t) /\ LinkKnown(t) /\ Others /\ ClientsFit
         /\ ClientOf[t] \in Clients
         /\ \A r : [task EXCEPT ![t] = r][t] = r
BY Typed, OthersTyped DEF OwnerInv, LinkInv, LinkTypeOK

LEMMA ExitsShape ==
  ASSUME OwnerInv, NEW t \in Tasks, Exits(t)
  PROVE  /\ task' = [task EXCEPT ![t] = task'[t]] /\ task'[t].pc = "out"
         /\ task'[t].link = None
<1>1. task'[t] = [Out EXCEPT !.sent = task[t].sent]
  BY KnownFacts DEF Exits
<1> QED
  BY <1>1 DEF Exits, Out

\* A task without connection moves, and nothing but the lock, the timers and
\* the counters with it.
LEMMA QuietMove ==
  ASSUME OwnerInv, NEW t \in Tasks, task' = [task EXCEPT ![t] = task'[t]],
         task[t].link = None, LinkKnown(t)',
         UNCHANGED <<up, deferred, failed, active, releases>>
  PROVE  Known'
<1>1. \A u \in Tasks : LinkKnown(u)'
  BY OwnerFrame
<1>2. ASSUME up' # None PROVE LinkIsOwned'
  <2>1. Kept(up') => Kept(up)'
    BY DEF Kept
  <2> QED
    BY <1>2, OwnerStep DEF Kept
<1>3. up' = None => LinkIsOwned'
  BY DEF LinkIsOwned
<1> QED
  BY <1>1, <1>2, <1>3 DEF Known

\* A task that comes from the lock, or goes back to it, has no connection.
LEMMA KnownQuiet ==
  ASSUME OwnerInv, NEW t \in Tasks,
         \/ Request(t) \/ Enter(t) \/ Check(t) \/ RecoverFails(t) \/ Again(t) \/ Exit(t)
         \/ Drain(t) \/ Resolve(t) \/ ConnectFails(t)
  PROVE  Known'
<1>1. task[t].link = None
  BY KnownFacts DEF LinkKnown, Request, Enter, Check, RecoverFails, Again, Exit, Drain,
     Resolve, ConnectFails
<1>2. UNCHANGED <<up, deferred, failed, active, releases>>
  BY DEF Request, Enter, Check, RecoverFails, Again, Exit, Drain, Resolve, ConnectFails
<1>3. task' = [task EXCEPT ![t] = task'[t]] /\ LinkKnown(t)'
  <2>1. CASE Request(t) \/ Again(t)
    <3>1. PICK pc \in {"wait", "check"}, safe \in BOOLEAN :
            task' = [task EXCEPT ![t] = [Out EXCEPT !.pc = pc, !.safe = safe]]
      BY <2>1 DEF Request, Again
    <3>2. task'[t] = [Out EXCEPT !.pc = pc, !.safe = safe]
      BY <3>1, KnownFacts
    <3>3. task'[t].pc = pc /\ task'[t].link = None
      BY <3>2 DEF Out
    <3> QED
      BY <3>1, <3>2, <3>3 DEF LinkKnown
  <2>2. CASE RecoverFails(t) \/ Exit(t)
    BY <2>2, ExitsShape DEF RecoverFails, Exit, LinkKnown
  <2>4. CASE Check(t)
    <3>1. task'[t] = [Set(t, "begin") EXCEPT !.attempt = @ + 1]
      BY <2>4, KnownFacts DEF Check
    <3>2. task'[t].pc = "begin" /\ task'[t].link = None
      BY <1>1, <3>1, KnownFacts DEF Set, TaskType
    <3> QED
      BY <2>4, <3>1, <3>2 DEF Check, LinkKnown
  <2>5. CASE Enter(t) \/ Drain(t) \/ Resolve(t)
    <3>1. PICK pc \in {"check", "connecting"} : Goto(t, pc)
      BY <2>5 DEF Enter, Drain, Resolve
    <3>2. task'[t] = Set(t, pc)
      BY <3>1, KnownFacts DEF Goto
    <3>3. task'[t].pc = pc /\ task'[t].link = None
      BY <1>1, <3>2, KnownFacts DEF Set, TaskType
    <3> QED
      BY <3>1, <3>2, <3>3 DEF Goto, LinkKnown
  <2>6. CASE ConnectFails(t)
    <3>1. CASE Holds(t)
      <4>1. Exits(t)
        BY <2>6, <3>1 DEF ConnectFails
      <4> QED
        BY <4>1, ExitsShape DEF LinkKnown
    <3>2. CASE ~Holds(t)
      <4>1. PICK then : task' = [task EXCEPT ![t] =
                          Moved(t, "cleanup", HalfOpen, then, task[t].sent)]
        BY <2>6, <3>2 DEF ConnectFails
      <4>2. task'[t].pc = "cleanup" /\ task'[t].link = HalfOpen
        BY <4>1, KnownFacts DEF Moved
      <4>3. deferred' = None
        BY <2>6, KnownFacts DEF ConnectFails, Fits, InSession
      <4> QED
        BY <4>1, <4>2, <4>3 DEF LinkKnown
    <3> QED
      BY <3>1, <3>2
  <2> QED
    BY <2>1, <2>2, <2>4, <2>5, <2>6
<1> QED
  BY <1>1, <1>2, <1>3, QuietMove

LEMMA KnownRecover ==
  ASSUME OwnerInv, NEW t \in Tasks, Recover(t) PROVE Known'
<1>1. task'[t] = [Set(t, "begin") EXCEPT !.attempt = @ + 1]
  BY KnownFacts DEF Recover
<1>2. task[t].link = None /\ lock = t
  BY KnownFacts DEF Recover, LinkKnown, Fits
<1>3. task'[t].pc = "begin" /\ task'[t].link = None
  BY <1>1, <1>2, KnownFacts DEF Set, TaskType
<1>4. task' = [task EXCEPT ![t] = task'[t]] /\ LinkKnown(t)'
  BY <1>1, <1>3 DEF Recover, LinkKnown
<1>5. ASSUME NEW l, l # None, up' = l PROVE LinkIsOwned'
  <2>1. up = l /\ deferred # l
    BY <1>5 DEF Recover, Closed
  <2>2. Kept(l) => Kept(l)'
    BY <2>1 DEF Kept, Recover
  <2> QED
    BY <1>2, <1>4, <1>5, <2>1, <2>2, OwnerStep
<1>6. up' = None => LinkIsOwned'
  BY DEF LinkIsOwned
<1> QED
  BY <1>2, <1>4, <1>5, <1>6, OwnerFrame DEF Known

LEMMA KnownReuse ==
  ASSUME OwnerInv, NEW t \in Tasks, Reuse(t) PROVE Known'
<1>1. task'[t] = [Set(t, "running") EXCEPT !.link = up]
  BY KnownFacts DEF Reuse
<1>2. task'[t].pc = "running" /\ task'[t].link = up
  BY <1>1, KnownFacts DEF Set, TaskType
<1>3. task' = [task EXCEPT ![t] = task'[t]] /\ LinkKnown(t)'
  BY <1>1, <1>2 DEF Reuse, LinkKnown
<1>4. LinkIsOwned'
  BY <1>2 DEF Reuse, LinkIsOwned
<1> QED
  BY <1>3, <1>4, OwnerFrame DEF Known, Reuse

LEMMA KnownRenew ==
  ASSUME OwnerInv, NEW t \in Tasks, Renew(t) PROVE Known'
<1>1. task'[t] = Set(t, "draining") /\ Release(ClientOf[t]) /\ ClientOf[t] \in Clients
  BY KnownFacts DEF Renew, Goto
<1>2. task[t].link = None /\ lock = t
  BY KnownFacts DEF Renew, LinkKnown, Fits
<1>3. task'[t].pc = "draining" /\ task'[t].link = None
  BY <1>1, <1>2, KnownFacts DEF Set, TaskType
<1>4. task' = [task EXCEPT ![t] = task'[t]] /\ LinkKnown(t)'
  BY <1>1, <1>3 DEF Renew, Goto, LinkKnown
<1>5. ASSUME NEW l, l # None, up' = l PROVE LinkIsOwned'
  <2>1. up = l /\ UNCHANGED <<deferred, failed>>
    BY <1>5 DEF Renew
  <2>2. Kept(l) => Kept(l)'
    BY <1>1, <1>5, <2>1, KnownFacts, ReleaseKeeps
  <2> QED
    BY <1>2, <1>4, <1>5, <2>1, <2>2, OwnerStep
<1>6. up' = None => LinkIsOwned'
  BY DEF LinkIsOwned
<1> QED
  BY <1>2, <1>4, <1>5, <1>6, OwnerFrame DEF Known

LEMMA KnownConnect ==
  ASSUME OwnerInv, NEW t \in Tasks, Connect(t) PROVE Known'
<1>1. task'[t] = [Set(t, "running") EXCEPT !.link = up']
  BY KnownFacts DEF Connect
<1>2. task'[t].pc = "running" /\ task'[t].link = up'
  BY <1>1, KnownFacts DEF Set, TaskType
<1>3. Holds(t) => active'[ClientOf[t]] = up'
  BY KnownFacts DEF Connect, Others
<1>4. task' = [task EXCEPT ![t] = task'[t]] /\ LinkKnown(t)' /\ lock = t
  BY <1>1, <1>2, <1>3, KnownFacts DEF Connect, LinkKnown, Holds, Fits
<1>5. LinkIsOwned'
  BY <1>2 DEF LinkIsOwned
<1> QED
  BY <1>4, <1>5, OwnerFrame DEF Known

\* A task that enters its cleanup keeps the connection it had.
LEMMA KnownIntoCleanup ==
  ASSUME OwnerInv, NEW t \in Tasks, NEW then, NEW sent, task[t].pc \in InSession,
         NEW l, task' = [task EXCEPT ![t] = Moved(t, "cleanup", l, then, sent)],
         up' # None => l = up' \/ (up' = up /\ task[t].link # up),
         UNCHANGED <<deferred, active, releases, failed>>
  PROVE  Known'
<1>1. task'[t].pc = "cleanup" /\ task'[t].link = l
  BY KnownFacts DEF Moved
<1>2. deferred' = None /\ lock = t
  BY KnownFacts DEF Fits, InSession
<1>3. task' = [task EXCEPT ![t] = task'[t]] /\ LinkKnown(t)'
  BY <1>1, <1>2, KnownFacts DEF LinkKnown
<1>4. ASSUME up' # None PROVE LinkIsOwned'
  <2>1. Kept(up') => Kept(up)'
    BY DEF Kept
  <2>2. CASE l = up'
    BY <1>1, <1>4, <2>2 DEF LinkIsOwned
  <2>3. CASE up' = up /\ task[t].link # up
    <3>1. Kept(up) => Kept(up)'
      BY <2>3 DEF Kept
    <3> QED
      BY <1>3, <1>4, <2>3, <3>1, OwnerStep DEF Kept
  <2> QED
    BY <1>4, <2>2, <2>3
<1>5. up' = None => LinkIsOwned'
  BY DEF LinkIsOwned
<1> QED
  BY <1>2, <1>3, <1>4, <1>5, OwnerFrame DEF Known

\* A connect that is late is lost to a persistent client only.
LEMMA KnownConnectLate ==
  ASSUME OwnerInv, NEW t \in Tasks, ConnectLate(t), LateConnects \cap Persistent = {}
  PROVE  Known'
<1>1. ~Holds(t) /\ task[t].pc \in InSession
  BY DEF ConnectLate, Holds, InSession
<1>2. task' = [task EXCEPT ![t] = Moved(t, "cleanup", up', "out", task[t].sent)]
  BY <1>1 DEF ConnectLate
<1>3. UNCHANGED <<deferred, active, releases, failed>>
  BY DEF ConnectLate
<1> QED
  BY <1>1, <1>2, <1>3, KnownIntoCleanup

LEMMA KnownOpSucceeds ==
  ASSUME OwnerInv, NEW t \in Tasks, OpSucceeds(t) PROVE Known'
<1>1. /\ task[t].pc = "running" /\ task[t].pc \in InSession /\ up = task[t].link
      /\ UNCHANGED <<lock, deferred, up, active, releases, failed>>
  BY DEF OpSucceeds, InSession
<1>2. PICK sent : IF Holds(t)
         THEN task' = [task EXCEPT ![t] = Moved(t, "held", None, "out", sent)]
         ELSE task' = [task EXCEPT ![t] = Moved(t, "cleanup", task[t].link, "held", sent)]
  BY DEF OpSucceeds
<1>3. CASE Holds(t)
  <2>1. task'[t].pc = "held" /\ task'[t].link = None
    BY <1>2, <1>3, KnownFacts DEF Moved
  <2>2. task' = [task EXCEPT ![t] = task'[t]] /\ LinkKnown(t)'
    BY <1>2, <1>3, <2>1, KnownFacts DEF LinkKnown
  <2>3. LinkIsOwned'
    BY <1>1, <1>3, KnownFacts DEF LinkKnown, LinkIsOwned
  <2> QED
    BY <1>1, <2>2, <2>3, OwnerFrame DEF Known
<1>4. CASE ~Holds(t)
  BY <1>1, <1>2, <1>4, KnownIntoCleanup
<1> QED
  BY <1>3, <1>4

\* A persistent client gives its connection to the releases as its task goes.
LEMMA KnownReset ==
  ASSUME OwnerInv, NEW t \in Tasks, task[t].pc = "running", Holds(t),
         task' = [task EXCEPT ![t] = task'[t]], task'[t].pc \in {"out", "begin"},
         task'[t].link = None,
         Release(ClientOf[t]), UNCHANGED <<deferred, up, failed>>
  PROVE  Known'
<1>1. lock = t /\ ClientOf[t] \in Clients /\ task[t].link = active[ClientOf[t]] /\ Others
  BY KnownFacts DEF LinkKnown, Fits
<1>2. LinkKnown(t)'
  BY DEF LinkKnown
<1>3. ASSUME NEW l, l # None, up' = l PROVE LinkIsOwned'
  <2>1. l = active[ClientOf[t]] => Kept(l)
    BY <1>1 DEF Kept
  <2>2. Kept(l) => Kept(l)'
    BY <1>1, <1>3, ReleaseKeeps
  <2> QED
    BY <1>1, <1>3, <2>1, <2>2, OwnerStep
<1>4. up' = None => LinkIsOwned'
  BY DEF LinkIsOwned
<1> QED
  BY <1>1, <1>2, <1>3, <1>4, OwnerFrame DEF Known

LEMMA KnownOpFails ==
  ASSUME OwnerInv, NEW t \in Tasks, OpFails(t) PROVE Known'
<1>1. /\ task[t].pc = "running" /\ task[t].pc \in InSession
      /\ UNCHANGED <<deferred, up, failed>>
  BY DEF OpFails, InSession
<1>2. PICK sent \in Sent(t), then \in Afterwards(t) :
         IF Holds(t)
         THEN /\ Release(ClientOf[t])
              /\ \/ task' = [task EXCEPT ![t] = [Out EXCEPT !.sent = sent]]
                 \/ task' = [task EXCEPT ![t] = [Moved(t, "begin", None, "out", sent)
                                                      EXCEPT !.attempt = @ + 1]]
         ELSE /\ task' = [task EXCEPT ![t] = Moved(t, "cleanup", task[t].link, then, sent)]
              /\ UNCHANGED <<active, releases>>
  BY DEF OpFails
<1>3. CASE Holds(t)
  <2>1. /\ task' = [task EXCEPT ![t] = task'[t]] /\ task'[t].pc \in {"out", "begin"}
        /\ task'[t].link = None
    BY <1>2, <1>3, KnownFacts DEF Out, Moved
  <2> QED
    BY <1>1, <1>2, <1>3, <2>1, KnownReset
<1>4. CASE ~Holds(t)
  <2>1. UNCHANGED <<deferred, active, releases, failed>>
    BY <1>1, <1>2, <1>4
  <2> QED
    BY <1>1, <1>2, <1>4, <2>1, KnownIntoCleanup
<1> QED
  BY <1>3, <1>4

LEMMA KnownCleanup ==
  ASSUME OwnerInv, NEW t \in Tasks, Cleanup(t) \/ CleanupFails(t) PROVE Known'
<1>1. /\ task[t].pc = "cleanup" /\ lock = t /\ deferred = None
      /\ UNCHANGED <<active, releases, failed>>
  BY KnownFacts DEF Cleanup, CleanupFails, LinkKnown, Fits
<1>2. /\ task' = [task EXCEPT ![t] = task'[t]]
      /\ task'[t].pc # "cleanup" /\ task'[t].pc # "running" /\ task'[t].link = None
  <2>1. CASE task[t].then = "out"
    <3>1. Exits(t)
      BY <2>1 DEF Cleanup, CleanupFails, CleanedUp
    <3> QED
      BY <3>1, ExitsShape
  <2>2. CASE task[t].then # "out"
    <3>1. task' = [task EXCEPT ![t] = Moved(t, task[t].then, None, "out", task[t].sent)]
      BY <2>2 DEF Cleanup, CleanupFails, CleanedUp
    <3>2. task[t].then \in {"check", "held"}
      BY <2>2, KnownFacts DEF TaskType
    <3> QED
      BY <3>1, <3>2, KnownFacts DEF Moved
  <2> QED
    BY <2>1, <2>2
<1>3. LinkKnown(t)'
  BY <1>2 DEF LinkKnown
<1>4. ASSUME NEW l, l # None, up' = l PROVE LinkIsOwned'
  <2>1. up = l
    BY <1>4 DEF Cleanup, CleanupFails, Closed
  <2>2. Kept(l)' \/ (task[t].link # l /\ (Kept(l) => Kept(l)'))
    BY <1>1, <1>4, <2>1 DEF Cleanup, CleanupFails, Closed, Kept
  <2> QED
    BY <1>2, <1>4, <2>1, <2>2, OwnerStep
<1>5. up' = None => LinkIsOwned'
  BY DEF LinkIsOwned
<1> QED
  BY <1>1, <1>2, <1>3, <1>4, <1>5, OwnerFrame DEF Known

LEMMA KnownCancel ==
  ASSUME OwnerInv, NEW t \in Tasks, Cancel(t) PROVE Known'
<1>1. task[t].pc \notin {"out", "cleanup"} /\ UNCHANGED <<deferred, up, failed>>
  BY DEF Cancel
<1>2. CASE task[t].pc = "wait"
  <2>1. task' = [task EXCEPT ![t] = Set(t, "out")] /\ UNCHANGED <<active, releases>>
    BY <1>2 DEF Cancel, Goto
  <2>2. task[t].link = None
    BY <1>2, KnownFacts DEF LinkKnown
  <2>3. task'[t] = Set(t, "out")
    BY <2>1, KnownFacts
  <2>4. task'[t].pc = "out" /\ task'[t].link = None
    BY <2>2, <2>3, KnownFacts DEF Set, TaskType
  <2> QED
    BY <1>1, <2>1, <2>2, <2>3, <2>4, QuietMove DEF LinkKnown
<1>3. CASE task[t].pc \in {"connecting", "running"} /\ ~Holds(t)
  <2>1. PICK l : /\ l = IF task[t].link = None THEN HalfOpen ELSE task[t].link
                 /\ task' = [task EXCEPT ![t] = Moved(t, "cleanup", l, "out", task[t].sent)]
                 /\ UNCHANGED <<active, releases>>
    BY <1>3 DEF Cancel
  <2>2. up' # None => l = up' \/ (up' = up /\ task[t].link # up)
    BY <1>1, <2>1
  <2>3. task[t].pc \in InSession /\ UNCHANGED <<deferred, active, releases, failed>>
    BY <1>1, <1>3, <2>1 DEF InSession
  <2>4. task' = [task EXCEPT ![t] = Moved(t, "cleanup", l, "out", task[t].sent)]
    BY <2>1
  <2> QED
    BY <2>2, <2>3, <2>4, KnownIntoCleanup
<1>4. CASE task[t].pc = "running" /\ Holds(t)
  <2>1. /\ Exits(t)
        /\ \/ Release(ClientOf[t])
           \/ up = task[t].link /\ UNCHANGED <<active, releases>>
    BY <1>4 DEF Cancel
  <2>2. /\ task' = [task EXCEPT ![t] = task'[t]] /\ task'[t].pc = "out"
        /\ task'[t].link = None
    BY <2>1, ExitsShape
  <2>3. CASE Release(ClientOf[t])
    BY <1>1, <1>4, <2>2, <2>3, KnownReset
  <2>4. CASE up = task[t].link /\ UNCHANGED <<active, releases>>
    <3>1. LinkIsOwned'
      BY <1>1, <1>4, <2>4, KnownFacts DEF LinkKnown, LinkIsOwned
    <3> QED
      BY <1>1, <2>2, <2>4, <3>1, OwnerFrame DEF LinkKnown, Known
  <2> QED
    BY <2>1, <2>3, <2>4
<1>5. CASE task[t].pc \notin {"wait", "running"} /\ ~(task[t].pc = "connecting" /\ ~Holds(t))
  <2>1. Exits(t) /\ UNCHANGED <<active, releases>>
    BY <1>1, <1>5 DEF Cancel
  <2>2. task[t].link = None
    BY <1>1, <1>5, KnownFacts DEF LinkKnown
  <2>3. /\ task' = [task EXCEPT ![t] = task'[t]] /\ task'[t].pc = "out"
        /\ task'[t].link = None
    BY <2>1, ExitsShape
  <2> QED
    BY <1>1, <2>1, <2>2, <2>3, QuietMove DEF LinkKnown
<1> QED
  BY <1>2, <1>3, <1>4, <1>5

\* Between the steps of tasks a client resets only what none of its operations
\* runs on, and a disconnect closes, or is recorded as failed.
LEMMA KnownOutside ==
  ASSUME OwnerInv, UNCHANGED <<task, deferred>>,
         \A t \in Tasks : task[t].pc = "running" => active'[ClientOf[t]] = active[ClientOf[t]],
         up' # None => up' = up /\ (Kept(up) => Kept(up)')
  PROVE  Known'
<1>1. \A t \in Tasks : LinkKnown(t)'
  BY DEF OwnerInv, LinkKnown, Holds
<1>2. LinkIsOwned'
  BY DEF OwnerInv, LinkIsOwned, Kept
<1> QED
  BY <1>1, <1>2 DEF Known

LEMMA KnownBackground ==
  ASSUME OwnerInv, NEW c \in Clients,
         IdleRelease(c) \/ Disconnect(c) \/ ReleaseDone(c) \/ ReleaseFails(c)
  PROVE  Known'
<1>1. Others /\ UNCHANGED <<task, deferred>>
  BY OthersTyped DEF OwnerInv, IdleRelease, Disconnect, ReleaseDone, ReleaseFails
<1>2. CASE IdleRelease(c) \/ Disconnect(c)
  <2>1. Release(c) /\ UNCHANGED <<up, failed>>
    BY <1>2 DEF IdleRelease, Disconnect
  <2>2. \A t \in Tasks : task[t].pc = "running" => ClientOf[t] # c
    BY <1>2, KnownFacts DEF IdleRelease, Disconnect, Fits, InSession
  <2>3. \A d \in Clients : d # c => active'[d] = active[d]
    BY <1>1, <2>1 DEF Release, Others
  <2>4. up # None => (Kept(up) => Kept(up)')
    <3> SUFFICES ASSUME NEW l, l = up, l # None, Kept(l) PROVE Kept(l)'
      BY <2>1
    <3> QED
      BY <1>1, <2>1, ReleaseKeeps
  <2> QED
    BY <1>1, <2>1, <2>2, <2>3, <2>4, KnownFacts, KnownOutside
<1>3. CASE ReleaseDone(c)
  <2>1. PICK l \in releases[c] :
          releases' = [releases EXCEPT ![c] = @ \ {l}] /\ up' \in {Closed(l), None}
    BY <1>3 DEF ReleaseDone
  <2>2. up' # None => up' = up /\ up # l
    BY <2>1 DEF Closed
  <2>3. up' # None => (Kept(up) => Kept(up)')
    BY <1>1, <1>3, <2>1, <2>2 DEF ReleaseDone, Kept, Others
  <2> QED
    BY <1>1, <1>3, <2>2, <2>3, KnownOutside DEF ReleaseDone
<1>4. CASE ReleaseFails(c)
  <2>1. PICK l \in releases[c] : /\ releases' = [releases EXCEPT ![c] = @ \ {l}]
                                 /\ failed' = IF up = l THEN l ELSE failed
    BY <1>4 DEF ReleaseFails
  <2>2. Kept(up) => Kept(up)'
    BY <1>1, <1>4, <2>1 DEF ReleaseFails, Kept, Others
  <2> QED
    BY <1>1, <1>4, <2>2, KnownOutside DEF ReleaseFails
<1> QED
  BY <1>2, <1>3, <1>4

LEMMA OwnerNext ==
  ASSUME LateConnects \cap Persistent = {}
  PROVE  OwnerInv /\ [Next]_vars => OwnerInv'
<1> SUFFICES ASSUME OwnerInv, [Next]_vars PROVE OwnerInv'
  OBVIOUS
<1>1. LinkInv'
  BY NextInv DEF OwnerInv
<1>2. ASSUME NEW t \in Tasks,
             Request(t) \/ Enter(t) \/ Again(t) \/ TaskStep(t) \/ Cancel(t)
      PROVE  Known'
  BY <1>2, KnownQuiet, KnownRecover, KnownReuse, KnownRenew, KnownConnect, KnownConnectLate,
     KnownOpSucceeds, KnownOpFails, KnownCleanup, KnownCancel DEF TaskStep
<1>3. ASSUME NEW c \in Clients,
             IdleRelease(c) \/ Disconnect(c) \/ ReleaseDone(c) \/ ReleaseFails(c)
      PROVE  Known'
  BY <1>3, KnownBackground
<1>4. ASSUME Drop PROVE Known'
  <2>1. UNCHANGED <<task, deferred, active>> /\ up' = None
    BY <1>4 DEF Drop
  <2> QED
    BY <2>1, KnownOutside
<1>5. ASSUME UNCHANGED vars PROVE Known'
  <2>1. UNCHANGED <<task, deferred, active>> /\ up' = up /\ (Kept(up) => Kept(up)')
    BY <1>5 DEF vars, Kept
  <2> QED
    BY <2>1, KnownOutside
<1>6. Known'
  BY <1>2, <1>3, <1>4, <1>5 DEF Next
<1> QED
  BY <1>1, <1>6 DEF OwnerInv, Known

LEMMA OwnerInit == Init => OwnerInv
BY InitInv DEF Init, OwnerInv, LinkIsOwned, LinkKnown, Out

\* client_persistent.py: as long as no persistent client's connect ends while
\* its time runs out, the connection the controller is on always has somebody
\* who will use or close it, whichever tasks are cancelled, links dropped and
\* clients disconnected. (With such a connect it has not: run link_leak.)
THEOREM EveryLinkOwned ==
  ASSUME LateConnects \cap Persistent = {}
  PROVE  Spec => []LinkIsOwned
<1>1. OwnerInv => LinkIsOwned
  BY DEF OwnerInv
<1> QED
  BY OwnerInit, OwnerNext, <1>1, PTL DEF Spec

=============================================================================
