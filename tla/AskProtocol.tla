---------------------------- MODULE AskProtocol ----------------------------
(***************************************************************************)
(* The ask protocol of the YoloFS kernel module and the watch loop of the  *)
(* CLI: a task whose access needs approval queues a request and sleeps;    *)
(* watchers read the head of the queue without removing it and answer by   *)
(* id; a request leaves the queue when it is answered, when it times out   *)
(* or when its task is interrupted, whichever takes pending_lock first.    *)
(* Source: kmod/perm.c (yolo_perm_ask, yolo_ask_userspace, yolo_ask_settle,*)
(* yolo_ask_peek_ioctl, yolo_ask_decide_ioctl) and user/cmd/watch.rs.      *)
(*                                                                         *)
(* An action is what happens under one hold of pending_lock, or between    *)
(* two.  Requests are named by their id, which is never used again.        *)
(***************************************************************************)
EXTENDS Integers, Sequences

CONSTANTS
  Tasks,      \* tasks in the mount
  Watchers,   \* yolo watch processes
  Timeout,    \* whether prompt_timeout_ms is positive
  Signals,    \* whether tasks are interrupted while they sleep
  Stops,      \* whether watchers are stopped and started by their user
  Faults,     \* whether a watcher passes a bad buffer, or a G record fails
  MaxId       \* bound on request ids

Ids == 1 .. MaxId
Decisions == {"allow", "deny"}

ASSUME AskAssumption ==
  /\ MaxId \in Nat
  /\ Timeout \in BOOLEAN /\ Signals \in BOOLEAN
  /\ Stops \in BOOLEAN /\ Faults \in BOOLEAN

VARIABLES
  nextId,     \* next_req_id
  pending,    \* pending_reqs, the head first
  decision,   \* id -> the decision field of the request
  done,       \* ids whose completion was signalled
  pc, cur,    \* task -> where it is, the id of its request
  journal,    \* the G records: id, task, result
  wpc, seen,  \* watcher -> where it is, the id it was shown
  answers,    \* history: ids and decisions ASK_DECIDE accepted
  returned    \* history: id -> what the access got: a decision or "eintr"

taskVars  == <<pc, cur>>
watchVars == <<wpc, seen>>
vars == <<nextId, pending, decision, done, taskVars, journal, watchVars,
          answers, returned>>

Queued(i) == \E k \in DOMAIN pending : pending[k] = i

\* Mutant of Without: list_del_init is forgotten.
WithoutNothing(i) == pending

\* list_del_init: the queue without id i.
Without(i) ==
  LET at == CHOOSE k \in DOMAIN pending : pending[k] = i
  IN  [k \in 1 .. Len(pending) - 1 |-> IF k < at THEN pending[k] ELSE pending[k + 1]]

Goto(t, label)  == pc' = [pc EXCEPT ![t] = label]
WGoto(w, label) == wpc' = [wpc EXCEPT ![w] = label]

-----------------------------------------------------------------------------
Init ==
  /\ nextId = 0 /\ pending = <<>> /\ done = {} /\ journal = <<>>
  /\ decision = [i \in Ids |-> "deny"]
  /\ pc = [t \in Tasks |-> "idle"] /\ cur = [t \in Tasks |-> 0]
  /\ wpc = [w \in Watchers |-> "peek"] /\ seen = [w \in Watchers |-> 0]
  /\ answers = {} /\ returned = [i \in Ids |-> "none"]

-----------------------------------------------------------------------------
(* The requester: yolo_ask_userspace and yolo_perm_ask.                    *)

\* Mutant of Request: the counter is read before it is incremented.
RequestFetch(t) ==
  /\ pc[t] = "idle" /\ nextId < MaxId
  /\ nextId' = nextId + 1
  /\ cur' = [cur EXCEPT ![t] = nextId]
  /\ Goto(t, "enqueue")
  /\ UNCHANGED <<pending, decision, done, journal, watchVars, answers, returned>>

\* A request is allocated; its decision is DENY until somebody sets it.
Request(t) ==
  /\ pc[t] = "idle" /\ nextId < MaxId
  /\ nextId' = nextId + 1
  /\ cur' = [cur EXCEPT ![t] = nextId + 1]
  /\ Goto(t, "enqueue")
  /\ UNCHANGED <<pending, decision, done, journal, watchVars, answers, returned>>

Enqueue(t) ==
  /\ pc[t] = "enqueue"
  /\ pending' = Append(pending, cur[t])
  /\ Goto(t, "wait")
  /\ UNCHANGED <<nextId, decision, done, cur, journal, watchVars, answers, returned>>

\* wait_for_completion_interruptible_timeout returns a positive rest.
Completed(t) ==
  /\ pc[t] = "wait" /\ cur[t] \in done
  /\ Goto(t, "settle")
  /\ UNCHANGED <<nextId, pending, decision, done, cur, journal, watchVars, answers, returned>>

\* Mutant of Expired: the timer is armed only while a watcher is there.
ExpiredWatched(t) ==
  /\ Timeout /\ \E w \in Watchers : wpc[w] # "ended"
  /\ pc[t] = "wait" /\ cur[t] \notin done
  /\ Goto(t, "settle")
  /\ UNCHANGED <<nextId, pending, decision, done, cur, journal, watchVars, answers, returned>>

\* It returns 0: nobody answered in time, so far.
Expired(t) ==
  /\ Timeout
  /\ pc[t] = "wait" /\ cur[t] \notin done
  /\ Goto(t, "settle")
  /\ UNCHANGED <<nextId, pending, decision, done, cur, journal, watchVars, answers, returned>>

\* It returns -ERESTARTSYS.
Interrupted(t) ==
  /\ Signals
  /\ pc[t] = "wait" /\ cur[t] \notin done
  /\ Goto(t, "abandon")
  /\ UNCHANGED <<nextId, pending, decision, done, cur, journal, watchVars, answers, returned>>

\* Mutant of Reclaim: a request that woke up late is denied in any case.
ReclaimAlways(t) ==
  /\ decision' = [decision EXCEPT ![cur[t]] = "deny"]
  /\ pending' = IF Queued(cur[t]) THEN Without(cur[t]) ELSE pending

\* Mutant of Reclaim: the request is freed while it is queued.
ReclaimNothing(t) == UNCHANGED <<decision, pending>>

\* Under pending_lock: a request still queued is denied and unlinked, one
\* that is not keeps the decision that unlinked it.
Reclaim(t) ==
  IF Queued(cur[t])
  THEN /\ decision' = [decision EXCEPT ![cur[t]] = "deny"]
       /\ pending' = Without(cur[t])
  ELSE UNCHANGED <<decision, pending>>

\* The request is freed; its decision is what the access gets.
Settle(t) ==
  /\ pc[t] = "settle"
  /\ Reclaim(t)
  /\ returned' = [returned EXCEPT ![cur[t]] = decision'[cur[t]]]
  /\ Goto(t, "gate")
  /\ UNCHANGED <<nextId, done, cur, journal, watchVars, answers>>

\* The request is freed and the access fails with -EINTR, without a G.
Abandon(t) ==
  /\ pc[t] = "abandon"
  /\ Reclaim(t)
  /\ returned' = [returned EXCEPT ![cur[t]] = "eintr"]
  /\ Goto(t, "idle") /\ cur' = [cur EXCEPT ![t] = 0]
  /\ UNCHANGED <<nextId, done, journal, watchVars, answers>>

\* Mutant of GateRecord: the verdict of the request as it was allocated.
GateRecordDenied(t) == [id |-> cur[t], task |-> t, result |-> "deny"]

GateRecord(t) == [id |-> cur[t], task |-> t, result |-> returned[cur[t]]]

\* Mutant of Gate: a denial by timeout is not recorded.
GateAnswered(t) ==
  /\ pc[t] = "gate"
  /\ IF \E a \in answers : a.id = cur[t]
     THEN journal' = Append(journal, GateRecord(t)) ELSE UNCHANGED journal
  /\ Goto(t, "idle") /\ cur' = [cur EXCEPT ![t] = 0]
  /\ UNCHANGED <<nextId, pending, decision, done, watchVars, answers, returned>>

\* yolo_journal_gate; the result of the append is not looked at.
Gate(t) ==
  /\ pc[t] = "gate"
  /\ \/ journal' = Append(journal, GateRecord(t))
     \/ Faults /\ UNCHANGED journal
  /\ Goto(t, "idle") /\ cur' = [cur EXCEPT ![t] = 0]
  /\ UNCHANGED <<nextId, pending, decision, done, watchVars, answers, returned>>

-----------------------------------------------------------------------------
(* The watchers: ASK_PEEK, ASK_DECIDE and watch_loop.                      *)

\* yolo_ask_settle of a queued request.
Resolve(i, d) ==
  /\ decision' = [decision EXCEPT ![i] = d]
  /\ pending' = Without(i)
  /\ done' = done \cup {i}

\* wait_event_interruptible: the queue was not empty.
PeekWoken(w) ==
  /\ wpc[w] = "peek" /\ pending # <<>>
  /\ WGoto(w, "locked")
  /\ UNCHANGED <<nextId, pending, decision, done, taskVars, journal, seen, answers, returned>>

\* The head is copied out and stays queued.
PeekHead(w) ==
  /\ wpc[w] = "locked" /\ pending # <<>>
  /\ seen' = [seen EXCEPT ![w] = Head(pending)]
  /\ WGoto(w, "prompt") \/ (Faults /\ WGoto(w, "fault"))
  /\ UNCHANGED <<nextId, pending, decision, done, taskVars, journal, answers, returned>>

\* -EAGAIN: the request was reclaimed or answered meanwhile.  watch_loop
\* ends on any error.
PeekEmpty(w) ==
  /\ wpc[w] = "locked" /\ pending = <<>>
  /\ WGoto(w, "ended")
  /\ UNCHANGED <<nextId, pending, decision, done, taskVars, journal, seen, answers, returned>>

\* copy_to_user failed: deny the request that was read, return -EFAULT.
PeekFault(w) ==
  /\ wpc[w] = "fault"
  /\ IF Queued(seen[w]) THEN Resolve(seen[w], "deny")
                        ELSE UNCHANGED <<decision, pending, done>>
  /\ seen' = [seen EXCEPT ![w] = 0]
  /\ WGoto(w, "ended")
  /\ UNCHANGED <<nextId, taskVars, journal, answers, returned>>

\* Mutant of Decide: the first request is answered, whatever its id.
DecideHead(w, d) ==
  /\ wpc[w] = "prompt"
  /\ IF pending # <<>>
     THEN /\ Resolve(Head(pending), d)
          /\ answers' = answers \cup {[id |-> seen[w], decision |-> d]}
     ELSE UNCHANGED <<decision, pending, done, answers>>
  /\ seen' = [seen EXCEPT ![w] = 0]
  /\ WGoto(w, "peek")
  /\ UNCHANGED <<nextId, taskVars, journal, returned>>

\* ASK_DECIDE by id, or -ENOENT, which handle_ask reports and goes on from.
Decide(w, d) ==
  /\ wpc[w] = "prompt"
  /\ IF Queued(seen[w])
     THEN /\ Resolve(seen[w], d)
          /\ answers' = answers \cup {[id |-> seen[w], decision |-> d]}
     ELSE UNCHANGED <<decision, pending, done, answers>>
  /\ seen' = [seen EXCEPT ![w] = 0]
  /\ WGoto(w, "peek")
  /\ UNCHANGED <<nextId, taskVars, journal, returned>>

\* Ctrl-C.
Stop(w) ==
  /\ Stops /\ wpc[w] \in {"peek", "prompt"}
  /\ WGoto(w, "ended") /\ seen' = [seen EXCEPT ![w] = 0]
  /\ UNCHANGED <<nextId, pending, decision, done, taskVars, journal, answers, returned>>

Start(w) ==
  /\ Stops /\ wpc[w] = "ended"
  /\ WGoto(w, "peek")
  /\ UNCHANGED <<nextId, pending, decision, done, taskVars, journal, seen, answers, returned>>

-----------------------------------------------------------------------------
TaskStep(t) ==
  \/ Request(t) \/ Enqueue(t) \/ Completed(t) \/ Expired(t) \/ Interrupted(t)
  \/ Settle(t) \/ Abandon(t) \/ Gate(t)

WatchStep(w) ==
  \/ PeekWoken(w) \/ PeekHead(w) \/ PeekEmpty(w) \/ PeekFault(w)
  \/ \E d \in Decisions : Decide(w, d)
  \/ Stop(w) \/ Start(w)

\* All ids are used up and every task is done (a bound of the model).
Finished == nextId = MaxId /\ (\A t \in Tasks : pc[t] = "idle") /\ UNCHANGED vars

Next == (\E t \in Tasks : TaskStep(t)) \/ (\E w \in Watchers : WatchStep(w)) \/ Finished

Spec == Init /\ [][Next]_vars

\* A task goes on when it can; the timer fires when it is set; a user at a
\* prompt answers, sooner or later.
Fairness ==
  /\ \A t \in Tasks :
       /\ WF_vars(Enqueue(t)) /\ WF_vars(Completed(t)) /\ WF_vars(Expired(t))
       /\ WF_vars(Settle(t)) /\ WF_vars(Abandon(t)) /\ WF_vars(Gate(t))
  /\ \A w \in Watchers :
       /\ WF_vars(PeekWoken(w)) /\ WF_vars(PeekHead(w)) /\ WF_vars(PeekEmpty(w))
       /\ WF_vars(PeekFault(w))
       /\ WF_vars(\E d \in Decisions : Decide(w, d))

FairSpec == Spec /\ Fairness

-----------------------------------------------------------------------------
TaskLabels  == {"idle", "enqueue", "wait", "settle", "abandon", "gate"}
WatchLabels == {"peek", "locked", "prompt", "fault", "ended"}

\* The variables hold what struct yolo_ask and the two loops can hold.
TypeOK ==
  /\ nextId \in 0 .. MaxId
  /\ pending \in Seq(Ids)
  /\ decision \in [Ids -> Decisions] /\ done \subseteq Ids
  /\ pc \in [Tasks -> TaskLabels] /\ cur \in [Tasks -> 0 .. MaxId]
  /\ journal \in Seq([id : Ids, task : Tasks, result : Decisions])
  /\ wpc \in [Watchers -> WatchLabels] /\ seen \in [Watchers -> 0 .. MaxId]
  /\ answers \subseteq [id : Ids, decision : Decisions]
  /\ returned \in [Ids -> Decisions \cup {"none", "eintr"}]

\* The queue links only requests that exist: each belongs to a task that is
\* asleep on it or about to unlink it, none is linked twice, and none is
\* linked once it is complete.  yolo_ask_userspace frees the request without
\* another look at the list, so anything else is a use after free.
QueueIsLive ==
  /\ \A k \in DOMAIN pending :
       /\ pending[k] \notin done
       /\ \E t \in Tasks : cur[t] = pending[k] /\ pc[t] \in {"wait", "settle", "abandon"}
  /\ \A k, l \in DOMAIN pending : pending[k] = pending[l] => k = l

\* An access is let through only by an answer that allows that very request:
\* a late, duplicate or misdirected answer never opens another one.
AllowIsAnswered ==
  \A i \in Ids : returned[i] = "allow" => [id |-> i, decision |-> "allow"] \in answers

\* An answer that ASK_DECIDE accepted is what the access gets, unless its
\* task was interrupted: a timeout that fires late does not turn it over.
AnswerStands ==
  \A a \in answers : returned[a.id] \in {"none", "eintr", a.decision}

\* A request is answered at most once.
AnsweredOnce == \A a, b \in answers : a.id = b.id => a = b

\* The journal says what the accesses got, and says it at most once.
GateIsTruth ==
  /\ \A k \in DOMAIN journal : journal[k].result = returned[journal[k].id]
  /\ \A k, l \in DOMAIN journal : journal[k].id = journal[l].id => k = l

\* Every access that prompted and is over left a G record ("Writes exactly
\* one G for the resolved ask", kmod/perm.c).
EveryPromptIsLogged ==
  \A i \in 1 .. nextId :
    (\A t \in Tasks : cur[t] # i) => \E k \in DOMAIN journal : journal[k].id = i

\* A watcher that nobody stopped is serving ("blocks on ioctl read for each
\* ask request", user/cmd/watch.rs).
WatchersServe == \A w \in Watchers : wpc[w] # "ended"

\* An access that asks is decided in the end.
AsksEnd == \A t \in Tasks : pc[t] # "idle" ~> pc[t] = "idle"

-----------------------------------------------------------------------------
\* The abstract phase of a task: decided from the moment it is unlinked.
Phase(t) ==
  CASE pc[t] = "idle"    -> "idle"
    [] pc[t] = "enqueue" -> "asked"
    [] pc[t] \in {"wait", "settle", "abandon"} ->
         IF Queued(cur[t]) THEN "asked" ELSE decision[cur[t]]
    [] pc[t] = "gate"    -> returned[cur[t]]

Abstract == INSTANCE AskGate WITH
  phase <- [t \in Tasks |-> Phase(t)],
  log <- [k \in DOMAIN journal |-> [task |-> journal[k].task, result |-> journal[k].result]]

\* The protocol implements AskGate; an access whose G record fails ends there
\* as one that is not recorded.
GateSpec == Abstract!Spec
=============================================================================
