----------------------------- MODULE AskProofs -----------------------------
(***************************************************************************)
(* Theorems about AskProtocol, for any tasks, watchers and number of       *)
(* requests, with timeouts, signals, faults and restarting watchers.       *)
(*                                                                         *)
(* The argument: a request has one owner, the task whose cur it is.  While *)
(* it is queued nobody has decided it, and whoever unlinks it under        *)
(* pending_lock decides it; no step decides a request that is not queued.  *)
(* So an accepted answer, the decision field, what the access gets and the *)
(* G record cannot come apart.                                             *)
(***************************************************************************)
EXTENDS AskProtocol, TLAPS

\* Labels of a task whose request may be queued.
Waiting == {"wait", "settle", "abandon"}

\* Every request has one owner, and ids are given out in order.
CurInv ==
  \A t \in Tasks :
    /\ cur[t] \in 0 .. nextId
    /\ pc[t] = "idle" <=> cur[t] = 0
    /\ \A u \in Tasks : cur[u] = cur[t] /\ cur[t] # 0 => u = t

\* No id is linked twice.
Distinct == \A k, l \in DOMAIN pending : pending[k] = pending[l] => k = l

\* A linked request is undecided and its owner has not returned.
QueueInv ==
  /\ \A i \in Ids : Queued(i) =>
       i \notin done /\ \E t \in Tasks : cur[t] = i /\ pc[t] \in Waiting
  /\ Distinct

\* What the owner knows: before the end nothing was returned, and the G
\* record to be written has the decision of the request.
OwnerInv ==
  \A t \in Tasks :
    /\ pc[t] = "enqueue" => ~Queued(cur[t]) /\ cur[t] \notin done
    /\ pc[t] \in Waiting \cup {"enqueue"} => returned[cur[t]] = "none"
    /\ pc[t] = "gate" => returned[cur[t]] = decision[cur[t]]

\* Only an answer allows, and an answer stays what the request was decided.
DecisionInv ==
  /\ \A i \in Ids : decision[i] = "allow" => [id |-> i, decision |-> "allow"] \in answers
  /\ \A a \in answers : a.id \in done /\ decision[a.id] = a.decision

\* An access got the decision of its request, and an id not given out yet
\* was never used.
ReturnInv ==
  \A i \in Ids :
    /\ returned[i] \in {"none", "eintr", decision[i]}
    /\ i > nextId => i \notin done /\ returned[i] = "none"

\* A G record tells what the access got, once, after its request is gone.
JournalInv ==
  /\ \A k \in DOMAIN journal :
       /\ journal[k].id <= nextId
       /\ journal[k].result = returned[journal[k].id]
       /\ \A t \in Tasks : cur[t] # journal[k].id
  /\ \A k, l \in DOMAIN journal : journal[k].id = journal[l].id => k = l

\* The inductive invariant.
AskInv ==
  /\ TypeOK /\ CurInv /\ QueueInv /\ OwnerInv
  /\ DecisionInv /\ ReturnInv /\ JournalInv

-----------------------------------------------------------------------------
(* The queue.                                                              *)

\* Unlinking takes one id out and keeps the others, in order.
LEMMA Unlink ==
  ASSUME AskAssumption, pending \in Seq(Ids), Distinct,
         NEW i, Queued(i), pending' = Without(i)
  PROVE  /\ pending' \in Seq(Ids) /\ Distinct'
         /\ \A j : Queued(j)' <=> Queued(j) /\ j # i
<1> DEFINE at == CHOOSE k \in DOMAIN pending : pending[k] = i
           n  == Len(pending)
<1>1. at \in 1 .. n /\ pending[at] = i /\ n \in Nat
  BY DEF Queued
<1>2. pending' = [k \in 1 .. n - 1 |-> IF k < at THEN pending[k] ELSE pending[k + 1]]
  BY DEF Without
<1> HIDE DEF at
<1>3. /\ n - 1 \in Nat
      /\ \A k \in 1 .. n - 1 : k \in 1 .. n /\ k + 1 \in 1 .. n
  BY <1>1
<1>4. pending' \in Seq(Ids) /\ Len(pending') = n - 1 /\ DOMAIN pending' = 1 .. n - 1
  <2>1. \A k \in 1 .. n : pending[k] \in Ids
    OBVIOUS
  <2> QED BY <1>1, <1>2, <1>3, <2>1
<1>5. \A k \in 1 .. n - 1 :
        pending'[k] = IF k < at THEN pending[k] ELSE pending[k + 1]
  BY <1>2
<1>d. \A k, l \in 1 .. n : pending[k] = pending[l] => k = l
  <2>1. DOMAIN pending = 1 .. n
    OBVIOUS
  <2> QED BY <2>1 DEF Distinct
<1> HIDE DEF n
\* Where the entry k of the new queue was in the old one.
<1> DEFINE was(k) == IF k < at THEN k ELSE k + 1
<1>w. \A k \in 1 .. n - 1 :
        was(k) \in 1 .. n /\ was(k) # at /\ pending'[k] = pending[was(k)]
  BY <1>1, <1>3, <1>5
<1>6. Distinct'
  <2> SUFFICES ASSUME NEW k \in 1 .. n - 1, NEW l \in 1 .. n - 1, pending'[k] = pending'[l]
               PROVE  k = l
    BY <1>4 DEF Distinct
  <2>1. was(k) = was(l)
    BY <1>d, <1>w
  <2> QED BY <1>1, <2>1
<1>7. ASSUME NEW j, Queued(j)' PROVE Queued(j) /\ j # i
  <2>1. PICK k \in 1 .. n - 1 : pending'[k] = j
    BY <1>4, <1>7 DEF Queued
  <2>2. was(k) \in 1 .. n /\ was(k) # at /\ pending[was(k)] = j
    BY <1>w, <2>1
  <2>3. j # i
    BY <1>1, <1>d, <2>2
  <2> QED BY <2>2, <2>3 DEF Queued, n
<1>8. ASSUME NEW j, Queued(j), j # i PROVE Queued(j)'
  <2>1. PICK k \in 1 .. n : pending[k] = j /\ k # at
    BY <1>1, <1>8 DEF Queued, n
  <2>2. CASE k < at
    <3>1. k \in 1 .. n - 1 /\ pending'[k] = j
      BY <1>1, <1>5, <2>1, <2>2
    <3> QED BY <1>4, <3>1 DEF Queued
  <2>3. CASE k > at
    <3>1. k - 1 \in 1 .. n - 1 /\ ~(k - 1 < at) /\ (k - 1) + 1 = k
      BY <1>1, <2>1, <2>3
    <3>2. pending'[k - 1] = j
      BY <1>5, <2>1, <3>1
    <3> QED BY <1>4, <3>1, <3>2 DEF Queued
  <2> QED BY <1>1, <2>1, <2>2, <2>3
<1> QED BY <1>4, <1>6, <1>7, <1>8

\* Linking adds an id that was not there.
LEMMA Link ==
  ASSUME pending \in Seq(Ids), Distinct,
         NEW i \in Ids, ~Queued(i), pending' = Append(pending, i)
  PROVE  /\ pending' \in Seq(Ids) /\ Distinct'
         /\ \A j : Queued(j)' <=> Queued(j) \/ j = i
<1> DEFINE n == Len(pending)
<1>1. /\ pending' \in Seq(Ids) /\ n \in Nat /\ DOMAIN pending' = 1 .. n + 1
      /\ pending'[n + 1] = i /\ \A k \in 1 .. n : pending'[k] = pending[k]
  OBVIOUS
<1>2. \A k \in 1 .. n : pending[k] # i
  BY DEF Queued
<1>3. Distinct'
  <2> SUFFICES ASSUME NEW k \in 1 .. n + 1, NEW l \in 1 .. n + 1, pending'[k] = pending'[l]
               PROVE  k = l
    BY <1>1 DEF Distinct
  <2>1. (k \in 1 .. n \/ k = n + 1) /\ (l \in 1 .. n \/ l = n + 1)
    BY <1>1
  <2> QED BY <1>1, <1>2, <2>1 DEF Distinct
<1>4. \A j : Queued(j)' <=> Queued(j) \/ j = i
  <2>1. n + 1 \in 1 .. n + 1 /\ \A k \in 1 .. n + 1 : k \in 1 .. n \/ k = n + 1
    BY <1>1
  <2> QED BY <1>1, <2>1 DEF Queued
<1> QED BY <1>1, <1>3, <1>4

-----------------------------------------------------------------------------
(* The invariant.                                                          *)

\* A task that asks has an id, and an id in the queue belongs to a task that
\* is alone with it.
LEMMA Owners ==
  ASSUME AskAssumption, AskInv
  PROVE  /\ \A t \in Tasks : pc[t] # "idle" => cur[t] \in Ids /\ cur[t] <= nextId
         /\ \A t, u \in Tasks : pc[t] # "idle" /\ t # u => cur[u] # cur[t]
         /\ \A i : Queued(i) => i \in Ids /\ i \notin done /\ returned[i] = "none"
  <1>1. /\ nextId \in 0 .. MaxId /\ pending \in Seq(Ids)
        /\ \A t \in Tasks : cur[t] \in 0 .. MaxId
    BY DEF AskInv, TypeOK
  <1>2. \A t \in Tasks : pc[t] # "idle" => cur[t] \in Ids /\ cur[t] <= nextId
    BY <1>1 DEF AskInv, CurInv, AskAssumption, Ids
  <1>3. \A t, u \in Tasks : pc[t] # "idle" /\ t # u => cur[u] # cur[t]
    BY <1>1, <1>2 DEF AskInv, CurInv
  <1>4. ASSUME NEW i, Queued(i) PROVE i \in Ids /\ i \notin done /\ returned[i] = "none"
    <2>1. i \in Ids
      BY <1>1, <1>4 DEF Queued
    <2>2. PICK t \in Tasks : cur[t] = i /\ pc[t] \in Waiting
      BY <1>4, <2>1 DEF AskInv, QueueInv
    <2> QED BY <1>4, <2>1, <2>2 DEF AskInv, QueueInv, OwnerInv
  <1> QED BY <1>2, <1>3, <1>4

\* A recorded id is an id.
LEMMA JournalIds ==
  ASSUME AskInv
  PROVE  \A k \in DOMAIN journal : journal[k].id \in Ids
<1> DEFINE R == [id : Ids, task : Tasks, result : Decisions]
<1>1. journal \in Seq(R)
  BY DEF AskInv, TypeOK
<1> HIDE DEF R
<1>2. \A k \in DOMAIN journal : journal[k] \in R
  BY <1>1
<1> QED BY <1>2 DEF R

LEMMA AskInvInit == AskAssumption /\ Init => AskInv
<1> SUFFICES ASSUME AskAssumption, Init PROVE AskInv
  OBVIOUS
<1>1. TypeOK
  BY DEF Init, TypeOK, Decisions, TaskLabels, WatchLabels, AskAssumption, Ids
<1>2. \A i : ~Queued(i)
  BY DEF Init, Queued
<1>3. CurInv /\ OwnerInv
  BY DEF Init, CurInv, OwnerInv, Waiting
<1>4. QueueInv
  BY <1>2 DEF Init, QueueInv, Distinct
<1>5. DecisionInv /\ ReturnInv /\ JournalInv
  BY DEF Init, DecisionInv, ReturnInv, JournalInv
<1> QED BY <1>1, <1>3, <1>4, <1>5 DEF AskInv

\* The steps that give out a request.
LEMMA RequestStep ==
  ASSUME AskAssumption, AskInv, NEW t \in Tasks, Request(t)
  PROVE  AskInv'
<1> USE DEF AskInv
<1>1. /\ pc[t] = "idle" /\ nextId' = nextId + 1 /\ nextId' \in 1 .. MaxId
      /\ nextId \in 0 .. MaxId /\ cur' = [cur EXCEPT ![t] = nextId']
      /\ pc' = [pc EXCEPT ![t] = "enqueue"]
      /\ UNCHANGED <<pending, decision, done, journal, wpc, seen, answers, returned>>
  BY DEF Request, Goto, TypeOK, AskAssumption, watchVars
<1>2. TypeOK'
  BY <1>1 DEF TypeOK, TaskLabels, Ids
<1>3. \A u \in Tasks : cur[u] \in 0 .. nextId
  BY DEF CurInv
<1>4. /\ cur' \in [Tasks -> 0 .. MaxId] /\ cur'[t] = nextId' /\ pc'[t] = "enqueue"
      /\ \A u \in Tasks : u # t => cur'[u] = cur[u] /\ pc'[u] = pc[u]
  BY <1>1, <1>2 DEF TypeOK
<1>5. CurInv'
  BY <1>1, <1>3, <1>4 DEF CurInv
<1>6. \A j : Queued(j)' <=> Queued(j)
  BY <1>1 DEF Queued
<1>7. QueueInv'
  <2>1. \A u \in Tasks : pc[u] \in Waiting => u # t
    BY <1>1 DEF Waiting
  <2> QED BY <1>1, <1>4, <1>6, <2>1 DEF QueueInv, Distinct
<1>8. nextId' \in Ids /\ nextId' \notin done /\ returned[nextId'] = "none" /\ ~Queued(nextId')
  <2>1. nextId' \in Ids /\ nextId' > nextId
    BY <1>1 DEF Ids
  <2>2. ~Queued(nextId')
    BY <1>1, <1>3, <2>1 DEF QueueInv
  <2> QED BY <2>1, <2>2 DEF ReturnInv
<1>9. OwnerInv'
  BY <1>1, <1>4, <1>6, <1>8 DEF OwnerInv, Waiting
<1>10. DecisionInv' /\ ReturnInv'
  BY <1>1 DEF DecisionInv, ReturnInv, Ids
<1>11. JournalInv'
  <2>1. \A k \in DOMAIN journal : journal[k].id \in Ids
    BY JournalIds
  <2>2. \A k \in DOMAIN journal : journal[k].id <= nextId' /\ journal[k].id # nextId'
    BY <1>1, <2>1 DEF JournalInv, Ids
  <2>3. \A k \in DOMAIN journal : \A u \in Tasks : cur'[u] # journal[k].id
    BY <1>4, <2>2 DEF JournalInv
  <2> QED BY <1>1, <2>2, <2>3 DEF JournalInv
<1> QED BY <1>2, <1>5, <1>7, <1>9, <1>10, <1>11

LEMMA EnqueueStep ==
  ASSUME AskAssumption, AskInv, NEW t \in Tasks, Enqueue(t)
  PROVE  AskInv'
<1> USE DEF AskInv
<1>1. /\ pc[t] = "enqueue" /\ pending' = Append(pending, cur[t])
      /\ pc' = [pc EXCEPT ![t] = "wait"]
      /\ UNCHANGED <<nextId, cur, decision, done, journal, wpc, seen, answers, returned>>
  BY DEF Enqueue, Goto, watchVars
<1>2. cur[t] \in Ids /\ ~Queued(cur[t]) /\ cur[t] \notin done /\ returned[cur[t]] = "none"
  BY <1>1, Owners DEF OwnerInv
<1>3. /\ pending' \in Seq(Ids) /\ Distinct'
      /\ \A j : Queued(j)' <=> Queued(j) \/ j = cur[t]
  BY <1>1, <1>2, Link DEF TypeOK, QueueInv
<1>4. pc'[t] = "wait" /\ \A u \in Tasks : u # t => pc'[u] = pc[u]
  BY <1>1 DEF TypeOK
<1>5. TypeOK'
  BY <1>1, <1>3 DEF TypeOK, TaskLabels
<1>6. CurInv'
  BY <1>1, <1>4 DEF CurInv
<1>7. QueueInv'
  <2>1. \A u \in Tasks : pc[u] \in Waiting => u # t
    BY <1>1 DEF Waiting
  <2> QED BY <1>1, <1>2, <1>3, <1>4, <2>1 DEF QueueInv, Waiting
<1>8. OwnerInv'
  <2>1. \A u \in Tasks : pc[u] = "enqueue" /\ u # t => cur[u] # cur[t]
    BY Owners
  <2> QED BY <1>1, <1>2, <1>3, <1>4, <2>1 DEF OwnerInv, Waiting
<1>9. DecisionInv' /\ ReturnInv' /\ JournalInv'
  BY <1>1 DEF DecisionInv, ReturnInv, JournalInv
<1> QED BY <1>5, <1>6, <1>7, <1>8, <1>9

\* The three ways out of the wait.
LEMMA WakeStep ==
  ASSUME AskAssumption, AskInv, NEW t \in Tasks,
         Completed(t) \/ Expired(t) \/ Interrupted(t)
  PROVE  AskInv'
<1> USE DEF AskInv
<1>1. PICK label \in {"settle", "abandon"} :
        /\ pc[t] = "wait" /\ pc' = [pc EXCEPT ![t] = label]
        /\ UNCHANGED <<nextId, pending, cur, decision, done, journal, wpc, seen, answers, returned>>
  BY DEF Completed, Expired, Interrupted, Goto, watchVars
<1>2. pc'[t] = label /\ \A u \in Tasks : u # t => pc'[u] = pc[u]
  BY <1>1 DEF TypeOK
<1>3. \A j : Queued(j)' <=> Queued(j)
  BY <1>1 DEF Queued
<1>4. TypeOK'
  BY <1>1 DEF TypeOK, TaskLabels
<1>5. CurInv' /\ OwnerInv'
  BY <1>1, <1>2, <1>3 DEF CurInv, OwnerInv, Waiting
<1>6. QueueInv'
  BY <1>1, <1>2, <1>3 DEF QueueInv, Distinct, Waiting
<1>7. DecisionInv' /\ ReturnInv' /\ JournalInv'
  BY <1>1 DEF DecisionInv, ReturnInv, JournalInv
<1> QED BY <1>4, <1>5, <1>6, <1>7

\* What Reclaim does: the request is not queued afterwards, and only a queued,
\* undecided one is changed, to a denial.
LEMMA ReclaimFacts ==
  ASSUME AskAssumption, AskInv, NEW t \in Tasks, pc[t] \in Waiting, Reclaim(t)
  PROVE  /\ pending' \in Seq(Ids) /\ Distinct'
         /\ decision' \in [Ids -> Decisions]
         /\ \A j : Queued(j)' <=> Queued(j) /\ j # cur[t]
         /\ \A i \in Ids : i # cur[t] => decision'[i] = decision[i]
         /\ IF Queued(cur[t]) THEN decision'[cur[t]] = "deny"
                              ELSE UNCHANGED decision
<1>1. cur[t] \in Ids /\ pending \in Seq(Ids) /\ Distinct /\ decision \in [Ids -> Decisions]
  BY Owners DEF AskInv, QueueInv, TypeOK, Waiting
<1>2. CASE Queued(cur[t])
  <2>1. decision' = [decision EXCEPT ![cur[t]] = "deny"] /\ pending' = Without(cur[t])
    BY <1>2 DEF Reclaim
  <2>2. pending' \in Seq(Ids) /\ Distinct' /\ \A j : Queued(j)' <=> Queued(j) /\ j # cur[t]
    BY <1>1, <1>2, <2>1, Unlink
  <2> QED BY <1>1, <1>2, <2>1, <2>2 DEF Decisions
<1>3. CASE ~Queued(cur[t])
  <2>1. UNCHANGED <<decision, pending>>
    BY <1>3 DEF Reclaim
  <2> QED BY <1>1, <1>3, <2>1 DEF Distinct, Queued
<1> QED BY <1>2, <1>3

\* A queued request is changed to a denial: decisions and answers still agree.
LEMMA DenialAgrees ==
  ASSUME AskAssumption, AskInv, NEW t \in Tasks, pc[t] \in Waiting, Reclaim(t),
         UNCHANGED <<done, answers>>
  PROVE  DecisionInv'
<1>1. /\ \A i \in Ids : i # cur[t] => decision'[i] = decision[i]
      /\ IF Queued(cur[t]) THEN decision'[cur[t]] = "deny" ELSE UNCHANGED decision
  BY ReclaimFacts
<1>2. \A i \in Ids : decision'[i] = "allow" => decision[i] = "allow"
  BY <1>1
<1>3. \A a \in answers : a.id \in Ids /\ decision'[a.id] = decision[a.id]
  <2>1. \A a \in answers : a.id \in Ids /\ a.id \in done
    BY DEF AskInv, TypeOK, DecisionInv
  <2>2. Queued(cur[t]) => cur[t] \notin done
    BY Owners
  <2> QED BY <1>1, <2>1, <2>2
<1> QED BY <1>2, <1>3 DEF AskInv, DecisionInv

LEMMA SettleStep ==
  ASSUME AskAssumption, AskInv, NEW t \in Tasks, Settle(t)
  PROVE  AskInv'
<1> USE DEF AskInv
<1>1. /\ pc[t] = "settle" /\ Reclaim(t) /\ pc' = [pc EXCEPT ![t] = "gate"]
      /\ returned' = [returned EXCEPT ![cur[t]] = decision'[cur[t]]]
      /\ UNCHANGED <<nextId, cur, done, journal, wpc, seen, answers>>
  BY DEF Settle, Goto, watchVars
<1>2. pc[t] \in Waiting /\ cur[t] \in Ids
  BY <1>1, Owners DEF Waiting
<1>3. /\ pending' \in Seq(Ids) /\ Distinct' /\ decision' \in [Ids -> Decisions]
      /\ \A j : Queued(j)' <=> Queued(j) /\ j # cur[t]
      /\ \A i \in Ids : i # cur[t] => decision'[i] = decision[i]
  BY <1>1, <1>2, ReclaimFacts
<1>4. pc'[t] = "gate" /\ \A u \in Tasks : u # t => pc'[u] = pc[u]
  BY <1>1 DEF TypeOK
<1>5. /\ returned'[cur[t]] = decision'[cur[t]]
      /\ \A i \in Ids : i # cur[t] => returned'[i] = returned[i]
  BY <1>1, <1>2 DEF TypeOK
<1>6. \A u \in Tasks : pc[u] # "idle" /\ u # t => cur[u] # cur[t] /\ cur[u] \in Ids
  BY Owners
<1>7. TypeOK'
  <2>1. returned' \in [Ids -> Decisions \cup {"none", "eintr"}]
    BY <1>1, <1>2, <1>3 DEF TypeOK
  <2> QED BY <1>1, <1>3, <2>1 DEF TypeOK, TaskLabels
<1>8. CurInv'
  BY <1>1, <1>4 DEF CurInv
<1>9. QueueInv'
  BY <1>1, <1>3, <1>4 DEF QueueInv
<1>10. OwnerInv'
  <2> SUFFICES ASSUME NEW u \in Tasks
               PROVE /\ pc'[u] = "enqueue" => ~Queued(cur[u])' /\ cur[u] \notin done
                     /\ pc'[u] \in Waiting \cup {"enqueue"} => returned'[cur[u]] = "none"
                     /\ pc'[u] = "gate" => returned'[cur[u]] = decision'[cur[u]]
    BY <1>1 DEF OwnerInv, Queued
  <2>1. CASE u = t
    BY <1>4, <1>5, <2>1 DEF Waiting
  <2>2. CASE u # t /\ pc[u] = "idle"
    BY <1>4, <2>2 DEF Waiting
  <2>3. CASE u # t /\ pc[u] # "idle"
    <3>1. /\ pc'[u] = pc[u]
          /\ Queued(cur[u])' => Queued(cur[u])
          /\ decision'[cur[u]] = decision[cur[u]] /\ returned'[cur[u]] = returned[cur[u]]
      BY <1>1, <1>3, <1>4, <1>5, <1>6, <2>3 DEF Queued
    <3>2. /\ pc[u] = "enqueue" => ~Queued(cur[u]) /\ cur[u] \notin done
          /\ pc[u] \in Waiting \cup {"enqueue"} => returned[cur[u]] = "none"
          /\ pc[u] = "gate" => returned[cur[u]] = decision[cur[u]]
      BY DEF OwnerInv
    <3> QED BY <3>1, <3>2, Zenon
  <2> QED BY <2>1, <2>2, <2>3
<1>11. DecisionInv'
  BY <1>1, <1>2, DenialAgrees
<1>12. ReturnInv'
  <2>1. cur[t] <= nextId /\ cur[t] \in Int /\ nextId \in Int
    BY <1>1, Owners DEF TypeOK, Ids
  <2>2. \A i \in Ids : i # cur[t] => decision'[i] = decision[i] /\ returned'[i] = returned[i]
    BY <1>3, <1>5
  <2>3. returned'[cur[t]] \in {"eintr", decision'[cur[t]]}
    BY <1>5
  <2> QED BY <1>1, <2>1, <2>2, <2>3 DEF ReturnInv, Ids
<1>13. JournalInv'
  <2>1. \A k \in DOMAIN journal : journal[k].id \in Ids /\ journal[k].id # cur[t]
    BY JournalIds DEF JournalInv
  <2> QED BY <1>1, <1>5, <2>1 DEF JournalInv
<1> QED BY <1>7, <1>8, <1>9, <1>10, <1>11, <1>12, <1>13

LEMMA AbandonStep ==
  ASSUME AskAssumption, AskInv, NEW t \in Tasks, Abandon(t)
  PROVE  AskInv'
<1> USE DEF AskInv
<1>1. /\ pc[t] = "abandon" /\ Reclaim(t) /\ pc' = [pc EXCEPT ![t] = "idle"]
      /\ cur' = [cur EXCEPT ![t] = 0]
      /\ returned' = [returned EXCEPT ![cur[t]] = "eintr"]
      /\ UNCHANGED <<nextId, done, journal, wpc, seen, answers>>
  BY DEF Abandon, Goto, watchVars
<1>2. pc[t] \in Waiting /\ cur[t] \in Ids
  BY <1>1, Owners DEF Waiting
<1>3. /\ pending' \in Seq(Ids) /\ Distinct' /\ decision' \in [Ids -> Decisions]
      /\ \A j : Queued(j)' <=> Queued(j) /\ j # cur[t]
      /\ \A i \in Ids : i # cur[t] => decision'[i] = decision[i]
  BY <1>1, <1>2, ReclaimFacts
<1>4. /\ pc'[t] = "idle" /\ cur'[t] = 0
      /\ \A u \in Tasks : u # t => pc'[u] = pc[u] /\ cur'[u] = cur[u]
  BY <1>1 DEF TypeOK
<1>5. /\ returned'[cur[t]] = "eintr"
      /\ \A i \in Ids : i # cur[t] => returned'[i] = returned[i]
  BY <1>1, <1>2 DEF TypeOK
<1>6. \A u \in Tasks : pc[u] # "idle" /\ u # t => cur[u] # cur[t] /\ cur[u] \in Ids
  BY Owners
<1>7. TypeOK'
  <2>1. returned' \in [Ids -> Decisions \cup {"none", "eintr"}]
    BY <1>1 DEF TypeOK
  <2> QED BY <1>1, <1>3, <2>1 DEF TypeOK, TaskLabels, AskAssumption
<1>8. CurInv'
  BY <1>1, <1>4 DEF CurInv, TypeOK
<1>9. QueueInv'
  BY <1>1, <1>3, <1>4 DEF QueueInv
<1>10. OwnerInv'
  <2> SUFFICES ASSUME NEW u \in Tasks, u # t
               PROVE /\ pc'[u] = "enqueue" => ~Queued(cur[u])' /\ cur[u] \notin done
                     /\ pc'[u] \in Waiting \cup {"enqueue"} => returned'[cur[u]] = "none"
                     /\ pc'[u] = "gate" => returned'[cur[u]] = decision'[cur[u]]
    BY <1>1, <1>4 DEF OwnerInv, Queued, Waiting
  <2> QED BY <1>3, <1>4, <1>5, <1>6 DEF OwnerInv, Waiting
<1>11. DecisionInv'
  BY <1>1, <1>2, DenialAgrees
<1>12. ReturnInv'
  <2>1. cur[t] <= nextId /\ cur[t] \in Int /\ nextId \in Int
    BY <1>1, Owners DEF TypeOK, Ids
  <2>2. \A i \in Ids : i # cur[t] => decision'[i] = decision[i] /\ returned'[i] = returned[i]
    BY <1>3, <1>5
  <2>3. returned'[cur[t]] \in {"eintr", decision'[cur[t]]}
    BY <1>5
  <2> QED BY <1>1, <2>1, <2>2, <2>3 DEF ReturnInv, Ids
<1>13. JournalInv'
  <2>1. \A k \in DOMAIN journal : journal[k].id \in Ids /\ journal[k].id # cur[t]
    BY JournalIds DEF JournalInv
  <2>2. \A k \in DOMAIN journal : \A u \in Tasks : cur'[u] # journal[k].id
    BY <1>4, <2>1 DEF JournalInv, Ids
  <2> QED BY <1>1, <1>5, <2>1, <2>2 DEF JournalInv
<1> QED BY <1>7, <1>8, <1>9, <1>10, <1>11, <1>12, <1>13


\* The entries of an extended sequence are the old ones and the new one.
LEMMA AppendEntries ==
  ASSUME NEW S, NEW s \in Seq(S), NEW e \in S
  PROVE  /\ Append(s, e) \in Seq(S)
         /\ DOMAIN Append(s, e) = DOMAIN s \cup {Len(s) + 1}
         /\ \A k \in DOMAIN Append(s, e) :
              \/ k \in DOMAIN s /\ Append(s, e)[k] = s[k]
              \/ k = Len(s) + 1 /\ k \notin DOMAIN s /\ Append(s, e)[k] = e
<1>1. /\ Len(s) \in Nat /\ DOMAIN s = 1 .. Len(s)
      /\ DOMAIN Append(s, e) = 1 .. Len(s) + 1
      /\ Append(s, e)[Len(s) + 1] = e
      /\ \A k \in 1 .. Len(s) : Append(s, e)[k] = s[k]
  OBVIOUS
<1>2. ASSUME NEW n \in Nat
      PROVE  /\ \A k \in 1 .. n + 1 : k \in 1 .. n \/ k = n + 1
             /\ n + 1 \notin 1 .. n /\ 1 .. n + 1 = 1 .. n \cup {n + 1}
  OBVIOUS
<1>3. /\ \A k \in 1 .. Len(s) + 1 : k \in 1 .. Len(s) \/ k = Len(s) + 1
      /\ Len(s) + 1 \notin 1 .. Len(s) /\ 1 .. Len(s) + 1 = 1 .. Len(s) \cup {Len(s) + 1}
  BY <1>1, <1>2
<1> QED BY <1>1, <1>2, <1>3

\* The end of an access, its G record written or lost.
LEMMA GateStep ==
  ASSUME AskAssumption, AskInv, NEW t \in Tasks, Gate(t)
  PROVE  AskInv'
<1> USE DEF AskInv
<1>1. /\ pc[t] = "gate" /\ pc' = [pc EXCEPT ![t] = "idle"] /\ cur' = [cur EXCEPT ![t] = 0]
      /\ journal' = Append(journal, GateRecord(t)) \/ UNCHANGED journal
      /\ UNCHANGED <<nextId, pending, decision, done, wpc, seen, answers, returned>>
  BY DEF Gate, Goto, watchVars
<1>2. cur[t] \in Ids /\ cur[t] <= nextId /\ returned[cur[t]] \in Decisions
  BY <1>1, Owners DEF OwnerInv, TypeOK
<1>3. /\ pc'[t] = "idle" /\ cur'[t] = 0
      /\ \A u \in Tasks : u # t => pc'[u] = pc[u] /\ cur'[u] = cur[u]
  BY <1>1 DEF TypeOK
<1>4. \A u \in Tasks : u # t => cur[u] # cur[t]
  BY <1>1, Owners
<1>5. \A j : Queued(j)' <=> Queued(j)
  BY <1>1 DEF Queued
<1> DEFINE R == [id : Ids, task : Tasks, result : Decisions]
           r == GateRecord(t)
<1>6. r \in R /\ r.id = cur[t] /\ r.result = returned[cur[t]]
  BY <1>2 DEF GateRecord
<1>7. journal \in Seq(R)
  BY DEF TypeOK
<1>8. /\ journal' \in Seq(R)
      /\ \A k \in DOMAIN journal' :
           \/ k \in DOMAIN journal /\ journal'[k] = journal[k]
           \/ k = Len(journal) + 1 /\ k \notin DOMAIN journal /\ journal'[k] = r
  <2> HIDE DEF R, r
  <2>1. CASE UNCHANGED journal
    BY <1>7, <2>1
  <2>2. CASE journal' = Append(journal, r)
    <3>1. r \in R
      BY <1>6
    <3> QED BY <1>7, <2>2, <3>1, AppendEntries
  <2> QED BY <1>1, <2>1, <2>2 DEF r
<1> HIDE DEF R, r
<1>9. TypeOK'
  BY <1>1, <1>8 DEF TypeOK, TaskLabels, AskAssumption, R
<1>10. CurInv'
  BY <1>1, <1>3 DEF CurInv, TypeOK
<1>11. QueueInv'
  <2>1. \A u \in Tasks : pc[u] \in Waiting => u # t
    BY <1>1 DEF Waiting
  <2> QED BY <1>1, <1>3, <1>5, <2>1 DEF QueueInv, Distinct
<1>12. OwnerInv'
  BY <1>1, <1>3, <1>5 DEF OwnerInv, Waiting
<1>13. DecisionInv' /\ ReturnInv'
  BY <1>1 DEF DecisionInv, ReturnInv
<1>14. JournalInv'
  <2>1. \A k \in DOMAIN journal : journal[k].id \in Ids /\ journal[k].id # cur[t]
    BY JournalIds DEF JournalInv
  <2>2. \A k \in DOMAIN journal' :
          /\ journal'[k].id <= nextId
          /\ journal'[k].result = returned[journal'[k].id]
    BY <1>2, <1>6, <1>8 DEF JournalInv
  <2>3. \A k \in DOMAIN journal' : \A u \in Tasks : cur'[u] # journal'[k].id
    <3>1. 0 \notin Ids
      BY DEF Ids
    <3> QED BY <1>2, <1>3, <1>4, <1>6, <1>8, <2>1, <3>1 DEF JournalInv
  <2>4. \A k, l \in DOMAIN journal' : journal'[k].id = journal'[l].id => k = l
    BY <1>6, <1>8, <2>1 DEF JournalInv
  <2> QED BY <1>1, <2>2, <2>3, <2>4 DEF JournalInv
<1> QED BY <1>9, <1>10, <1>11, <1>12, <1>13, <1>14

\* What ASK_DECIDE, and a watcher whose buffer faults, do to a queued request.
LEMMA ResolveStep ==
  ASSUME AskAssumption, AskInv, NEW i, Queued(i), NEW d \in Decisions, Resolve(i, d),
         \/ answers' = answers \cup {[id |-> i, decision |-> d]}
         \/ d = "deny" /\ UNCHANGED answers,
         wpc' \in [Watchers -> WatchLabels], seen' \in [Watchers -> 0 .. MaxId],
         UNCHANGED <<nextId, pc, cur, journal, returned>>
  PROVE  AskInv'
<1> USE DEF AskInv
<1>1. i \in Ids /\ i \notin done /\ returned[i] = "none"
  BY Owners
<1>2. /\ decision' = [decision EXCEPT ![i] = d] /\ pending' = Without(i)
      /\ done' = done \cup {i}
  BY DEF Resolve
<1>3. /\ pending' \in Seq(Ids) /\ Distinct'
      /\ \A j : Queued(j)' <=> Queued(j) /\ j # i
  BY <1>2, Unlink DEF TypeOK, QueueInv
<1>4. /\ decision'[i] = d
      /\ \A j \in Ids : j # i => decision'[j] = decision[j]
  BY <1>1, <1>2 DEF TypeOK
<1>5. TypeOK'
  BY <1>1, <1>2, <1>3 DEF TypeOK
<1>6. CurInv'
  BY DEF CurInv
<1>7. QueueInv'
  BY <1>2, <1>3 DEF QueueInv
<1>8. PICK o \in Tasks : cur[o] = i /\ pc[o] \in Waiting
  BY <1>1 DEF QueueInv
<1>9. OwnerInv'
  <2>1. \A u \in Tasks : pc[u] # "idle" /\ u # o => cur[u] # i /\ cur[u] \in Ids
    BY <1>8, Owners
  <2> SUFFICES ASSUME NEW u \in Tasks
               PROVE /\ pc[u] = "enqueue" => ~Queued(cur[u])' /\ cur[u] \notin done'
                     /\ pc[u] \in Waiting \cup {"enqueue"} => returned[cur[u]] = "none"
                     /\ pc[u] = "gate" => returned[cur[u]] = decision'[cur[u]]
    BY DEF OwnerInv, Queued
  <2>2. CASE u = o
    BY <1>1, <1>8, <2>2 DEF Waiting
  <2>3. CASE u # o
    <3>1. Queued(cur[u])' => Queued(cur[u])
      BY <1>3 DEF Queued
    <3>2. pc[u] = "enqueue" => ~Queued(cur[u]) /\ cur[u] \notin done
      BY DEF OwnerInv
    <3>3. pc[u] = "enqueue" => ~Queued(cur[u])' /\ cur[u] \notin done'
      BY <1>2, <2>1, <2>3, <3>1, <3>2
    <3>4. /\ pc[u] \in Waiting \cup {"enqueue"} => returned[cur[u]] = "none"
          /\ pc[u] = "gate" => returned[cur[u]] = decision'[cur[u]]
      BY <1>4, <2>1, <2>3 DEF OwnerInv
    <3> QED BY <3>3, <3>4
  <2> QED BY <2>2, <2>3
<1>10. DecisionInv'
  <2>1. \A a \in answers : a.id \in Ids /\ a.id \in done /\ a.id # i
    BY <1>1 DEF TypeOK, DecisionInv
  <2>2. \A j \in Ids : decision'[j] = "allow" => [id |-> j, decision |-> "allow"] \in answers'
    BY <1>4 DEF DecisionInv
  <2>3. \A a \in answers' : a.id \in done' /\ decision'[a.id] = a.decision
    BY <1>2, <1>4, <2>1 DEF DecisionInv
  <2> QED BY <2>2, <2>3 DEF DecisionInv
<1>11. ReturnInv'
  <2>1. i <= nextId /\ i \in Int /\ nextId \in Int
    <3>1. pc[o] # "idle" /\ nextId \in 0 .. MaxId /\ MaxId \in Nat
      BY <1>8 DEF TypeOK, Waiting, AskAssumption
    <3>2. i <= nextId
      BY <1>8, <3>1, Owners
    <3> QED BY <1>1, <3>1, <3>2 DEF Ids
  <2> QED BY <1>1, <1>2, <1>4, <2>1 DEF ReturnInv, Ids
<1>12. JournalInv'
  BY DEF JournalInv
<1> QED BY <1>5, <1>6, <1>7, <1>9, <1>10, <1>11, <1>12

\* A watcher that changes nothing but itself.
LEMMA WatcherOnly ==
  ASSUME AskAssumption, AskInv,
         wpc' \in [Watchers -> WatchLabels], seen' \in [Watchers -> 0 .. MaxId],
         UNCHANGED <<nextId, pending, decision, done, pc, cur, journal, answers, returned>>
  PROVE  AskInv'
<1>1. TypeOK'
  BY DEF AskInv, TypeOK
<1>2. CurInv' /\ OwnerInv' /\ QueueInv'
  BY DEF AskInv, CurInv, OwnerInv, QueueInv, Distinct, Queued
<1>3. DecisionInv' /\ ReturnInv' /\ JournalInv'
  BY DEF AskInv, DecisionInv, ReturnInv, JournalInv
<1> QED BY <1>1, <1>2, <1>3 DEF AskInv

LEMMA AskInvStep == AskAssumption /\ AskInv /\ [Next]_vars => AskInv'
<1> SUFFICES ASSUME AskAssumption, AskInv, [Next]_vars PROVE AskInv'
  OBVIOUS
<1>0. /\ wpc \in [Watchers -> WatchLabels] /\ seen \in [Watchers -> 0 .. MaxId]
      /\ MaxId \in Nat
  BY DEF AskInv, TypeOK, AskAssumption
<1>1. ASSUME NEW t \in Tasks, TaskStep(t) PROVE AskInv'
  BY <1>1, RequestStep, EnqueueStep, WakeStep, SettleStep, AbandonStep, GateStep DEF TaskStep
<1>2. ASSUME NEW w \in Watchers,
             PeekWoken(w) \/ PeekEmpty(w) \/ Stop(w) \/ Start(w) PROVE AskInv'
  <2>1. wpc' \in [Watchers -> WatchLabels] /\ seen' \in [Watchers -> 0 .. MaxId]
    BY <1>0, <1>2 DEF PeekWoken, PeekEmpty, Stop, Start, WGoto, WatchLabels
  <2>2. UNCHANGED <<nextId, pending, decision, done, pc, cur, journal, answers, returned>>
    BY <1>2 DEF PeekWoken, PeekEmpty, Stop, Start, taskVars
  <2> QED BY <2>1, <2>2, WatcherOnly
<1>3. ASSUME NEW w \in Watchers, PeekHead(w) PROVE AskInv'
  <2>1. Head(pending) \in 0 .. MaxId
    BY <1>3 DEF PeekHead, AskInv, TypeOK, Ids
  <2>2. wpc' \in [Watchers -> WatchLabels] /\ seen' \in [Watchers -> 0 .. MaxId]
    BY <1>0, <1>3, <2>1 DEF PeekHead, WGoto, WatchLabels
  <2>3. UNCHANGED <<nextId, pending, decision, done, pc, cur, journal, answers, returned>>
    BY <1>3 DEF PeekHead, taskVars
  <2> QED BY <2>2, <2>3, WatcherOnly
<1>4. ASSUME NEW w \in Watchers, PeekFault(w) PROVE AskInv'
  <2>1. wpc' \in [Watchers -> WatchLabels] /\ seen' \in [Watchers -> 0 .. MaxId]
    BY <1>0, <1>4 DEF PeekFault, WGoto, WatchLabels
  <2>2. UNCHANGED <<nextId, pc, cur, journal, returned, answers>>
    BY <1>4 DEF PeekFault, taskVars
  <2>3. CASE Queued(seen[w])
    <3>1. Resolve(seen[w], "deny") /\ "deny" \in Decisions
      BY <1>4, <2>3 DEF PeekFault, Decisions
    <3> QED BY <2>1, <2>2, <2>3, <3>1, ResolveStep
  <2>4. CASE ~Queued(seen[w])
    <3>1. UNCHANGED <<decision, pending, done>>
      BY <1>4, <2>4 DEF PeekFault
    <3> QED BY <2>1, <2>2, <3>1, WatcherOnly
  <2> QED BY <2>3, <2>4
<1>5. ASSUME NEW w \in Watchers, NEW d \in Decisions, Decide(w, d) PROVE AskInv'
  <2>1. wpc' \in [Watchers -> WatchLabels] /\ seen' \in [Watchers -> 0 .. MaxId]
    BY <1>0, <1>5 DEF Decide, WGoto, WatchLabels
  <2>2. UNCHANGED <<nextId, pc, cur, journal, returned>>
    BY <1>5 DEF Decide, taskVars
  <2>3. CASE Queued(seen[w])
    <3>1. Resolve(seen[w], d) /\ answers' = answers \cup {[id |-> seen[w], decision |-> d]}
      BY <1>5, <2>3 DEF Decide
    <3> QED BY <2>1, <2>2, <2>3, <3>1, ResolveStep
  <2>4. CASE ~Queued(seen[w])
    <3>1. UNCHANGED <<decision, pending, done, answers>>
      BY <1>5, <2>4 DEF Decide
    <3> QED BY <2>1, <2>2, <3>1, WatcherOnly
  <2> QED BY <2>3, <2>4
<1>6. CASE UNCHANGED vars
  BY <1>0, <1>6, WatcherOnly DEF vars, taskVars, watchVars
<1> QED BY <1>1, <1>2, <1>3, <1>4, <1>5, <1>6 DEF Next, WatchStep, Finished

LEMMA AskInvariant == Spec => []AskInv
<1>1. Init => AskInv
  BY AskInvInit, AskAssumption
<1>2. AskInv /\ [Next]_vars => AskInv'
  BY AskInvStep, AskAssumption
<1> QED BY <1>1, <1>2, PTL DEF Spec

-----------------------------------------------------------------------------
(* The theorems.                                                           *)

\* The protocol's variables hold what its structures can hold.
THEOREM AskTypes == Spec => []TypeOK
<1> QED BY AskInvariant, PTL DEF AskInv

\* The queue links only requests whose task is still there to unlink them:
\* the free in yolo_ask_userspace leaves no dangling entry.
THEOREM QueueSafe == Spec => []QueueIsLive
<1>1. AskInv => QueueIsLive
  <2> SUFFICES ASSUME AskInv PROVE QueueIsLive
    OBVIOUS
  <2>1. \A k \in DOMAIN pending : Queued(pending[k]) /\ pending[k] \in Ids
    BY DEF AskInv, TypeOK, Queued
  <2> QED BY <2>1 DEF AskInv, QueueInv, Distinct, Waiting, QueueIsLive
<1> QED BY <1>1, AskInvariant, PTL

\* No access is let through but by an answer that allowed that very request.
THEOREM NothingElseAllows == Spec => []AllowIsAnswered
<1>1. AskInv => AllowIsAnswered
  BY DEF AskInv, ReturnInv, DecisionInv, AllowIsAnswered
<1> QED BY <1>1, AskInvariant, PTL

\* What ASK_DECIDE accepted is final, whatever timeout or watcher is late,
\* and it accepts one answer for a request.
THEOREM AnswersAreFinal == Spec => [](AnswerStands /\ AnsweredOnce)
<1>1. AskInv => AnswerStands
  BY DEF AskInv, TypeOK, ReturnInv, DecisionInv, AnswerStands
<1>2. AskInv => AnsweredOnce
  <2> SUFFICES ASSUME AskInv, NEW a \in answers, NEW b \in answers, a.id = b.id PROVE a = b
    BY DEF AnsweredOnce
  <2>1. a.decision = b.decision
    BY DEF AskInv, DecisionInv
  <2> QED BY <2>1 DEF AskInv, TypeOK
<1> QED BY <1>1, <1>2, AskInvariant, PTL

\* The audit trail tells what the accesses got, once each.
THEOREM JournalIsTruth == Spec => []GateIsTruth
<1>1. AskInv => GateIsTruth
  BY DEF AskInv, JournalInv, GateIsTruth
<1> QED BY <1>1, AskInvariant, PTL


\* Without signals and failing appends nobody leaves before the G record.
RecordInv == (\A t \in Tasks : pc[t] # "abandon") /\ EveryPromptIsLogged

LEMMA RecordInvStep ==
  ASSUME AskAssumption, ~Signals, ~Faults, AskInv, RecordInv, [Next]_vars
  PROVE  RecordInv'
<1>0. nextId \in Nat /\ pc \in [Tasks -> TaskLabels] /\ cur \in [Tasks -> 0 .. MaxId]
  BY DEF AskInv, TypeOK, AskAssumption
<1>1. ASSUME NEW t \in Tasks, Request(t) PROVE RecordInv'
  <2>1. /\ cur[t] = 0 /\ nextId' = nextId + 1 /\ cur'[t] = nextId + 1 /\ pc'[t] = "enqueue"
        /\ \A u \in Tasks : u # t => pc'[u] = pc[u] /\ cur'[u] = cur[u]
        /\ UNCHANGED journal
    BY <1>0, <1>1 DEF Request, Goto, AskInv, CurInv
  <2> SUFFICES ASSUME NEW i \in 1 .. nextId', \A u \in Tasks : cur'[u] # i
               PROVE  \E k \in DOMAIN journal : journal[k].id = i
    BY <2>1 DEF RecordInv, EveryPromptIsLogged
  <2>2. i \in 1 .. nextId /\ \A u \in Tasks : cur[u] # i
    BY <1>0, <2>1
  <2> QED BY <2>2 DEF RecordInv, EveryPromptIsLogged
<1>2. ASSUME NEW t \in Tasks, Gate(t) PROVE RecordInv'
  <2>1. /\ cur' = [cur EXCEPT ![t] = 0] /\ pc' = [pc EXCEPT ![t] = "idle"]
        /\ journal' = Append(journal, GateRecord(t)) /\ UNCHANGED nextId
    BY <1>2 DEF Gate, Goto
  <2>2. cur[t] \in Ids
    BY <1>2, Owners DEF Gate
  <2> DEFINE R == [id : Ids, task : Tasks, result : Decisions]
  <2>3. journal \in Seq(R) /\ GateRecord(t) \in R /\ GateRecord(t).id = cur[t]
    BY <1>2, <2>2 DEF Gate, AskInv, TypeOK, OwnerInv, GateRecord
  <2> HIDE DEF R
  <2>4. /\ \A k \in DOMAIN journal : k \in DOMAIN journal' /\ journal'[k] = journal[k]
        /\ Len(journal) + 1 \in DOMAIN journal'
        /\ journal'[Len(journal) + 1].id = cur[t]
    <3>1. Len(journal) + 1 \notin DOMAIN journal
      BY <2>3
    <3> QED BY <2>1, <2>3, <3>1, AppendEntries
  <2>5. \A u \in Tasks : pc'[u] # "abandon" /\ (cur[u] = cur'[u] \/ u = t)
    BY <1>0, <2>1 DEF RecordInv
  <2> SUFFICES ASSUME NEW i \in 1 .. nextId, \A u \in Tasks : cur'[u] # i
               PROVE  \E k \in DOMAIN journal' : journal'[k].id = i
    BY <2>1, <2>5 DEF RecordInv, EveryPromptIsLogged
  <2>6. CASE i = cur[t]
    BY <2>4, <2>6
  <2>7. CASE i # cur[t]
    <3>1. \A u \in Tasks : cur[u] # i
      BY <2>5, <2>7
    <3>2. PICK k \in DOMAIN journal : journal[k].id = i
      BY <3>1 DEF RecordInv, EveryPromptIsLogged
    <3> QED BY <2>4, <3>2
  <2> QED BY <2>6, <2>7
<1>3. ASSUME UNCHANGED <<nextId, cur, journal>>, \A u \in Tasks : pc'[u] # "abandon"
      PROVE  RecordInv'
  BY <1>3 DEF RecordInv, EveryPromptIsLogged
<1>4. ASSUME NEW t \in Tasks, Enqueue(t) \/ Completed(t) \/ Expired(t) \/ Settle(t)
      PROVE  RecordInv'
  <2>1. UNCHANGED <<nextId, cur, journal>> /\ \A u \in Tasks : pc'[u] # "abandon"
    BY <1>0, <1>4 DEF Enqueue, Completed, Expired, Settle, Goto, RecordInv
  <2> QED BY <1>3, <2>1
<1>5. \A t \in Tasks : ~Interrupted(t) /\ ~Abandon(t)
  BY DEF Interrupted, Abandon, RecordInv
<1>6. ASSUME NEW w \in Watchers, WatchStep(w) PROVE RecordInv'
  <2>1. UNCHANGED <<nextId, cur, journal, pc>>
    BY <1>6 DEF WatchStep, PeekWoken, PeekHead, PeekEmpty, PeekFault, Decide, Stop, Start, taskVars
  <2> QED BY <1>3, <2>1 DEF RecordInv
<1>7. CASE UNCHANGED vars
  BY <1>3, <1>7 DEF vars, taskVars, RecordInv
<1> QED BY <1>1, <1>2, <1>4, <1>5, <1>6, <1>7 DEF Next, TaskStep, Finished

\* "Writes exactly one G for the resolved ask": true as long as no signal
\* interrupts a prompt and no append fails.
THEOREM RecordsAreComplete ==
  ASSUME ~Signals, ~Faults
  PROVE  Spec => []EveryPromptIsLogged
<1> DEFINE I == AskInv /\ RecordInv
<1>1. Init => I
  <2>1. Init => RecordInv
    BY DEF Init, RecordInv, EveryPromptIsLogged
  <2> QED BY <2>1, AskInvInit, AskAssumption
<1>2. I /\ [Next]_vars => I'
  BY AskInvStep, RecordInvStep, AskAssumption
<1>3. I => EveryPromptIsLogged
  BY DEF RecordInv
<1> QED BY <1>1, <1>2, <1>3, PTL DEF Spec

-----------------------------------------------------------------------------
(* The refinement of AskGate.                                              *)

\* The two variables of AskGate.
Phases == [t \in Tasks |-> Phase(t)]
Log == [k \in DOMAIN journal |-> [task |-> journal[k].task, result |-> journal[k].result]]

\* What a task's phase is, and what it depends on.
LEMMA PhaseIs ==
  ASSUME NEW t \in Tasks
  PROVE  /\ pc[t] = "idle" => Phase(t) = "idle"
         /\ pc[t] = "enqueue" => Phase(t) = "asked"
         /\ pc[t] \in Waiting => Phase(t) = IF Queued(cur[t]) THEN "asked" ELSE decision[cur[t]]
         /\ pc[t] = "gate" => Phase(t) = returned[cur[t]]
  BY DEF Phase, Waiting

LEMMA PhaseIsNext ==
  ASSUME NEW t \in Tasks
  PROVE  /\ pc'[t] = "idle" => Phase(t)' = "idle"
         /\ pc'[t] = "enqueue" => Phase(t)' = "asked"
         /\ pc'[t] \in Waiting =>
              Phase(t)' = IF Queued(cur[t])' THEN "asked" ELSE decision'[cur'[t]]
         /\ pc'[t] = "gate" => Phase(t)' = returned'[cur'[t]]
  BY DEF Phase, Waiting

\* The log of an extended journal.
LEMMA LogAppend ==
  ASSUME AskInv, NEW t \in Tasks, pc[t] = "gate", cur[t] \in Ids, returned[cur[t]] \in Decisions,
         journal' = Append(journal, GateRecord(t))
  PROVE  Log' = Append(Log, [task |-> t, result |-> returned[cur[t]]])
<1> DEFINE R == [id : Ids, task : Tasks, result : Decisions]
           S == [task : Tasks, result : Decisions]
           r == GateRecord(t)
           e == [task |-> t, result |-> returned[cur[t]]]
           n == Len(journal)
<1>1. journal \in Seq(R) /\ r \in R /\ r.task = t /\ r.result = returned[cur[t]] /\ e \in S
  BY DEF AskInv, TypeOK, GateRecord
<1>2. \A k \in DOMAIN journal : journal[k] \in R
  <2> HIDE DEF R
  <2> QED BY <1>1
<1>3. n \in Nat /\ DOMAIN journal = 1 .. n
  BY <1>1
<1>4. \A k \in DOMAIN journal : [task |-> journal[k].task, result |-> journal[k].result] \in S
  BY <1>2
<1>5. Log \in Seq(S) /\ Len(Log) = n
  <2> HIDE DEF S, R, n
  <2>1. Log \in [1 .. n -> S]
    BY <1>3, <1>4 DEF Log
  <2> QED BY <1>3, <2>1
<1> HIDE DEF R, S, r, e, n
<1>6. /\ DOMAIN journal' = 1 .. n \cup {n + 1}
      /\ \A k \in 1 .. n \cup {n + 1} : journal'[k] = IF k \in 1 .. n THEN journal[k] ELSE r
  <2>1. journal' = Append(journal, r)
    BY DEF r
  <2> QED BY <1>1, <1>3, <2>1, AppendEntries DEF n
<1>7. /\ Append(Log, e) \in Seq(S) /\ DOMAIN Append(Log, e) = 1 .. n \cup {n + 1}
      /\ \A k \in 1 .. n \cup {n + 1} : Append(Log, e)[k] = IF k \in 1 .. n THEN Log[k] ELSE e
  <2>1. DOMAIN Log = 1 .. n
    BY <1>3 DEF Log
  <2> QED BY <1>1, <1>5, <2>1, AppendEntries
<1>8. Log' = [k \in 1 .. n \cup {n + 1} |-> IF k \in 1 .. n THEN Log[k] ELSE e]
  <2>1. Log' = [k \in 1 .. n \cup {n + 1} |->
                 [task |-> journal'[k].task, result |-> journal'[k].result]]
    BY <1>6 DEF Log
  <2>2. \A k \in 1 .. n : Log[k] = [task |-> journal[k].task, result |-> journal[k].result]
    BY <1>3 DEF Log
  <2>3. e = [task |-> r.task, result |-> r.result]
    BY <1>1 DEF e
  <2> QED BY <1>6, <2>1, <2>2, <2>3
<1>9. Append(Log, e) = [k \in 1 .. n \cup {n + 1} |-> Append(Log, e)[k]]
  <2>1. ASSUME NEW q \in Seq(S) PROVE q = [k \in DOMAIN q |-> q[k]]
    <3>1. q \in [1 .. Len(q) -> S]
      OBVIOUS
    <3> QED BY <3>1
  <2> QED BY <1>7, <2>1
<1> QED BY <1>7, <1>8, <1>9 DEF e

\* A step that moves the phase of one task as AskGate allows is a step of it.
LEMMA GateMove ==
  ASSUME NEW t \in Tasks, \A u \in Tasks : u # t => Phase(u)' = Phase(u),
         \/ /\ UNCHANGED Log
            /\ \/ Phase(t)' = Phase(t)
               \/ Phase(t) = "idle" /\ Phase(t)' = "asked"
               \/ Phase(t) = "asked" /\ Phase(t)' \in Decisions
               \/ Phase(t) # "idle" /\ Phase(t)' = "idle"
         \/ /\ Phase(t) \in Decisions /\ Phase(t)' = "idle"
            /\ Log' = Append(Log, [task |-> t, result |-> Phase(t)])
  PROVE  [Abstract!Next]_<<Phases, Log>>
<1>1. Phases[t] = Phase(t) /\ Phases' = [Phases EXCEPT ![t] = Phase(t)']
  BY DEF Phases
<1>2. CASE UNCHANGED Log /\ Phase(t)' = Phase(t)
  BY <1>1, <1>2 DEF Phases
<1>3. CASE UNCHANGED Log /\ Phase(t) = "idle" /\ Phase(t)' = "asked"
  <2>1. Abstract!Ask(t)
    BY <1>1, <1>3 DEF Abstract!Ask, Phases, Log
  <2> QED BY <2>1 DEF Abstract!Next
<1>4. CASE UNCHANGED Log /\ Phase(t) = "asked" /\ Phase(t)' \in Decisions
  <2>1. Abstract!Resolve(t, Phase(t)')
    BY <1>1, <1>4 DEF Abstract!Resolve, Phases, Log
  <2> QED BY <1>4, <2>1 DEF Abstract!Next
<1>5. CASE UNCHANGED Log /\ Phase(t) # "idle" /\ Phase(t)' = "idle"
  <2>1. Abstract!Interrupt(t)
    BY <1>1, <1>5 DEF Abstract!Interrupt, Phases, Log
  <2> QED BY <2>1 DEF Abstract!Next
<1>6. CASE /\ Phase(t) \in Decisions /\ Phase(t)' = "idle"
           /\ Log' = Append(Log, [task |-> t, result |-> Phase(t)])
  <2>1. Abstract!Report(t)
    BY <1>1, <1>6 DEF Abstract!Report, Phases, Log
  <2> QED BY <2>1 DEF Abstract!Next
<1> QED BY <1>2, <1>3, <1>4, <1>5, <1>6


\* A task that this step does not touch keeps its phase.
LEMMA PhaseKept ==
  ASSUME NEW u \in Tasks, pc[u] \in TaskLabels, pc'[u] = pc[u], cur'[u] = cur[u],
         Queued(cur[u])' <=> Queued(cur[u]),
         decision'[cur[u]] = decision[cur[u]], returned'[cur[u]] = returned[cur[u]]
  PROVE  Phase(u)' = Phase(u)
<1>1. pc[u] \in {"idle", "enqueue", "gate"} \cup Waiting
  BY DEF TaskLabels, Waiting
<1>2. CASE pc[u] \in Waiting
  BY <1>2, PhaseIs, PhaseIsNext
<1>3. CASE pc[u] \in {"idle", "enqueue", "gate"}
  BY <1>3, PhaseIs, PhaseIsNext
<1> QED BY <1>1, <1>2, <1>3

\* Settle decides a request nobody decided; Abandon takes it back.
LEMMA ReclaimRefines ==
  ASSUME AskAssumption, AskInv, NEW t \in Tasks, Settle(t) \/ Abandon(t)
  PROVE  [Abstract!Next]_<<Phases, Log>>
<1>1. /\ pc[t] \in Waiting /\ Reclaim(t) /\ UNCHANGED journal
      /\ \A u \in Tasks : u # t => pc'[u] = pc[u] /\ cur'[u] = cur[u]
      /\ \A i \in Ids : i # cur[t] => returned'[i] = returned[i]
  BY DEF Settle, Abandon, Goto, AskInv, TypeOK, Waiting
<1>2. /\ cur[t] \in Ids /\ decision' \in [Ids -> Decisions]
      /\ \A j : Queued(j)' <=> Queued(j) /\ j # cur[t]
      /\ \A i \in Ids : i # cur[t] => decision'[i] = decision[i]
      /\ IF Queued(cur[t]) THEN decision'[cur[t]] = "deny" ELSE UNCHANGED decision
  BY <1>1, Owners, ReclaimFacts DEF Waiting
<1>3. ASSUME NEW u \in Tasks, u # t PROVE Phase(u)' = Phase(u)
  <2>1. CASE pc[u] = "idle"
    BY <1>1, <1>3, <2>1, PhaseIs, PhaseIsNext
  <2>2. CASE pc[u] # "idle"
    <3>1. cur[u] # cur[t] /\ cur[u] \in Ids /\ pc[u] \in TaskLabels
      BY <1>3, <2>2, Owners DEF AskInv, TypeOK
    <3>2. Queued(cur[u])' <=> Queued(cur[u])
      <4>1. Queued(cur[u])' <=> Queued(cur[u]) /\ cur[u] # cur[t]
        BY <1>1, <1>2, <1>3 DEF Queued
      <4> QED BY <3>1, <4>1
    <3> QED BY <1>1, <1>2, <1>3, <3>1, <3>2, PhaseKept
  <2> QED BY <2>1, <2>2
<1>4. UNCHANGED Log
  BY <1>1 DEF Log
<1>5. Phase(t) = IF Queued(cur[t]) THEN "asked" ELSE decision[cur[t]]
  BY <1>1, PhaseIs
<1>6. CASE Settle(t)
  <2>1. /\ pc'[t] = "gate" /\ cur'[t] = cur[t]
        /\ returned'[cur[t]] = decision'[cur[t]]
    BY <1>2, <1>6 DEF Settle, Goto, AskInv, TypeOK
  <2>2. Phase(t)' = decision'[cur[t]]
    BY <2>1, PhaseIsNext
  <2>3. CASE Queued(cur[t])
    <3>1. Phase(t) = "asked" /\ Phase(t)' \in Decisions
      BY <1>2, <1>5, <2>2, <2>3
    <3> QED BY <1>3, <1>4, <3>1, GateMove
  <2>4. CASE ~Queued(cur[t])
    <3>1. Phase(t)' = Phase(t)
      BY <1>2, <1>5, <2>2, <2>4
    <3> QED BY <1>3, <1>4, <3>1, GateMove
  <2> QED BY <2>3, <2>4
<1>7. CASE Abandon(t)
  <2>1. pc'[t] = "idle"
    BY <1>7 DEF Abandon, Goto, AskInv, TypeOK
  <2>2. Phase(t)' = "idle"
    BY <2>1, PhaseIsNext
  <2>3. decision[cur[t]] \in Decisions
    BY <1>2 DEF AskInv, TypeOK
  <2>4. Phase(t) # "idle"
    BY <1>5, <2>3 DEF Decisions
  <2> QED BY <1>3, <1>4, <2>2, <2>4, GateMove
<1> QED BY <1>6, <1>7

\* An answer, or a faulting watcher, decides a queued request.
LEMMA ResolveRefines ==
  ASSUME AskAssumption, AskInv, NEW i, Queued(i), NEW d \in Decisions, Resolve(i, d),
         UNCHANGED <<pc, cur, journal, returned>>
  PROVE  [Abstract!Next]_<<Phases, Log>>
<1>1. i \in Ids
  BY Owners
<1>2. PICK t \in Tasks : cur[t] = i /\ pc[t] \in Waiting
  BY <1>1 DEF AskInv, QueueInv
<1>3. decision' = [decision EXCEPT ![i] = d] /\ pending' = Without(i)
  BY DEF Resolve
<1>4. \A j : Queued(j)' <=> Queued(j) /\ j # i
  BY <1>3, Unlink DEF AskInv, TypeOK, QueueInv
<1>5. decision'[i] = d /\ \A j \in Ids : j # i => decision'[j] = decision[j]
  BY <1>1, <1>3 DEF AskInv, TypeOK
<1>6. ASSUME NEW u \in Tasks, u # t PROVE Phase(u)' = Phase(u)
  <2>1. CASE pc[u] = "idle"
    BY <1>6, <2>1, PhaseIs, PhaseIsNext
  <2>2. CASE pc[u] # "idle"
    <3>1. cur[u] # i /\ cur[u] \in Ids /\ pc[u] \in TaskLabels
      BY <1>2, <1>6, <2>2, Owners DEF AskInv, TypeOK
    <3>2. Queued(cur[u])' <=> Queued(cur[u])
      <4>1. Queued(cur[u])' <=> Queued(cur[u]) /\ cur[u] # i
        BY <1>4 DEF Queued
      <4> QED BY <3>1, <4>1
    <3> QED BY <1>5, <3>1, <3>2, PhaseKept
  <2> QED BY <2>1, <2>2
<1>7. UNCHANGED Log
  BY DEF Log
<1>8. Phase(t) = "asked"
  BY <1>2, PhaseIs
<1>9. Phase(t)' = d
  <2>1. ~Queued(cur[t])'
    <3>1. Queued(cur[t])' <=> Queued(cur[t]) /\ cur[t] # i
      BY <1>4 DEF Queued
    <3> QED BY <1>2, <3>1
  <2> QED BY <1>2, <1>5, <2>1, PhaseIsNext
<1> QED BY <1>6, <1>7, <1>8, <1>9, GateMove

LEMMA StepRefines ==
  ASSUME AskAssumption, AskInv, [Next]_vars
  PROVE  [Abstract!Next]_<<Phases, Log>>
<1>0. \A t \in Tasks : pc[t] \in TaskLabels
  BY DEF AskInv, TypeOK
<1>1. ASSUME UNCHANGED <<pending, decision, pc, cur, journal, returned>>
      PROVE  UNCHANGED <<Phases, Log>>
  <2>1. ASSUME NEW u \in Tasks PROVE Phase(u)' = Phase(u)
    BY <1>0, <1>1, PhaseKept DEF Queued
  <2> QED BY <1>1, <2>1 DEF Phases, Log
<1>2. ASSUME NEW t \in Tasks, Request(t) PROVE [Abstract!Next]_<<Phases, Log>>
  <2>1. /\ pc[t] = "idle" /\ pc'[t] = "enqueue"
        /\ \A u \in Tasks : u # t => pc'[u] = pc[u] /\ cur'[u] = cur[u]
        /\ UNCHANGED <<pending, decision, journal, returned>>
    BY <1>2 DEF Request, Goto, AskInv, TypeOK
  <2>2. ASSUME NEW u \in Tasks, u # t PROVE Phase(u)' = Phase(u)
    BY <1>0, <2>1, <2>2, PhaseKept DEF Queued
  <2>3. Phase(t) = "idle" /\ Phase(t)' = "asked"
    BY <2>1, PhaseIs, PhaseIsNext
  <2>4. UNCHANGED Log
    BY <2>1 DEF Log
  <2> QED BY <2>2, <2>3, <2>4, GateMove
<1>3. ASSUME NEW t \in Tasks, Enqueue(t) PROVE [Abstract!Next]_<<Phases, Log>>
  <2>1. /\ pc[t] = "enqueue" /\ pc'[t] = "wait" /\ pending' = Append(pending, cur[t])
        /\ \A u \in Tasks : u # t => pc'[u] = pc[u]
        /\ UNCHANGED <<cur, decision, journal, returned>>
    BY <1>3 DEF Enqueue, Goto, AskInv, TypeOK
  <2>2. cur[t] \in Ids /\ ~Queued(cur[t])
    BY <2>1, Owners DEF AskInv, OwnerInv
  <2>3. \A j : Queued(j)' <=> Queued(j) \/ j = cur[t]
    BY <2>1, <2>2, Link DEF AskInv, TypeOK, QueueInv
  <2>4. ASSUME NEW u \in Tasks, u # t PROVE Phase(u)' = Phase(u)
    <3>1. cur[u] # cur[t]
      BY <2>1, <2>4, Owners
    <3>2. Queued(cur[u])' <=> Queued(cur[u])
      <4>1. Queued(cur[u])' <=> Queued(cur[u]) \/ cur[u] = cur[t]
        BY <2>1, <2>3 DEF Queued
      <4> QED BY <3>1, <4>1
    <3> QED BY <1>0, <2>1, <2>4, <3>2, PhaseKept
  <2>5. Phase(t)' = Phase(t)
    <3>1. Queued(cur[t])'
      BY <2>1, <2>3 DEF Queued
    <3> QED BY <2>1, <3>1, PhaseIs, PhaseIsNext DEF Waiting
  <2>6. UNCHANGED Log
    BY <2>1 DEF Log
  <2> QED BY <2>4, <2>5, <2>6, GateMove
<1>4. ASSUME NEW t \in Tasks, Completed(t) \/ Expired(t) \/ Interrupted(t)
      PROVE  [Abstract!Next]_<<Phases, Log>>
  <2>1. /\ pc[t] \in Waiting /\ pc'[t] \in Waiting
        /\ \A u \in Tasks : u # t => pc'[u] = pc[u]
        /\ UNCHANGED <<pending, cur, decision, journal, returned>>
    BY <1>4 DEF Completed, Expired, Interrupted, Goto, AskInv, TypeOK, Waiting
  <2>2. \A u \in Tasks : Queued(cur[u])' <=> Queued(cur[u])
    BY <2>1 DEF Queued
  <2>3. ASSUME NEW u \in Tasks, u # t PROVE Phase(u)' = Phase(u)
    BY <1>0, <2>1, <2>2, <2>3, PhaseKept
  <2>4. Phase(t)' = Phase(t)
    BY <2>1, <2>2, PhaseIs, PhaseIsNext
  <2>5. UNCHANGED Log
    BY <2>1 DEF Log
  <2> QED BY <2>3, <2>4, <2>5, GateMove
<1>5. ASSUME NEW t \in Tasks, Gate(t) PROVE [Abstract!Next]_<<Phases, Log>>
  <2>1. /\ pc[t] = "gate" /\ pc'[t] = "idle"
        /\ \A u \in Tasks : u # t => pc'[u] = pc[u] /\ cur'[u] = cur[u]
        /\ journal' = Append(journal, GateRecord(t)) \/ UNCHANGED journal
        /\ UNCHANGED <<pending, decision, returned>>
    BY <1>5 DEF Gate, Goto, AskInv, TypeOK
  <2>2. ASSUME NEW u \in Tasks, u # t PROVE Phase(u)' = Phase(u)
    BY <1>0, <2>1, <2>2, PhaseKept DEF Queued
  <2>3. cur[t] \in Ids /\ returned[cur[t]] \in Decisions
    BY <2>1, Owners DEF AskInv, OwnerInv, TypeOK
  <2>4. Phase(t) = returned[cur[t]] /\ Phase(t)' = "idle"
    BY <2>1, PhaseIs, PhaseIsNext
  <2>5. CASE journal' = Append(journal, GateRecord(t))
    <3>1. Log' = Append(Log, [task |-> t, result |-> Phase(t)])
      BY <2>1, <2>3, <2>4, <2>5, LogAppend
    <3> QED BY <2>2, <2>3, <2>4, <3>1, GateMove
  <2>6. CASE UNCHANGED journal
    <3>1. UNCHANGED Log /\ Phase(t) # "idle"
      BY <2>3, <2>4, <2>6 DEF Log, Decisions
    <3> QED BY <2>2, <2>4, <3>1, GateMove
  <2> QED BY <2>1, <2>5, <2>6
<1>6. ASSUME NEW w \in Watchers, NEW d \in Decisions, Decide(w, d)
      PROVE  [Abstract!Next]_<<Phases, Log>>
  <2>1. CASE Queued(seen[w])
    <3>1. Resolve(seen[w], d) /\ UNCHANGED <<pc, cur, journal, returned>>
      BY <1>6, <2>1 DEF Decide, taskVars
    <3> QED BY <2>1, <3>1, ResolveRefines
  <2>2. CASE ~Queued(seen[w])
    BY <1>1, <1>6, <2>2 DEF Decide, taskVars
  <2> QED BY <2>1, <2>2
<1>7. ASSUME NEW w \in Watchers, PeekFault(w) PROVE [Abstract!Next]_<<Phases, Log>>
  <2>1. CASE Queued(seen[w])
    <3>1. /\ Resolve(seen[w], "deny") /\ "deny" \in Decisions
          /\ UNCHANGED <<pc, cur, journal, returned>>
      BY <1>7, <2>1 DEF PeekFault, taskVars, Decisions
    <3> QED BY <2>1, <3>1, ResolveRefines
  <2>2. CASE ~Queued(seen[w])
    BY <1>1, <1>7, <2>2 DEF PeekFault, taskVars
  <2> QED BY <2>1, <2>2
<1>8. ASSUME NEW w \in Watchers,
             PeekWoken(w) \/ PeekHead(w) \/ PeekEmpty(w) \/ Stop(w) \/ Start(w)
      PROVE  [Abstract!Next]_<<Phases, Log>>
  BY <1>1, <1>8 DEF PeekWoken, PeekHead, PeekEmpty, Stop, Start, taskVars
<1>9. CASE UNCHANGED vars
  BY <1>1, <1>9 DEF vars, taskVars
<1> QED BY <1>2, <1>3, <1>4, <1>5, <1>6, <1>7, <1>8, <1>9, ReclaimRefines
     DEF Next, TaskStep, WatchStep, Finished

\* The protocol with its queue, its locks, its late answers and its watchers
\* that come and go implements AskGate: an access is decided once, to what it
\* gets and what is recorded.
THEOREM GateRefined == Spec => GateSpec
<1>1. Init => Abstract!Init
  <2> SUFFICES ASSUME Init PROVE Abstract!Init
    OBVIOUS
  <2>1. \A t \in Tasks : Phase(t) = "idle"
    BY PhaseIs DEF Init
  <2>2. journal = <<>>
    BY DEF Init
  <2> QED BY <2>1, <2>2 DEF Abstract!Init
<1>2. AskInv /\ [Next]_vars
        => [Abstract!Next]_<<[t \in Tasks |-> Phase(t)],
             [k \in DOMAIN journal |-> [task |-> journal[k].task, result |-> journal[k].result]]>>
  BY StepRefines, AskAssumption DEF Phases, Log
<1> QED BY <1>1, <1>2, AskInvariant, PTL DEF Spec, GateSpec, Abstract!Spec


=============================================================================
