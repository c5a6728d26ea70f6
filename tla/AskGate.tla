------------------------------ MODULE AskGate ------------------------------
(***************************************************************************)
(* What the ask protocol promises, with no queue, no watcher and no lock:  *)
(* an access that needs approval is decided once, what was decided is what *)
(* the access gets and what the journal says, once.  An interrupted access *)
(* is not recorded.  The protocol that keeps the promise is AskProtocol.   *)
(***************************************************************************)
EXTENDS Sequences

CONSTANTS Tasks,      \* tasks that access gated paths
          Decisions   \* "allow" and "deny"

VARIABLES phase,      \* task -> "idle", "asked" or the decision it waits to get
          log         \* one entry per reported access: task and decision

Init == phase = [t \in Tasks |-> "idle"] /\ log = <<>>

Ask(t) ==
  /\ phase[t] = "idle"
  /\ phase' = [phase EXCEPT ![t] = "asked"]
  /\ UNCHANGED log

\* Only an undecided access can be decided.
Resolve(t, d) ==
  /\ phase[t] = "asked"
  /\ phase' = [phase EXCEPT ![t] = d]
  /\ UNCHANGED log

Report(t) ==
  /\ phase[t] \in Decisions
  /\ log' = Append(log, [task |-> t, result |-> phase[t]])
  /\ phase' = [phase EXCEPT ![t] = "idle"]

\* An access that ends without a record: interrupted, or its append failed.
Interrupt(t) ==
  /\ phase[t] # "idle"
  /\ phase' = [phase EXCEPT ![t] = "idle"]
  /\ UNCHANGED log

Next == \E t \in Tasks :
  \/ Ask(t) \/ Report(t) \/ Interrupt(t)
  \/ \E d \in Decisions : Resolve(t, d)

Spec == Init /\ [][Next]_<<phase, log>>
=============================================================================
