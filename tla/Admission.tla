------------------------------ MODULE Admission ------------------------------
(***************************************************************************)
(* Query admission: internal/engine/admission.go.                          *)
(*                                                                         *)
(* A call reserves one unit of three limits (process, Agent, source) in    *)
(* one critical section of Engine.mu or reserves nothing and sleeps on the *)
(* current capacityChanged channel.  A release frees the three units and   *)
(* closes that channel, which wakes every sleeper at once.                 *)
(*                                                                         *)
(* A request slot is reused: it stands for a goroutine of the HTTP server, *)
(* which serves one call after another.                                    *)
(***************************************************************************)
EXTENDS Integers, FiniteSets

CONSTANTS
  Requests,    \* request goroutines
  Agents,      \* identities that calls are accounted to
  Sources,     \* data sources
  Limits,      \* values of Limits.Concurrency a source snapshot may carry
  MaxActive,   \* 32 in the code
  MaxPerAgent  \* 4 in the code

ASSUME RequestsFinite == IsFiniteSet(Requests)
ASSUME LimitsPositive == Limits \subseteq Nat \ {0}
ASSUME MaxActivePositive == MaxActive \in Nat \ {0}
ASSUME MaxPerAgentPositive == MaxPerAgent \in Nat \ {0}

VARIABLES
  active,         \* Engine.active
  activeAgents,   \* Engine.activeAgents, a missing key being 0
  activeSources,  \* Engine.activeSources, a missing key being 0
  admission,      \* where each request is in admit / releaseAdmission
  call,           \* the arguments of the request's call of admit
  watchers,       \* requests asleep on the channel capacityChanged now holds
  ctxDone         \* requests whose context is cancelled or timed out

counters == <<active, activeAgents, activeSources>>
admissionVars == <<active, activeAgents, activeSources, admission, call,
                   watchers, ctxDone>>

Calls == [agent: Agents, source: Sources, limit: Limits]

AdmissionTypeOK ==
  /\ active \in Nat
  /\ activeAgents \in [Agents -> Nat]
  /\ activeSources \in [Sources -> Nat]
  /\ admission \in [Requests -> {"idle", "asking", "waiting", "holding"}]
  /\ call \in [Requests -> Calls]
  /\ watchers \subseteq Requests
  /\ ctxDone \subseteq Requests

AdmissionInit ==
  /\ active = 0
  /\ activeAgents = [a \in Agents |-> 0]
  /\ activeSources = [s \in Sources |-> 0]
  /\ admission = [r \in Requests |-> "idle"]
  /\ \E c \in Calls : call = [r \in Requests |-> c]
  /\ watchers = {}
  /\ ctxDone = {}

(***************************************************************************)
(* admit                                                                   *)
(***************************************************************************)
\* Sensitivity variant: comparing with <= admits one call too many.
HasCapacityInclusive(r) ==
  /\ active <= MaxActive
  /\ activeAgents[call[r].agent] <= MaxPerAgent
  /\ activeSources[call[r].source] <= call[r].limit

HasCapacity(r) ==
  /\ active < MaxActive
  /\ activeAgents[call[r].agent] < MaxPerAgent
  /\ activeSources[call[r].source] < call[r].limit

\* execute calls admit with the principal and the source snapshot of the call.
Ask(r, c) ==
  /\ admission[r] = "idle"
  /\ admission' = [admission EXCEPT ![r] = "asking"]
  /\ call' = [call EXCEPT ![r] = c]
  /\ UNCHANGED <<counters, watchers, ctxDone>>

\* All three limits have room: take one unit of each.
Reserve(r) ==
  /\ admission[r] = "asking"
  /\ r \notin ctxDone
  /\ HasCapacity(r)
  /\ active' = active + 1
  /\ activeAgents' = [activeAgents EXCEPT ![call[r].agent] = @ + 1]
  /\ activeSources' = [activeSources EXCEPT ![call[r].source] = @ + 1]
  /\ admission' = [admission EXCEPT ![r] = "holding"]
  /\ UNCHANGED <<call, watchers, ctxDone>>

\* Sensitivity variant: the global unit is taken before looking at the others.
SleepHoldingGlobal(r) ==
  /\ admission[r] = "asking"
  /\ r \notin ctxDone
  /\ active < MaxActive
  /\ ~HasCapacity(r)
  /\ active' = active + 1
  /\ admission' = [admission EXCEPT ![r] = "waiting"]
  /\ watchers' = watchers \union {r}
  /\ UNCHANGED <<activeAgents, activeSources, call, ctxDone>>

\* No room: read the channel before unlocking, reserve nothing and sleep on it.
Sleep(r) ==
  /\ admission[r] = "asking"
  /\ r \notin ctxDone
  /\ ~HasCapacity(r)
  /\ admission' = [admission EXCEPT ![r] = "waiting"]
  /\ watchers' = watchers \union {r}
  /\ UNCHANGED <<counters, call, ctxDone>>

\* The channel the request sleeps on is closed: go round the loop again.
Wake(r) ==
  /\ admission[r] = "waiting"
  /\ r \notin watchers
  /\ admission' = [admission EXCEPT ![r] = "asking"]
  /\ UNCHANGED <<counters, call, watchers, ctxDone>>

\* ctx.Err() at the head of the loop, or the ctx.Done() arm of the select.
GiveUp(r) ==
  /\ admission[r] \in {"asking", "waiting"}
  /\ r \in ctxDone
  /\ admission' = [admission EXCEPT ![r] = "idle"]
  /\ watchers' = watchers \ {r}
  /\ UNCHANGED <<counters, call, ctxDone>>

(***************************************************************************)
(* releaseAdmission, deferred by execute once admit has succeeded: it runs *)
(* whether or not the call succeeds or its context is done.                *)
(***************************************************************************)
FreeUnits(r) ==
  /\ active' = active - 1
  /\ activeAgents' = [activeAgents EXCEPT ![call[r].agent] = @ - 1]
  /\ activeSources' = [activeSources EXCEPT ![call[r].source] = @ - 1]
  /\ admission' = [admission EXCEPT ![r] = "idle"]
  /\ UNCHANGED <<call, ctxDone>>

\* Sensitivity variant: capacityChanged is never closed.
ReleaseSilently(r) ==
  /\ admission[r] = "holding"
  /\ FreeUnits(r)
  /\ UNCHANGED watchers

\* Sensitivity variant: one sleeper is signalled where all must be.
ReleaseWakingOne(r) ==
  /\ admission[r] = "holding"
  /\ FreeUnits(r)
  /\ \/ watchers = {} /\ watchers' = {}
     \/ \E w \in watchers : watchers' = watchers \ {w}

Release(r) ==
  /\ admission[r] = "holding"
  /\ FreeUnits(r)
  /\ watchers' = {}

(***************************************************************************)
(* The context execute passes to admit (context.WithTimeout).              *)
(***************************************************************************)
\* The caller disconnects, a job is cancelled or the call's timeout fires.
ContextEnds(r) ==
  /\ r \notin ctxDone
  /\ ctxDone' = ctxDone \union {r}
  /\ UNCHANGED <<counters, admission, call, watchers>>

\* The goroutine starts on another call, with a context of its own.
FreshContext(r) ==
  /\ admission[r] = "idle"
  /\ r \in ctxDone
  /\ ctxDone' = ctxDone \ {r}
  /\ UNCHANGED <<counters, admission, call, watchers>>

AdmissionNext ==
  \E r \in Requests :
    \/ \E c \in Calls : Ask(r, c)
    \/ Reserve(r)
    \/ Sleep(r)
    \/ Wake(r)
    \/ GiveUp(r)
    \/ Release(r)
    \/ ContextEnds(r)
    \/ FreshContext(r)

(***************************************************************************)
(* The scheduler runs every runnable goroutine, and an admitted call ends  *)
(* because its context carries a timeout.  No fairness is assumed of       *)
(* ContextEnds: progress must come from the wakeups alone.                 *)
(***************************************************************************)
AdmissionFairness ==
  \A r \in Requests :
    /\ WF_admissionVars(Reserve(r) \/ Sleep(r))
    /\ WF_admissionVars(Wake(r))
    /\ WF_admissionVars(GiveUp(r))
    /\ WF_admissionVars(Release(r))

AdmissionSpec == AdmissionInit /\ [][AdmissionNext]_admissionVars
FairAdmissionSpec == AdmissionSpec /\ AdmissionFairness

(***************************************************************************)
(* Properties                                                              *)
(***************************************************************************)
Holders == {r \in Requests : admission[r] = "holding"}
AgentHolders(a) == {r \in Holders : call[r].agent = a}
SourceHolders(s) == {r \in Holders : call[r].source = s}

\* "A request waiting for its Agent or source must not hold global capacity
\* needed by unrelated queries" (admission.go:8): each counter is exactly the
\* number of admitted calls, whatever interleaving of waiting, cancellation and
\* release led here, so nothing is leaked and nothing is held while waiting.
CountersMatchHolders ==
  /\ active = Cardinality(Holders)
  /\ \A a \in Agents : activeAgents[a] = Cardinality(AgentHolders(a))
  /\ \A s \in Sources : activeSources[s] = Cardinality(SourceHolders(s))

\* The limit of a source travels in the call's snapshot and may be edited while
\* calls run: for every n, at most n calls admitted to a source under a limit of
\* n or less hold it at once, so lowering the limit is honoured by later calls.
SourceLimitsRespected ==
  \A s \in Sources, n \in Limits :
    Cardinality({r \in SourceHolders(s) : call[r].limit <= n}) <= n

\* "Global concurrency is 32; each Agent is limited to four"
\* (docs/architecture.md): never more admitted calls than that, nor more of a
\* source's than its limit.
LimitsRespected ==
  /\ Cardinality(Holders) <= MaxActive
  /\ \A a \in Agents : Cardinality(AgentHolders(a)) <= MaxPerAgent
  /\ SourceLimitsRespected

\* No lost wakeup: a request asleep on the open channel really lacks room, in
\* all three limits' terms, so no release between reading the channel and
\* sleeping on it goes unnoticed.
NoLostWakeup ==
  \A r \in watchers : admission[r] = "waiting" /\ ~HasCapacity(r)

\* Once calls stop arriving, every queued call is admitted or abandoned by its
\* own context: the broadcast alone drains the queue, with no timeout needed and
\* without serving sleepers in any order.
QueueDrains ==
  <>[][\A r \in Requests : admission[r] = "idle" => admission'[r] = "idle"]_admissionVars
    => \A r \in Requests :
         admission[r] = "waiting" ~> admission[r] \in {"holding", "idle"}
=============================================================================
