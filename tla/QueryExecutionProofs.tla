------------------------ MODULE QueryExecutionProofs ------------------------
(***************************************************************************)
(* Proofs about query admission alone, and about Engine.execute against    *)
(* the administration of sources and Agents, for any number of calls,      *)
(* Agents, sources, limits and changes.                                    *)
(*                                                                         *)
(* Admission comes first.  Its counters are natural numbers only because   *)
(* each of them counts a set of admitted calls, so its types are proved    *)
(* together with CountersMatchHolders; the bounds and the absence of lost  *)
(* wakeups follow from the exactness of the counters.                      *)
(*                                                                         *)
(* In QueryExecution a step of a call is a step of admission, or none, or  *)
(* ends contexts, which admission's invariant does not depend on: that the *)
(* counters stay exact there is the lemma of the first part.               *)
(***************************************************************************)
EXTENDS QueryExecution, FiniteSetTheorems, TLAPS

AdmissionInv == AdmissionTypeOK /\ CountersMatchHolders

(***************************************************************************)
(* Sets of calls                                                           *)
(***************************************************************************)

\* What adding an element to, or removing one from, a finite set does to its
\* size, with the arithmetic facts admission needs.
LEMMA AddOne ==
  ASSUME NEW S, IsFiniteSet(S), NEW e, e \notin S
  PROVE  /\ IsFiniteSet(S \union {e})
         /\ Cardinality(S) \in Nat
         /\ Cardinality(S \union {e}) = Cardinality(S) + 1
  BY FS_AddElement, FS_CardinalityType

LEMMA RemoveOne ==
  ASSUME NEW S, IsFiniteSet(S), NEW e \in S
  PROVE  /\ IsFiniteSet(S \ {e})
         /\ Cardinality(S) \in Nat \ {0}
         /\ Cardinality(S \ {e}) = Cardinality(S) - 1
  BY FS_RemoveElement, FS_CardinalityType, FS_EmptySet

\* The sets of holders are finite: they are subsets of Requests.
LEMMA HoldersFinite ==
  /\ IsFiniteSet(Holders)
  /\ \A a : IsFiniteSet(AgentHolders(a))
  /\ \A s : IsFiniteSet(SourceHolders(s))
  /\ \A s, n : IsFiniteSet({r \in SourceHolders(s) : call[r].limit <= n})
  <1>1. Holders \subseteq Requests
    BY DEF Holders
  <1>2. \A S : S \subseteq Holders => IsFiniteSet(S)
    BY <1>1, RequestsFinite, FS_Subset
  <1>3. /\ \A a : AgentHolders(a) \subseteq Holders
        /\ \A s : SourceHolders(s) \subseteq Holders
        /\ \A s, n : {r \in SourceHolders(s) : call[r].limit <= n} \subseteq Holders
    BY DEF AgentHolders, SourceHolders
  <1> QED
    BY <1>2, <1>3

\* An admitted call joins the holders of its Agent and of its source only.
LEMMA ReserveHolders ==
  ASSUME AdmissionTypeOK, NEW r \in Requests, Reserve(r)
  PROVE  /\ Holders' = Holders \union {r}
         /\ r \notin Holders
         /\ \A a \in Agents : AgentHolders(a)' =
              IF a = call[r].agent THEN AgentHolders(a) \union {r} ELSE AgentHolders(a)
         /\ \A s \in Sources : SourceHolders(s)' =
              IF s = call[r].source THEN SourceHolders(s) \union {r} ELSE SourceHolders(s)
  BY DEF AdmissionTypeOK, Reserve, Holders, AgentHolders, SourceHolders

\* A released call leaves the holders of its Agent and of its source.
LEMMA ReleaseHolders ==
  ASSUME AdmissionTypeOK, NEW r \in Requests, Release(r)
  PROVE  /\ Holders' = Holders \ {r}
         /\ r \in Holders
         /\ \A a \in Agents : AgentHolders(a)' =
              IF a = call[r].agent THEN AgentHolders(a) \ {r} ELSE AgentHolders(a)
         /\ \A s \in Sources : SourceHolders(s)' =
              IF s = call[r].source THEN SourceHolders(s) \ {r} ELSE SourceHolders(s)
         /\ r \in AgentHolders(call[r].agent)
         /\ r \in SourceHolders(call[r].source)
  BY DEF AdmissionTypeOK, Release, FreeUnits, Holders, AgentHolders, SourceHolders, Calls

\* Every other step leaves the sets of holders alone.
LEMMA OtherHolders ==
  ASSUME AdmissionTypeOK, [AdmissionNext]_admissionVars,
         \A r \in Requests : ~Reserve(r) /\ ~Release(r)
  PROVE  /\ Holders' = Holders
         /\ \A a : AgentHolders(a)' = AgentHolders(a)
         /\ \A s : SourceHolders(s)' = SourceHolders(s)
         /\ \A h \in Holders : call'[h] = call[h]
         /\ UNCHANGED counters
  <1>1. ASSUME NEW r \in Requests, NEW c \in Calls, Ask(r, c)
        PROVE  /\ Holders' = Holders
               /\ \A h \in Holders : call'[h] = call[h]
               /\ UNCHANGED counters
    BY <1>1 DEF AdmissionTypeOK, Ask, Holders
  <1>2. ASSUME NEW r \in Requests,
               Sleep(r) \/ Wake(r) \/ GiveUp(r) \/ ContextEnds(r) \/ FreshContext(r)
        PROVE  /\ Holders' = Holders
               /\ \A h \in Holders : call'[h] = call[h]
               /\ UNCHANGED counters
    BY <1>2 DEF AdmissionTypeOK, Sleep, Wake, GiveUp, ContextEnds, FreshContext, Holders, counters
  <1>3. CASE UNCHANGED admissionVars
    BY <1>3 DEF admissionVars, Holders, AgentHolders, SourceHolders, counters
  <1>4. /\ Holders' = Holders
        /\ \A h \in Holders : call'[h] = call[h]
        /\ UNCHANGED counters
    BY <1>1, <1>2, <1>3 DEF AdmissionNext, admissionVars, counters, Holders
  <1> QED
    BY <1>4 DEF AgentHolders, SourceHolders

(***************************************************************************)
(* Type correctness and exact counters                                     *)
(***************************************************************************)

LEMMA InitInv == AdmissionInit => AdmissionInv
  <1> SUFFICES ASSUME AdmissionInit PROVE AdmissionInv
    OBVIOUS
  <1>1. AdmissionTypeOK
    BY DEF AdmissionInit, AdmissionTypeOK
  <1>2. /\ Holders = {}
        /\ \A a : AgentHolders(a) = {}
        /\ \A s : SourceHolders(s) = {}
    BY DEF AdmissionInit, Holders, AgentHolders, SourceHolders
  <1> QED
    BY <1>1, <1>2, FS_EmptySet DEF AdmissionInit, AdmissionInv, CountersMatchHolders

LEMMA NextInv == AdmissionInv /\ [AdmissionNext]_admissionVars => AdmissionInv'
  <1> SUFFICES ASSUME AdmissionInv, [AdmissionNext]_admissionVars PROVE AdmissionInv'
    OBVIOUS
  <1> USE DEF AdmissionInv
  <1>1. ASSUME NEW r \in Requests, Reserve(r) PROVE AdmissionInv'
    <2> DEFINE a == call[r].agent
               s == call[r].source
    <2>0. /\ a \in Agents /\ s \in Sources
          /\ r \notin AgentHolders(a) /\ r \notin SourceHolders(s)
      BY <1>1 DEF AdmissionTypeOK, Calls, Reserve, AgentHolders, SourceHolders, Holders
    <2>3. /\ active + 1 = Cardinality(Holders \union {r})
          /\ activeAgents[a] + 1 = Cardinality(AgentHolders(a) \union {r})
          /\ activeSources[s] + 1 = Cardinality(SourceHolders(s) \union {r})
      BY <1>1, <2>0, ReserveHolders, HoldersFinite, AddOne
         DEF CountersMatchHolders
    <2>1. AdmissionTypeOK'
      BY <1>1 DEF AdmissionTypeOK, Reserve, Calls
    <2>2. CountersMatchHolders'
      <3>1. active' = Cardinality(Holders')
        BY <1>1, <2>3, ReserveHolders DEF Reserve
      <3>2. ASSUME NEW b \in Agents PROVE activeAgents'[b] = Cardinality(AgentHolders(b)')
        <4>1. activeAgents'[b] = IF b = a THEN activeAgents[a] + 1 ELSE activeAgents[b]
          BY <1>1 DEF AdmissionTypeOK, Reserve
        <4>2. AgentHolders(b)' =
                IF b = a THEN AgentHolders(a) \union {r} ELSE AgentHolders(b)
          BY <1>1, ReserveHolders
        <4> QED
          BY <2>3, <4>1, <4>2 DEF CountersMatchHolders
      <3>3. ASSUME NEW t \in Sources PROVE activeSources'[t] = Cardinality(SourceHolders(t)')
        <4>1. activeSources'[t] = IF t = s THEN activeSources[s] + 1 ELSE activeSources[t]
          BY <1>1 DEF AdmissionTypeOK, Reserve
        <4>2. SourceHolders(t)' =
                IF t = s THEN SourceHolders(s) \union {r} ELSE SourceHolders(t)
          BY <1>1, ReserveHolders
        <4> QED
          BY <2>3, <4>1, <4>2 DEF CountersMatchHolders
      <3> QED
        BY <3>1, <3>2, <3>3 DEF CountersMatchHolders
    <2> QED
      BY <2>1, <2>2
  <1>2. ASSUME NEW r \in Requests, Release(r) PROVE AdmissionInv'
    <2> DEFINE a == call[r].agent
               s == call[r].source
    <2>0. /\ a \in Agents /\ s \in Sources
          /\ r \in Holders /\ r \in AgentHolders(a) /\ r \in SourceHolders(s)
      BY <1>2, ReleaseHolders DEF AdmissionTypeOK, Calls
    <2>4. ASSUME NEW S, IsFiniteSet(S), r \in S, NEW n, n = Cardinality(S)
          PROVE  n - 1 = Cardinality(S \ {r}) /\ n - 1 \in Nat
      BY <2>4, RemoveOne
    <2>1. /\ active - 1 = Cardinality(Holders \ {r})
          /\ active - 1 \in Nat
          /\ activeAgents[a] - 1 = Cardinality(AgentHolders(a) \ {r})
          /\ activeAgents[a] - 1 \in Nat
          /\ activeSources[s] - 1 = Cardinality(SourceHolders(s) \ {r})
          /\ activeSources[s] - 1 \in Nat
      BY <2>0, <2>4, HoldersFinite DEF CountersMatchHolders
    <2>2. AdmissionTypeOK'
      BY <1>2, <2>1 DEF AdmissionTypeOK, Release, FreeUnits
    <2>3. CountersMatchHolders'
      <3>1. active' = Cardinality(Holders')
        BY <1>2, <2>1, ReleaseHolders DEF Release, FreeUnits
      <3>2. ASSUME NEW b \in Agents PROVE activeAgents'[b] = Cardinality(AgentHolders(b)')
        <4>1. activeAgents'[b] = IF b = a THEN activeAgents[a] - 1 ELSE activeAgents[b]
          BY <1>2 DEF AdmissionTypeOK, Release, FreeUnits
        <4>2. AgentHolders(b)' = IF b = a THEN AgentHolders(a) \ {r} ELSE AgentHolders(b)
          BY <1>2, ReleaseHolders
        <4> QED
          BY <2>1, <4>1, <4>2 DEF CountersMatchHolders
      <3>3. ASSUME NEW t \in Sources PROVE activeSources'[t] = Cardinality(SourceHolders(t)')
        <4>1. activeSources'[t] = IF t = s THEN activeSources[s] - 1 ELSE activeSources[t]
          BY <1>2 DEF AdmissionTypeOK, Release, FreeUnits
        <4>2. SourceHolders(t)' = IF t = s THEN SourceHolders(s) \ {r} ELSE SourceHolders(t)
          BY <1>2, ReleaseHolders
        <4> QED
          BY <2>1, <4>1, <4>2 DEF CountersMatchHolders
      <3> QED
        BY <3>1, <3>2, <3>3 DEF CountersMatchHolders
    <2> QED
      BY <2>2, <2>3
  <1>3. CASE \A r \in Requests : ~Reserve(r) /\ ~Release(r)
    <2>1. AdmissionTypeOK'
      BY <1>3 DEF AdmissionTypeOK, AdmissionNext, admissionVars, counters, Ask, Sleep, Wake, GiveUp,
                  ContextEnds, FreshContext
    <2>2. CountersMatchHolders'
      BY <1>3, OtherHolders DEF CountersMatchHolders, counters
    <2> QED
      BY <2>1, <2>2
  <1> QED
    BY <1>1, <1>2, <1>3

\* Admission is type correct and its counters are exact: every unit counted is
\* held by an admitted call, none by a waiting or departed one.
THEOREM CountersExact == AdmissionSpec => [](AdmissionTypeOK /\ CountersMatchHolders)
  <1>1. AdmissionSpec => []AdmissionInv
    BY InitInv, NextInv, PTL DEF AdmissionSpec
  <1> QED
    BY <1>1, PTL DEF AdmissionInv

(***************************************************************************)
(* Concurrency limits                                                      *)
(***************************************************************************)

CountersBounded ==
  /\ active <= MaxActive
  /\ \A a \in Agents : activeAgents[a] <= MaxPerAgent

\* The counters stay within the limits: the only step that raises them tests
\* them in the same critical section.
LEMMA BoundsStep ==
  AdmissionInv /\ CountersBounded /\ [AdmissionNext]_admissionVars => CountersBounded'
  <1> SUFFICES ASSUME AdmissionInv, CountersBounded, [AdmissionNext]_admissionVars
               PROVE  CountersBounded'
    OBVIOUS
  <1> USE MaxActivePositive, MaxPerAgentPositive DEF AdmissionInv, CountersBounded
  <1>1. ASSUME NEW r \in Requests, Reserve(r) PROVE CountersBounded'
    BY <1>1 DEF AdmissionTypeOK, Reserve, HasCapacity
  <1>2. ASSUME NEW r \in Requests, Release(r) PROVE CountersBounded'
    BY <1>2 DEF AdmissionTypeOK, Release, FreeUnits
  <1>3. CASE \A r \in Requests : ~Reserve(r) /\ ~Release(r)
    BY <1>3, OtherHolders DEF counters
  <1> QED
    BY <1>1, <1>2, <1>3

\* A call admitted under a limit leaves room for itself under every larger one.
LEMMA SourceLimitsStep ==
  AdmissionInv /\ SourceLimitsRespected /\ [AdmissionNext]_admissionVars
    => SourceLimitsRespected'
  <1> SUFFICES ASSUME AdmissionInv, SourceLimitsRespected, [AdmissionNext]_admissionVars,
                      NEW s \in Sources, NEW n \in Limits
               PROVE  Cardinality({h \in SourceHolders(s)' : call'[h].limit <= n}) <= n
    BY DEF SourceLimitsRespected
  <1> DEFINE Old == {h \in SourceHolders(s) : call[h].limit <= n}
             New == {h \in SourceHolders(s)' : call'[h].limit <= n}
  <1>0. /\ IsFiniteSet(Old) /\ IsFiniteSet(SourceHolders(s))
        /\ Cardinality(Old) <= n
        /\ Cardinality(Old) \in Nat
        /\ Cardinality(Old) <= Cardinality(SourceHolders(s))
        /\ Cardinality(SourceHolders(s)) = activeSources[s]
        /\ n \in Nat
        /\ activeSources[s] \in Nat
    <2>1. IsFiniteSet(Old) /\ IsFiniteSet(SourceHolders(s))
      BY HoldersFinite
    <2>2. Old \subseteq SourceHolders(s)
      OBVIOUS
    <2>3. Cardinality(Old) <= Cardinality(SourceHolders(s)) /\ Cardinality(Old) \in Nat
      BY <2>1, <2>2, FS_Subset, FS_CardinalityType
    <2> QED
      BY <2>1, <2>3, LimitsPositive
         DEF SourceLimitsRespected, AdmissionInv, CountersMatchHolders, AdmissionTypeOK
  <1>1. ASSUME NEW r \in Requests, Reserve(r) PROVE Cardinality(New) <= n
    <2>1. call' = call /\ call[r].limit \in Nat
      BY <1>1, LimitsPositive DEF Reserve, AdmissionInv, AdmissionTypeOK, Calls
    <2>2. CASE s = call[r].source /\ call[r].limit <= n
      <3>1. New = Old \union {r}
        BY <1>1, <2>1, <2>2, ReserveHolders DEF AdmissionInv
      <3>2. r \notin Old
        BY <1>1, ReserveHolders DEF AdmissionInv, SourceHolders
      <3>3. Cardinality(New) = Cardinality(Old) + 1
        BY <1>0, <3>1, <3>2, AddOne
      <3>4. activeSources[s] < call[r].limit
        BY <1>1, <2>2 DEF Reserve, HasCapacity
      <3> QED
        BY <1>0, <2>1, <2>2, <3>3, <3>4
    <2>3. CASE ~(s = call[r].source /\ call[r].limit <= n)
      <3>1. New = Old
        BY <1>1, <2>1, <2>3, ReserveHolders DEF AdmissionInv
      <3> QED
        BY <1>0, <3>1
    <2> QED
      BY <2>2, <2>3
  <1>2. ASSUME NEW r \in Requests, Release(r) PROVE Cardinality(New) <= n
    <2>1. New \subseteq Old
      BY <1>2, ReleaseHolders DEF AdmissionInv, Release, FreeUnits
    <2>2. Cardinality(New) <= Cardinality(Old) /\ Cardinality(New) \in Nat
      BY <1>0, <2>1, FS_Subset, FS_CardinalityType
    <2> QED
      BY <1>0, <2>2
  <1>3. CASE \A r \in Requests : ~Reserve(r) /\ ~Release(r)
    <2>1. New = Old
      BY <1>3, OtherHolders DEF AdmissionInv, SourceHolders
    <2> QED
      BY <1>0, <2>1
  <1> QED
    BY <1>1, <1>2, <1>3

\* No interleaving of arrivals, cancellations and releases admits more calls
\* than the process limit, more of one Agent's than its limit, or more of one source's
\* than any limit its snapshots have carried, even while administrators change it.
THEOREM LimitsHold == AdmissionSpec => []LimitsRespected
  <1>1. AdmissionInit => SourceLimitsRespected
    <2> SUFFICES ASSUME AdmissionInit, NEW s \in Sources, NEW n \in Limits
                 PROVE  Cardinality({h \in SourceHolders(s) : call[h].limit <= n}) <= n
      BY DEF SourceLimitsRespected
    <2>1. {h \in SourceHolders(s) : call[h].limit <= n} = {}
      BY DEF AdmissionInit, Holders, SourceHolders
    <2> QED
      BY <2>1, FS_EmptySet, LimitsPositive
  <1>2. AdmissionInit => CountersBounded
    BY MaxActivePositive, MaxPerAgentPositive DEF AdmissionInit, CountersBounded
  <1>3. AdmissionInv /\ CountersBounded /\ SourceLimitsRespected => LimitsRespected
    BY DEF AdmissionInv, CountersMatchHolders, CountersBounded, LimitsRespected
  <1> QED
    BY <1>1, <1>2, <1>3, SourceLimitsStep, BoundsStep, InitInv, NextInv, PTL DEF AdmissionSpec

(***************************************************************************)
(* No lost wakeup                                                          *)
(***************************************************************************)

\* Room only appears in the step that wakes every sleeper, because admissions
\* raise the counters and nothing else changes them.
LEMMA WakeupStep ==
  AdmissionInv /\ NoLostWakeup /\ [AdmissionNext]_admissionVars => NoLostWakeup'
  <1> SUFFICES ASSUME AdmissionInv, NoLostWakeup, [AdmissionNext]_admissionVars,
                      NEW w \in watchers'
               PROVE  admission'[w] = "waiting" /\ ~HasCapacity(w)'
    BY DEF NoLostWakeup
  <1> USE DEF AdmissionInv, AdmissionTypeOK, Calls
  <1>0. w \in Requests
    BY DEF AdmissionNext, admissionVars, counters, Ask, Reserve, Sleep, Wake, GiveUp,
           Release, FreeUnits, ContextEnds, FreshContext
  <1>1. ASSUME NEW r \in Requests, NEW c \in Calls, Ask(r, c)
        PROVE  admission'[w] = "waiting" /\ ~HasCapacity(w)'
    BY <1>0, <1>1 DEF Ask, counters, NoLostWakeup, HasCapacity
  <1>2. ASSUME NEW r \in Requests, Reserve(r)
        PROVE  admission'[w] = "waiting" /\ ~HasCapacity(w)'
    <2>1. /\ w \in watchers /\ w # r
          /\ admission'[w] = "waiting"
          /\ call' = call
      BY <1>0, <1>2 DEF Reserve, NoLostWakeup
    <2>2. /\ active <= active'
          /\ activeAgents[call[w].agent] <= activeAgents'[call[w].agent]
          /\ activeSources[call[w].source] <= activeSources'[call[w].source]
      BY <1>0, <1>2 DEF Reserve
    <2> QED
      <3>1. /\ active \in Nat /\ active' \in Nat /\ MaxActive \in Nat
            /\ activeAgents[call[w].agent] \in Nat
            /\ activeAgents'[call[w].agent] \in Nat
            /\ activeSources[call[w].source] \in Nat
            /\ activeSources'[call[w].source] \in Nat
            /\ MaxPerAgent \in Nat /\ call[w].limit \in Nat
        <4>1. AdmissionTypeOK /\ AdmissionTypeOK'
          BY NextInv
        <4>2. call[w].agent \in Agents /\ call[w].source \in Sources /\ call[w].limit \in Limits
          BY <1>0
        <4> QED
          BY <4>1, <4>2, LimitsPositive, MaxActivePositive, MaxPerAgentPositive
      <3>2. ~HasCapacity(w)
        BY <2>1 DEF NoLostWakeup
      <3> HIDE DEF AdmissionInv, AdmissionTypeOK, Calls
      <3> QED
        BY <2>1, <2>2, <3>1, <3>2 DEF HasCapacity
  <1>3. ASSUME NEW r \in Requests, Sleep(r)
        PROVE  admission'[w] = "waiting" /\ ~HasCapacity(w)'
    BY <1>0, <1>3 DEF Sleep, counters, NoLostWakeup, HasCapacity
  <1>4. ASSUME NEW r \in Requests, Wake(r) \/ GiveUp(r)
        PROVE  admission'[w] = "waiting" /\ ~HasCapacity(w)'
    BY <1>0, <1>4 DEF Wake, GiveUp, counters, NoLostWakeup, HasCapacity
  <1>5. ASSUME NEW r \in Requests, Release(r)
        PROVE  admission'[w] = "waiting" /\ ~HasCapacity(w)'
    BY <1>5 DEF Release
  <1>6. ASSUME NEW r \in Requests, ContextEnds(r) \/ FreshContext(r)
        PROVE  admission'[w] = "waiting" /\ ~HasCapacity(w)'
    BY <1>6 DEF ContextEnds, FreshContext, counters, NoLostWakeup, HasCapacity
  <1>7. CASE UNCHANGED admissionVars
    BY <1>7 DEF admissionVars, NoLostWakeup, HasCapacity
  <1> QED
    BY <1>1, <1>2, <1>3, <1>4, <1>5, <1>6, <1>7 DEF AdmissionNext

\* A request asleep on the open channel has no room: reading the channel inside
\* the critical section that found no room is enough to never miss a release.
THEOREM NoWakeupIsLost == AdmissionSpec => []NoLostWakeup
  <1>1. AdmissionInit => NoLostWakeup
    BY DEF AdmissionInit, NoLostWakeup
  <1> QED
    BY <1>1, WakeupStep, InitInv, NextInv, PTL DEF AdmissionSpec
(***************************************************************************)
(* Calls and administration: what the invariant is made of                 *)
(***************************************************************************)

Places == Registered \union {"idle", "authorize", "grant", "register", "audit"}

(***************************************************************************)
(* The inductive invariant                                                 *)
(***************************************************************************)
\* Revisions and tokens count changes, one of which a health check may still owe.
\* The last edit that cancels is behind the row.
Counted ==
  /\ \A a \in Agents : agent[a].token <= changes + 1
  /\ \A s \in Sources :
       /\ source[s].revision <= changes + 1
       /\ mutations = [owed |-> "save version", source |-> s] =>
            source[s].revision <= changes
       /\ edited[s] <= source[s].revision

\* A call has its principal, and from the first authorization on its snapshot; the
\* credential and the row they were read from have only moved on.
Known(r) ==
  /\ pc[r] # "idle" =>
       principal[r] \in Principals /\ principal[r].token <= AgentOf(r).token
  /\ pc[r] \notin {"idle", "authorize", "audit"} =>
       snap[r] \in SourceRows /\ snap[r].revision <= source[SourceOf(r)].revision

\* What a call holds of admission and of the connections at each place.
Holds(r) ==
  /\ pc[r] = "admit" => admission[r] \in {"asking", "waiting"}
  /\ pc[r] \in {"acquire", "probe", "record", "query", "check", "finalread", "finalgrant"} =>
       admission[r] = "holding"
  /\ pc[r] = "unwind" => admission[r] \in {"idle", "holding"}
  /\ pc[r] \in {"idle", "authorize", "grant", "register", "reauthorize", "regrant", "audit"} =>
       admission[r] = "idle"
  /\ r \in leased =>
       pc[r] \in {"probe", "record", "query", "check", "finalread", "finalgrant", "unwind"}

\* The source a call works on was edited or deleted since its first authorization;
\* its Agent or its credential was withdrawn.
SourceWithdrawn(r) ==
  \/ source[SourceOf(r)].status = "deleted"
  \/ snap[r].revision < edited[SourceOf(r)]

AgentWithdrawn(r) ==
  \/ AgentOf(r).status \in {"paused", "revoked"}
  \/ AgentOf(r).token # principal[r].token

\* Whoever holds Store.Mutations still owes the cancellation of the source's calls, or
\* of the Agent's.
OwesSource(s) ==
  \/ mutations = [owed |-> "cancel source", source |-> s]
  \/ \E q \in Requests :
       mutations = [owed |-> "cancel upgraded source", source |-> s, by |-> q]
OwesAgent(a) == mutations = [owed |-> "cancel agent", agent |-> a]

\* Registered, a call that has seen the source's row again is cancelled for every
\* change of it, and one that has seen the Agent's again for every withdrawal.
Cancelled(r) ==
  /\ (pc[r] = "regrant" \/ Working(r)) /\ SourceWithdrawn(r) =>
       r \in ctxDone \/ OwesSource(SourceOf(r))
  /\ Working(r) /\ AgentWithdrawn(r) =>
       r \in ctxDone \/ OwesAgent(principal[r].agent)

\* Lost for good: revisions and tokens do not return, rows are not restored, and a
\* revoked Agent only comes back with another token.
SourceLost(r) ==
  \/ source[SourceOf(r)].status = "deleted"
  \/ snap[r].revision < source[SourceOf(r)].revision
AgentLost(r) ==
  \/ AgentOf(r).status = "revoked"
  \/ principal[r].token < AgentOf(r).token

\* A call whose snapshot or credential was gone when the database answered will find
\* so at one of the last checks, and has no result until then.
Checked(r) ==
  /\ r \in outdated => pc[r] \in {"check", "finalread", "finalgrant", "unwind", "audit"}
  /\ r \in outdated /\ pc[r] \in {"check", "finalread"} => SourceLost(r) \/ AgentLost(r)
  /\ r \in outdated /\ pc[r] = "finalgrant" => AgentLost(r)
  /\ outcome[r] = "result" => pc[r] \in {"unwind", "audit"} /\ r \notin outdated

Call(r) == Known(r) /\ Holds(r) /\ Cancelled(r) /\ Checked(r)

ExecutionInv ==
  /\ TypeOK
  /\ CountersMatchHolders
  /\ Counted
  /\ \A r \in Requests : Call(r)

USE RequestsFinite, LimitsPositive, MaxChangesNatural, NoCallIsNoCall

(***************************************************************************)
(* Admission                                                               *)
(***************************************************************************)
\* A step of admission keeps its counters exact.
LEMMA AdmissionSteps ==
  ASSUME AdmissionInv, NEW r \in Requests,
         \/ \E c \in Calls : Ask(r, c)
         \/ Reserve(r) \/ Sleep(r) \/ Wake(r) \/ GiveUp(r) \/ Release(r)
  PROVE  AdmissionInv'
PROOF
  BY NextInv DEF AdmissionNext

\* So does a step that only ends contexts, or begins new ones.
LEMMA AdmissionRests ==
  ASSUME AdmissionInv, UNCHANGED gateVars, ctxDone' \subseteq Requests
  PROVE  AdmissionInv'
PROOF
  BY DEF AdmissionInv, gateVars, AdmissionTypeOK, CountersMatchHolders, Holders,
         AgentHolders, SourceHolders

\* What the steps of admission do to the calls.
LEMMA AdmissionMoves ==
  ASSUME AdmissionTypeOK, NEW r \in Requests
  PROVE  /\ \A c : Ask(r, c) => admission' = [admission EXCEPT ![r] = "asking"]
         /\ Reserve(r) => admission' = [admission EXCEPT ![r] = "holding"]
         /\ Sleep(r) => admission' = [admission EXCEPT ![r] = "waiting"]
         /\ Wake(r) => admission' = [admission EXCEPT ![r] = "asking"]
         /\ GiveUp(r) => admission' = [admission EXCEPT ![r] = "idle"]
         /\ Release(r) => admission' = [admission EXCEPT ![r] = "idle"]
         /\ \/ \E c : Ask(r, c)
            \/ Reserve(r) \/ Sleep(r) \/ Wake(r) \/ GiveUp(r)
            \/ Release(r)
            => UNCHANGED ctxDone
PROOF
  BY DEF Ask, Reserve, Sleep, Wake, GiveUp, Release,
         FreeUnits

(***************************************************************************)
(* Calls at rest                                                           *)
(***************************************************************************)
\* Rows only move on: revisions and tokens grow, a deleted source stays deleted, a
\* revoked Agent revoked or under another token.
RowsMoveOn ==
  /\ source' \in [Sources -> SourceRows] /\ agent' \in [Agents -> AgentRows]
  /\ \A s \in Sources :
       /\ source[s].revision <= source'[s].revision
       /\ source[s].status = "deleted" => source'[s].status = "deleted"
  /\ \A a \in Agents :
       /\ agent[a].token <= agent'[a].token
       /\ agent[a].status = "revoked" =>
            agent'[a].status = "revoked" \/ agent[a].token < agent'[a].token

\* A step of another goroutine leaves the call where it is.
Rests(q) ==
  /\ pc'[q] = pc[q] /\ principal'[q] = principal[q] /\ snap'[q] = snap[q]
  /\ outcome'[q] = outcome[q] /\ admission'[q] = admission[q]
  /\ q \in leased' <=> q \in leased
  /\ q \in outdated' <=> q \in outdated
  /\ q \in ctxDone => q \in ctxDone'

LEMMA CallRests ==
  ASSUME ExecutionInv, RowsMoveOn, NEW q \in Requests, Rests(q), Cancelled(q)'
  PROVE  Call(q)'
PROOF
  <1>1. /\ source \in [Sources -> SourceRows] /\ agent \in [Agents -> AgentRows]
        /\ Known(q) /\ Holds(q) /\ Checked(q)
    BY DEF ExecutionInv, TypeOK, Call
  <1>2. Known(q)'
    <2>1. CASE pc[q] = "idle"  BY <2>1 DEF Known, Rests
    <2>2. CASE pc[q] # "idle"
      <3>1. PICK p \in Principals : p = principal[q]  BY <1>1, <2>2 DEF Known
      <3>2. /\ p.agent \in Agents /\ p.source \in Sources /\ p.token \in Tokens
            /\ p.token <= agent[p.agent].token
        BY <1>1, <2>2, <3>1 DEF Known, Principals, AgentOf
      <3>3. p.token <= agent'[p.agent].token
        BY <1>1, <3>2 DEF RowsMoveOn, AgentRows, Tokens
      <3>4. pc[q] \notin {"idle", "authorize", "audit"} =>
              snap[q] \in SourceRows /\ snap[q].revision <= source'[p.source].revision
        BY <1>1, <3>1, <3>2 DEF Known, RowsMoveOn, SourceRows, Revisions, SourceOf
      <3> QED  BY <3>1, <3>3, <3>4 DEF Known, Rests, AgentOf, SourceOf
    <2> QED  BY <2>1, <2>2
  <1>3. Holds(q)'  BY <1>1 DEF Holds, Rests
  <1>4. Checked(q)'
    <2>1. pc[q] \in {"check", "finalread", "finalgrant"} =>
            (SourceLost(q) => SourceLost(q)') /\ (AgentLost(q) => AgentLost(q)')
      <3> SUFFICES ASSUME pc[q] \in {"check", "finalread", "finalgrant"}
                   PROVE  (SourceLost(q) => SourceLost(q)') /\ (AgentLost(q) => AgentLost(q)')
        OBVIOUS
      <3>1. PICK p \in Principals, row \in SourceRows : p = principal[q] /\ row = snap[q]
        BY <1>1 DEF Known
      <3>2. p.agent \in Agents /\ p.source \in Sources /\ p.token \in Nat /\ row.revision \in Nat
        BY <3>1 DEF Principals, Tokens, SourceRows, Revisions
      <3>3. /\ source[p.source].revision \in Nat /\ source'[p.source].revision \in Nat
            /\ agent[p.agent].token \in Nat /\ agent'[p.agent].token \in Nat
        BY <1>1, <3>2 DEF RowsMoveOn, SourceRows, Revisions, AgentRows, Tokens
      <3>4. p.token <= agent[p.agent].token
        BY <1>1, <3>1 DEF Known, AgentOf
      <3> QED
        BY <1>1, <3>1, <3>2, <3>3, <3>4
           DEF RowsMoveOn, SourceLost, AgentLost, SourceOf, AgentOf, Rests
    <2> QED  BY <1>1, <2>1 DEF Checked, Rests
  <1> QED  BY <1>2, <1>3, <1>4 DEF Call

\* While the rows and Store.Mutations stay, a call at rest is cancelled as it was.
LEMMA StaysCancelled ==
  ASSUME ExecutionInv, UNCHANGED storeVars, NEW q \in Requests, Rests(q)
  PROVE  Call(q)'
PROOF
  <1>1. UNCHANGED <<source, agent, mutations, edited>>  BY DEF storeVars
  <1>2. RowsMoveOn
    BY <1>1 DEF ExecutionInv, TypeOK, RowsMoveOn, SourceRows, AgentRows, Revisions, Tokens
  <1>3. Cancelled(q)'
    BY <1>1 DEF ExecutionInv, Call, Cancelled, Rests, Working, SourceWithdrawn, AgentWithdrawn,
                OwesSource, OwesAgent, SourceOf, AgentOf
  <1> QED  BY <1>2, <1>3, CallRests


(***************************************************************************)
(* Steps of a call                                                         *)
(***************************************************************************)
LEMMA Typed ==
  ASSUME ExecutionInv, NEW r \in Requests
  PROVE  /\ pc \in [Requests -> Places] /\ outcome \in [Requests -> {"none", "result", "error"}]
         /\ principal \in [Requests -> Principals \union {NoCall}]
         /\ snap \in [Requests -> SourceRows \union {NoCall}]
         /\ admission \in [Requests -> {"idle", "asking", "waiting", "holding"}]
         /\ leased \subseteq Requests /\ outdated \subseteq Requests /\ ctxDone \subseteq Requests
         /\ jobs = {q \in Requests : pc[q] \in Registered} /\ jobs \subseteq Requests
         /\ source \in [Sources -> SourceRows] /\ agent \in [Agents -> AgentRows]
         /\ AdmissionInv /\ Call(r)
PROOF
  BY DEF ExecutionInv, TypeOK, AdmissionTypeOK, AdmissionInv, Places

\* A step of one call: what it leaves of itself has to be right.
LEMMA CallMoves ==
  ASSUME ExecutionInv, NEW r \in Requests, NEW place \in Places,
         Goto(r, place), UNCHANGED storeVars,
         \A q \in Requests \ {r} : pc'[q] = pc[q] => Rests(q),
         principal' \in [Requests -> Principals \union {NoCall}],
         snap' \in [Requests -> SourceRows \union {NoCall}],
         outcome' \in [Requests -> {"none", "result", "error"}],
         leased' \subseteq Requests, outdated' \subseteq Requests, AdmissionInv',
         place # "idle" => principal'[r] # NoCall,
         jobs' = IF place \in Registered THEN jobs \union {r} ELSE jobs \ {r},
         Call(r)'
  PROVE  ExecutionInv'
PROOF
  <1>1. pc \in [Requests -> Places] /\ jobs = {q \in Requests : pc[q] \in Registered}
    BY Typed
  <1>2. /\ pc' \in [Requests -> Places] /\ pc'[r] = place
        /\ \A q \in Requests \ {r} : pc'[q] = pc[q] /\ Rests(q)
    BY <1>1 DEF Goto
  <1>3. jobs' = {q \in Requests : pc'[q] \in Registered}
    BY <1>1, <1>2
  <1>4. UNCHANGED <<source, agent, mutations, changes, edited>>  BY DEF storeVars
  <1>5. \A q \in Requests : pc'[q] # "idle" => principal'[q] # NoCall
    <2>1. \A q \in Requests \ {r} : principal'[q] = principal[q]  BY <1>2 DEF Rests
    <2> QED  BY <1>2, <2>1 DEF ExecutionInv, TypeOK
  <1>6. TypeOK'
    BY <1>2, <1>3, <1>4, <1>5 DEF ExecutionInv, TypeOK, Places, AdmissionInv
  <1>7. Counted'  BY <1>4 DEF ExecutionInv, Counted
  <1>8. \A q \in Requests : Call(q)'
    BY <1>2, StaysCancelled
  <1> QED  BY <1>6, <1>7, <1>8 DEF ExecutionInv, AdmissionInv

\* The call only goes on to another place, or fails.
LEMMA QuietMoves ==
  ASSUME ExecutionInv, NEW r \in Requests, NEW place \in Places, NEW o \in {"none", "result", "error"},
         Goto(r, place), outcome' = [outcome EXCEPT ![r] = o],
         UNCHANGED <<gateVars, leased, storeVars, principal, snap, outdated, jobs, ctxDone>>,
         place # "idle", pc[r] # "idle", place \in Registered <=> pc[r] \in Registered,
         Call(r)'
  PROVE  ExecutionInv'
PROOF
  <1>1. \A q \in Requests \ {r} : pc'[q] = pc[q] => Rests(q)
    BY Typed DEF Rests, gateVars
  <1>2. outcome' \in [Requests -> {"none", "result", "error"}]
    BY Typed
  <1>3. principal'[r] # NoCall
    BY DEF ExecutionInv, TypeOK
  <1>4. jobs' = IF place \in Registered THEN jobs \union {r} ELSE jobs \ {r}
    BY Typed
  <1>5. AdmissionInv'  BY Typed, AdmissionRests
  <1> QED  BY <1>1, <1>2, <1>3, <1>4, <1>5, Typed, CallMoves

\* A call that fails unwinds what it holds, or is audited.
LEMMA FailKeeps ==
  ASSUME ExecutionInv, NEW r \in Requests, Fail(r),
         UNCHANGED <<gateVars, leased, storeVars, principal, snap, outdated, jobs, ctxDone>>,
         pc[r] \in {"authorize", "grant", "register", "reauthorize", "regrant", "acquire",
                    "probe", "record", "query", "check", "finalread", "finalgrant"}
  PROVE  ExecutionInv'
PROOF
  <1>1. PICK place \in Places :
          place = (IF pc[r] \in Registered THEN "unwind" ELSE "audit")
    BY DEF Places, Registered
  <1>2. Goto(r, place) /\ outcome' = [outcome EXCEPT ![r] = "error"]
    BY <1>1 DEF Fail
  <1>3. /\ place \in {"unwind", "audit"} /\ (place \in Registered <=> pc[r] \in Registered)
        /\ place = "unwind" => pc[r] \notin {"idle", "authorize", "grant", "register", "audit"}
        /\ place = "audit" => pc[r] \in {"authorize", "grant", "register"}
    BY <1>1 DEF Registered
  <1>4. /\ pc'[r] = place /\ outcome'[r] = "error"
        /\ UNCHANGED <<admission, leased, source, agent, principal, snap, outdated>>
    BY <1>2, Typed DEF Goto, gateVars, storeVars
  <1>5. Call(r)  BY Typed
  <1>6. Known(r)' /\ Holds(r)' /\ Cancelled(r)' /\ Checked(r)'
    <2>1. Known(r)'  BY <1>3, <1>4, <1>5 DEF Call, Known, AgentOf, SourceOf
    <2>2. Holds(r)'  BY <1>3, <1>4, <1>5 DEF Call, Holds
    <2>3. Cancelled(r)'  BY <1>3, <1>4 DEF Cancelled, Working
    <2>4. Checked(r)'  BY <1>3, <1>4, <1>5 DEF Call, Checked
    <2> QED  BY <2>1, <2>2, <2>3, <2>4
  <1> QED  BY <1>2, <1>3, <1>6, QuietMoves DEF Call

LEMMA StartKeeps ==
  ASSUME ExecutionInv, NEW r \in Requests, NEW p \in Principals, Start(r, p)
  PROVE  ExecutionInv'
PROOF
  <1>1. /\ pc[r] = "idle" /\ Goto(r, "authorize") /\ principal' = [principal EXCEPT ![r] = p]
        /\ UNCHANGED <<gateVars, leased, storeVars, snap, outcome, outdated, jobs, ctxDone>>
        /\ agent[p.agent].token = p.token
    BY DEF Start
  <1>2. /\ pc'[r] = "authorize" /\ principal'[r] = p
        /\ principal' \in [Requests -> Principals \union {NoCall}]
        /\ \A q \in Requests \ {r} : principal'[q] = principal[q]
        /\ UNCHANGED <<admission, agent, source>>
    BY <1>1, Typed DEF Goto, gateVars, storeVars
  <1>3. \A q \in Requests \ {r} : pc'[q] = pc[q] => Rests(q)
    BY <1>1, <1>2 DEF Rests
  <1>4. p.token \in Nat /\ p # NoCall
    BY DEF Principals, Tokens
  <1>5. Known(r)'
    BY <1>1, <1>2, <1>4 DEF Known, AgentOf
  <1>6. Holds(r)' /\ Cancelled(r)' /\ Checked(r)'
    BY <1>1, <1>2, Typed DEF Call, Holds, Cancelled, Working, Checked
  <1>7. AdmissionInv'  BY <1>1, Typed, AdmissionRests
  <1>8. jobs' = IF "authorize" \in Registered THEN jobs \union {r} ELSE jobs \ {r}
    BY <1>1, Typed DEF Registered
  <1>9. "authorize" \in Places /\ Call(r)'  BY <1>5, <1>6 DEF Places, Call
  <1> QED  BY <1>1, <1>2, <1>3, <1>4, <1>7, <1>8, <1>9, Typed, CallMoves

\* Where the row is read, it is the one of the snapshot, and then not withdrawn.
LEMMA ReadSourceKeeps ==
  ASSUME ExecutionInv, NEW r \in Requests, ReadSource(r)
  PROVE  ExecutionInv'
PROOF
  <1>1. PICK row : row = source[SourceOf(r)]  OBVIOUS
  <1>2. UNCHANGED <<gateVars, leased, storeVars, principal, outdated, jobs, ctxDone>>
    BY DEF ReadSource
  <1>3. /\ pc[r] \in {"authorize", "reauthorize", "finalread"}
        /\ principal[r] \in Principals /\ SourceOf(r) \in Sources /\ row \in SourceRows
        /\ row.revision \in Nat /\ edited[SourceOf(r)] <= row.revision
    <2>1. pc[r] \in {"authorize", "reauthorize", "finalread"}  BY DEF ReadSource
    <2>2. principal[r] \in Principals  BY <2>1, Typed DEF Call, Known
    <2>3. SourceOf(r) \in Sources  BY <2>2 DEF SourceOf, Principals
    <2>4. row \in SourceRows /\ edited[SourceOf(r)] <= row.revision
      BY <1>1, <2>3, Typed DEF ExecutionInv, Counted
    <2> QED  BY <2>1, <2>2, <2>3, <2>4 DEF SourceRows, Revisions
  <1>4. CASE /\ pc[r] = "authorize" /\ snap' = [snap EXCEPT ![r] = row]
             /\ Goto(r, "grant") /\ UNCHANGED outcome
    <2>1. /\ pc'[r] = "grant" /\ snap'[r] = row
          /\ snap' \in [Requests -> SourceRows \union {NoCall}]
          /\ \A q \in Requests \ {r} : snap'[q] = snap[q]
          /\ UNCHANGED <<admission, agent, source>>
      BY <1>2, <1>3, <1>4, Typed DEF Goto, gateVars, storeVars
    <2>2. \A q \in Requests \ {r} : pc'[q] = pc[q] => Rests(q)
      BY <1>2, <1>4, <2>1 DEF Rests
    <2>3. Known(r)'
      BY <1>1, <1>2, <1>3, <1>4, <2>1, Typed DEF Call, Known, AgentOf, SourceOf
    <2>4. Holds(r)' /\ Cancelled(r)' /\ Checked(r)'
      BY <1>2, <1>4, <2>1, Typed DEF Call, Holds, Cancelled, Working, Checked
    <2>5. AdmissionInv'  BY <1>2, Typed, AdmissionRests
    <2>6. jobs' = IF "grant" \in Registered THEN jobs \union {r} ELSE jobs \ {r}
      BY <1>2, <1>4, Typed DEF Registered
    <2>7. "grant" \in Places /\ Call(r)' /\ principal'[r] # NoCall
      BY <1>2, <1>3, <2>3, <2>4 DEF Places, Call
    <2> QED  BY <1>2, <1>4, <2>1, <2>2, <2>5, <2>6, <2>7, Typed, CallMoves
  <1>5. CASE /\ pc[r] \in {"reauthorize", "finalread"}
             /\ row.status = "enabled" /\ row.revision = snap[r].revision
             /\ Goto(r, IF pc[r] = "reauthorize" THEN "regrant" ELSE "finalgrant")
             /\ UNCHANGED <<snap, outcome>>
    <2>1. PICK place \in Places :
            place = (IF pc[r] = "reauthorize" THEN "regrant" ELSE "finalgrant")
      BY DEF Places, Registered
    <2>2. PICK o \in {"none", "result", "error"} : o = outcome[r]  BY Typed
    <2>3. /\ pc'[r] = place /\ outcome' = [outcome EXCEPT ![r] = o] /\ Goto(r, place)
          /\ UNCHANGED <<admission, agent, source, edited, mutations, snap, outcome>>
      BY <1>2, <1>5, <2>1, <2>2, Typed DEF Goto, gateVars, storeVars
    <2>4. ~SourceWithdrawn(r) /\ ~SourceLost(r)
      <3>1. edited[SourceOf(r)] \in Nat
        BY <1>3 DEF ExecutionInv, TypeOK, Revisions
      <3> QED  BY <1>1, <1>3, <1>5, <3>1 DEF SourceWithdrawn, SourceLost
    <2>5. Call(r)  BY Typed
    <2>6. Known(r)' /\ Holds(r)'
      BY <1>2, <1>5, <2>1, <2>3, <2>5 DEF Call, Known, Holds, AgentOf, SourceOf
    <2>7. Cancelled(r)'
      BY <1>2, <2>1, <2>3, <2>4 DEF Cancelled, Working, SourceWithdrawn, SourceOf
    <2>8. Checked(r)'
      BY <1>2, <1>5, <2>1, <2>3, <2>4, <2>5 DEF Call, Checked, AgentLost, AgentOf
    <2>9. place \in Registered /\ pc[r] \in Registered /\ place # "idle" /\ pc[r] # "idle"
      BY <1>5, <2>1 DEF Registered
    <2> QED  BY <1>2, <1>5, <2>3, <2>6, <2>7, <2>8, <2>9, QuietMoves DEF Call
  <1>6. CASE Fail(r) /\ UNCHANGED snap
    BY <1>2, <1>3, <1>6, FailKeeps
  <1> QED  BY <1>1, <1>4, <1>5, <1>6 DEF ReadSource


\* A call that goes on with all it has.
LEMMA GoesOnKeeps ==
  ASSUME ExecutionInv, NEW r \in Requests, NEW place, Goto(r, place),
         UNCHANGED <<gateVars, leased, storeVars, principal, snap, outcome, outdated, jobs,
                     ctxDone>>,
         \/ pc[r] = "grant" /\ place = "register"
         \/ pc[r] = "probe" /\ place \in {"record", "query"}
         \/ pc[r] = "record" /\ place = "query"
         \/ pc[r] = "check" /\ place = "finalread"
  PROVE  ExecutionInv'
PROOF
  <1>1. place \in Places /\ (place \in Registered <=> pc[r] \in Registered)
        /\ place # "idle" /\ pc[r] # "idle"
    BY DEF Places, Registered
  <1>2. PICK o \in {"none", "result", "error"} : o = outcome[r]  BY Typed
  <1>3. /\ pc'[r] = place /\ outcome' = [outcome EXCEPT ![r] = o]
        /\ UNCHANGED <<admission, agent, source, edited, mutations>>
    BY <1>2, Typed DEF Goto, gateVars, storeVars
  <1>4. Call(r)  BY Typed
  <1>5. Known(r)' /\ Holds(r)'
    BY <1>3, <1>4 DEF Call, Known, Holds, AgentOf, SourceOf
  <1>6. Cancelled(r)'
    BY <1>3, <1>4 DEF Call, Cancelled, Working, SourceWithdrawn, AgentWithdrawn, OwesSource,
                      OwesAgent, SourceOf, AgentOf
  <1>7. Checked(r)'
    BY <1>3, <1>4 DEF Call, Checked, SourceLost, AgentLost, SourceOf, AgentOf
  <1> QED  BY <1>1, <1>3, <1>5, <1>6, <1>7, QuietMoves DEF Call

LEMMA QuietStepsKeep ==
  ASSUME ExecutionInv, NEW r \in Requests,
         \/ CheckGrant(r) \/ Denied(r) \/ Refuse(r) \/ NotAcquired(r) \/ Probe(r)
         \/ RecordConflict(r) \/ RecordKept(r) \/ CheckContext(r)
  PROVE  ExecutionInv'
PROOF
  <1>1. UNCHANGED <<gateVars, leased, storeVars, principal, snap, outdated, jobs, ctxDone>>
    BY DEF CheckGrant, Denied, Refuse, NotAcquired, Probe, RecordConflict, RecordKept,
           CheckContext
  <1>2. CASE \/ Denied(r) \/ Refuse(r) \/ NotAcquired(r) \/ RecordConflict(r)
    BY <1>1, <1>2, FailKeeps DEF Denied, Refuse, NotAcquired, RecordConflict
  <1>3. CASE CheckGrant(r)
    BY <1>3, GoesOnKeeps DEF CheckGrant
  <1>4. CASE Probe(r)
    BY <1>1, <1>4, FailKeeps, GoesOnKeeps DEF Probe
  <1>5. CASE RecordKept(r)
    BY <1>1, <1>5, FailKeeps, GoesOnKeeps DEF RecordKept
  <1>6. CASE CheckContext(r)
    BY <1>1, <1>6, FailKeeps, GoesOnKeeps DEF CheckContext
  <1> QED  BY <1>2, <1>3, <1>4, <1>5, <1>6

LEMMA FinalGrantKeeps ==
  ASSUME ExecutionInv, NEW r \in Requests, FinalGrant(r)
  PROVE  ExecutionInv'
PROOF
  <1>1. PICK o \in {"result", "error"} : outcome' = [outcome EXCEPT ![r] = o]
    BY DEF FinalGrant
  <1>2. /\ pc[r] = "finalgrant" /\ Granted(r) /\ Goto(r, "unwind")
        /\ UNCHANGED <<gateVars, leased, storeVars, principal, snap, outdated, jobs, ctxDone>>
    BY DEF FinalGrant
  <1>3. /\ pc'[r] = "unwind" /\ outcome'[r] = o
        /\ UNCHANGED <<admission, agent, source>>
    BY <1>1, <1>2, Typed DEF Goto, gateVars, storeVars
  <1>4. Call(r)  BY Typed
  <1>5. ~AgentLost(r)
    <2>1. principal[r].token \in Nat
      BY <1>2, <1>4 DEF Call, Known, Principals, Tokens
    <2> QED  BY <1>2, <2>1 DEF Granted, AgentLost
  <1>6. r \notin outdated  BY <1>2, <1>4, <1>5 DEF Call, Checked
  <1>7. Known(r)' /\ Holds(r)' /\ Cancelled(r)' /\ Checked(r)'
    BY <1>2, <1>3, <1>4, <1>6
       DEF Call, Known, Holds, Cancelled, Working, Checked, AgentOf, SourceOf
  <1>8. "unwind" \in Places /\ "unwind" \in Registered /\ pc[r] \in Registered
    BY <1>2 DEF Places, Registered
  <1> QED  BY <1>1, <1>2, <1>7, <1>8, QuietMoves DEF Call

LEMMA RegisterKeeps ==
  ASSUME ExecutionInv, NEW r \in Requests, Register(r)
  PROVE  ExecutionInv'
PROOF
  <1>1. /\ pc[r] = "register" /\ jobs' = jobs \union {r} /\ Goto(r, "reauthorize")
        /\ UNCHANGED <<gateVars, leased, storeVars, principal, snap, outcome, outdated, ctxDone>>
    BY DEF Register
  <1>2. pc'[r] = "reauthorize" /\ UNCHANGED <<admission, agent, source>>
    BY <1>1, Typed DEF Goto, gateVars, storeVars
  <1>3. \A q \in Requests \ {r} : pc'[q] = pc[q] => Rests(q)
    BY <1>1, <1>2 DEF Rests
  <1>4. Known(r)' /\ Holds(r)' /\ Cancelled(r)' /\ Checked(r)'
    BY <1>1, <1>2, Typed DEF Call, Known, Holds, Cancelled, Working, Checked, AgentOf, SourceOf
  <1>5. "reauthorize" \in Places /\ "reauthorize" \in Registered /\ principal'[r] # NoCall
    BY <1>1 DEF Places, Registered, ExecutionInv, TypeOK
  <1>6. AdmissionInv'  BY <1>1, Typed, AdmissionRests
  <1> QED  BY <1>1, <1>3, <1>4, <1>5, <1>6, Typed, CallMoves DEF Call

\* A step of the call in admission, and what it leaves of it.
LEMMA AdmissionCallMoves ==
  ASSUME ExecutionInv, NEW r \in Requests, NEW place \in Registered,
         NEW where \in {"idle", "asking", "waiting", "holding"},
         \/ \E c \in Calls : Ask(r, c)
         \/ Reserve(r) \/ Sleep(r) \/ Wake(r) \/ GiveUp(r) \/ Release(r),
         admission' = [admission EXCEPT ![r] = where],
         Goto(r, place), pc[r] \in Registered,
         UNCHANGED <<leased, storeVars, principal, snap, outdated, jobs>>,
         \/ UNCHANGED outcome
         \/ outcome' = [outcome EXCEPT ![r] = "error"],
         Call(r)'
  PROVE  ExecutionInv'
PROOF
  <1>1. UNCHANGED ctxDone /\ AdmissionInv'
    BY Typed, AdmissionSteps, AdmissionMoves DEF AdmissionInv
  <1>2. \A q \in Requests \ {r} : pc'[q] = pc[q] => Rests(q)
    BY <1>1, Typed DEF Rests
  <1>3. outcome' \in [Requests -> {"none", "result", "error"}]  BY Typed
  <1>4. place \in Places /\ principal'[r] # NoCall /\ pc[r] # "idle"
    BY DEF Places, Registered, ExecutionInv, TypeOK
  <1>5. jobs' = IF place \in Registered THEN jobs \union {r} ELSE jobs \ {r}
    BY Typed
  <1> QED  BY <1>1, <1>2, <1>3, <1>4, <1>5, Typed, CallMoves

LEMMA AskAdmissionKeeps ==
  ASSUME ExecutionInv, NEW r \in Requests, AskAdmission(r)
  PROVE  ExecutionInv'
PROOF
  <1>1. PICK c : c = [agent |-> principal[r].agent, source |-> SourceOf(r),
                      limit |-> snap[r].limit]
    OBVIOUS
  <1>2. /\ pc[r] = "regrant" /\ Granted(r) /\ Ask(r, c) /\ Goto(r, "admit")
        /\ UNCHANGED <<leased, storeVars, principal, snap, outcome, outdated, jobs>>
    BY <1>1 DEF AskAdmission
  <1>3. Call(r)  BY Typed
  <1>4. principal[r] \in Principals /\ snap[r] \in SourceRows
    BY <1>2, <1>3 DEF Call, Known
  <1>5. c \in Calls
    BY <1>1, <1>4 DEF Principals, SourceRows, Calls, SourceOf
  <1>6. admission' = [admission EXCEPT ![r] = "asking"] /\ UNCHANGED ctxDone
    BY <1>2, Typed, AdmissionMoves DEF AdmissionInv
  <1>7. /\ pc'[r] = "admit" /\ admission'[r] = "asking"
        /\ UNCHANGED <<agent, source, edited, mutations, ctxDone>>
    BY <1>2, <1>6, Typed DEF Goto, storeVars
  <1>8. Known(r)' /\ Holds(r)' /\ Checked(r)'
    BY <1>2, <1>3, <1>7 DEF Call, Known, Holds, Checked, AgentOf, SourceOf
  <1>9. Cancelled(r)'
    <2>1. ~AgentWithdrawn(r)  BY <1>2 DEF Granted, AgentWithdrawn
    <2> QED
      BY <1>2, <1>3, <1>7, <2>1
         DEF Call, Cancelled, Working, SourceWithdrawn, AgentWithdrawn, OwesSource, OwesAgent,
             SourceOf, AgentOf
  <1>10. "admit" \in Registered /\ pc[r] \in Registered  BY <1>2 DEF Registered
  <1> QED  BY <1>2, <1>5, <1>6, <1>8, <1>9, <1>10, AdmissionCallMoves DEF Call

LEMMA AdmissionKeeps ==
  ASSUME ExecutionInv, NEW r \in Requests, WaitAdmission(r) \/ Admitted(r) \/ NotAdmitted(r)
  PROVE  ExecutionInv'
PROOF
  <1>1. pc[r] = "admit" /\ Call(r) /\ UNCHANGED <<leased, storeVars, principal, snap, outdated, jobs>>
    BY Typed DEF WaitAdmission, Admitted, NotAdmitted, callVars
  <1>2. "admit" \in Registered /\ "acquire" \in Registered /\ "unwind" \in Registered
    BY DEF Registered
  <1>3. UNCHANGED <<agent, source, edited, mutations>>  BY <1>1 DEF storeVars
  <1>4. ASSUME NEW place \in {"admit", "acquire", "unwind"},
               NEW where \in {"idle", "asking", "waiting", "holding"},
               \/ Reserve(r) \/ Sleep(r) \/ Wake(r) \/ GiveUp(r),
               admission' = [admission EXCEPT ![r] = where], Goto(r, place),
               \/ UNCHANGED outcome
               \/ outcome' = [outcome EXCEPT ![r] = "error"],
               place = "admit" => where \in {"asking", "waiting"},
               place = "acquire" => where = "holding",
               place = "unwind" => where = "idle"
        PROVE  ExecutionInv'
    <2>1. UNCHANGED ctxDone  BY <1>4, Typed, AdmissionMoves DEF AdmissionInv
    <2>2. pc'[r] = place /\ admission'[r] = where /\ outcome'[r] \in {outcome[r], "error"}
      BY <1>4, Typed DEF Goto
    <2>3. Known(r)' /\ Holds(r)' /\ Checked(r)'
      BY <1>1, <1>3, <1>4, <2>2 DEF Call, Known, Holds, Checked, AgentOf, SourceOf
    <2>4. Cancelled(r)'
      BY <1>1, <1>3, <2>1, <2>2
         DEF Call, Cancelled, Working, SourceWithdrawn, AgentWithdrawn, OwesSource, OwesAgent,
             SourceOf, AgentOf
    <2> QED  BY <1>1, <1>2, <1>4, <2>3, <2>4, AdmissionCallMoves DEF Call
  <1>5. CASE WaitAdmission(r)
    <2>1. Goto(r, "admit") /\ UNCHANGED outcome
      BY <1>1, <1>5, Typed DEF WaitAdmission, callVars, Goto
    <2>2. PICK where \in {"asking", "waiting"} : admission' = [admission EXCEPT ![r] = where]
      BY <1>5, Typed, AdmissionMoves DEF WaitAdmission, AdmissionInv
    <2> QED  BY <1>4, <1>5, <2>1, <2>2 DEF WaitAdmission
  <1>6. CASE Admitted(r)
    BY <1>4, <1>6, Typed, AdmissionMoves DEF Admitted, AdmissionInv
  <1>7. CASE NotAdmitted(r)
    <2>1. Goto(r, "unwind") /\ outcome' = [outcome EXCEPT ![r] = "error"]
      BY <1>1, <1>2, <1>7 DEF NotAdmitted, Fail
    <2> QED  BY <1>4, <1>7, <2>1, Typed, AdmissionMoves DEF NotAdmitted, AdmissionInv
  <1> QED  BY <1>5, <1>6, <1>7


LEMMA AcquiredKeeps ==
  ASSUME ExecutionInv, NEW r \in Requests, Acquired(r)
  PROVE  ExecutionInv'
PROOF
  <1>1. PICK place \in {"probe", "query"} : Goto(r, place)
    BY DEF Acquired
  <1>2. /\ pc[r] = "acquire" /\ leased' = leased \union {r}
        /\ UNCHANGED <<gateVars, storeVars, principal, snap, outcome, outdated, jobs, ctxDone>>
    BY DEF Acquired
  <1>3. pc'[r] = place /\ UNCHANGED <<admission, agent, source, edited, mutations>>
    BY <1>1, <1>2, Typed DEF Goto, gateVars, storeVars
  <1>4. \A q \in Requests \ {r} : pc'[q] = pc[q] => Rests(q)
    BY <1>2, <1>3 DEF Rests
  <1>5. Known(r)' /\ Holds(r)' /\ Checked(r)'
    BY <1>2, <1>3, Typed DEF Call, Known, Holds, Checked, AgentOf, SourceOf
  <1>6. Cancelled(r)'
    BY <1>2, <1>3, Typed
       DEF Call, Cancelled, Working, SourceWithdrawn, AgentWithdrawn, OwesSource, OwesAgent,
           SourceOf, AgentOf
  <1>7. place \in Registered /\ place \in Places /\ pc[r] \in Registered /\ principal'[r] # NoCall
    BY <1>2 DEF Places, Registered, ExecutionInv, TypeOK
  <1>8. jobs' = IF place \in Registered THEN jobs \union {r} ELSE jobs \ {r}
    BY <1>2, <1>7, Typed
  <1>9. AdmissionInv'  BY <1>2, Typed, AdmissionRests
  <1>10. leased' \subseteq Requests  BY <1>2, Typed
  <1> QED  BY <1>1, <1>2, <1>4, <1>5, <1>6, <1>7, <1>8, <1>9, <1>10, Typed, CallMoves DEF Call

\* The answer of the database: what was gone by then is noted, and is lost.
LEMMA QueryEndsKeeps ==
  ASSUME ExecutionInv, NEW r \in Requests, QueryEnds(r)
  PROVE  ExecutionInv'
PROOF
  <1>1. /\ pc[r] = "query"
        /\ outdated' = IF Outdated(r) THEN outdated \union {r} ELSE outdated
        /\ UNCHANGED <<gateVars, leased, storeVars, principal, snap, jobs, ctxDone>>
    BY DEF QueryEnds
  <1>2. PICK place \in {"check", "unwind"}, o \in {"none", "result", "error"} :
          /\ Goto(r, place) /\ outcome' = [outcome EXCEPT ![r] = o] /\ o # "result"
    <2>1. CASE Goto(r, "check") /\ UNCHANGED outcome
      <3>1. outcome[r] # "result" /\ outcome[r] \in {"none", "result", "error"}
            /\ outcome' = [outcome EXCEPT ![r] = outcome[r]]
        BY <1>1, <2>1, Typed DEF Call, Checked
      <3> QED  BY <2>1, <3>1
    <2>2. CASE Fail(r)
      BY <1>1, <2>2 DEF Fail, Registered
    <2> QED  BY <2>1, <2>2 DEF QueryEnds
  <1>3. pc'[r] = place /\ outcome'[r] = o /\ UNCHANGED <<admission, agent, source>>
    BY <1>1, <1>2, Typed DEF Goto, gateVars, storeVars
  <1>4. \A q \in Requests \ {r} : pc'[q] = pc[q] => Rests(q)
    BY <1>1, <1>2, Typed, <1>3 DEF Rests
  <1>5. Call(r)  BY Typed
  <1>6. r \in outdated' => SourceLost(r) \/ AgentLost(r)
    <2>1. r \notin outdated  BY <1>1, <1>5 DEF Call, Checked
    <2>2. PICK p \in Principals, row \in SourceRows :
            /\ p = principal[r] /\ row = snap[r]
            /\ p.token <= agent[p.agent].token /\ row.revision <= source[p.source].revision
      BY <1>1, <1>5 DEF Call, Known, AgentOf, SourceOf
    <2>3. /\ p.token \in Nat /\ row.revision \in Nat
          /\ agent[p.agent].token \in Nat /\ source[p.source].revision \in Nat
      BY Typed DEF Principals, Tokens, SourceRows, Revisions, AgentRows
    <2> QED
      BY <1>1, <2>1, <2>2, <2>3 DEF Outdated, SourceLost, AgentLost, SourceOf, AgentOf
  <1>7. Known(r)' /\ Holds(r)' /\ Cancelled(r)'
    BY <1>1, <1>3, <1>5 DEF Call, Known, Holds, Cancelled, Working, AgentOf, SourceOf
  <1>8. Checked(r)'
    BY <1>1, <1>2, <1>3, <1>6 DEF Checked, SourceLost, AgentLost, SourceOf, AgentOf
  <1>9. place \in Registered /\ place \in Places /\ pc[r] \in Registered /\ principal'[r] # NoCall
    BY <1>1 DEF Places, Registered, ExecutionInv, TypeOK
  <1>10. jobs' = IF place \in Registered THEN jobs \union {r} ELSE jobs \ {r}
    BY <1>1, <1>9, Typed
  <1>11. AdmissionInv' /\ outdated' \subseteq Requests
         /\ outcome' \in [Requests -> {"none", "result", "error"}]
    BY <1>1, <1>2, Typed, AdmissionRests
  <1> QED  BY <1>1, <1>2, <1>4, <1>7, <1>8, <1>9, <1>10, <1>11, Typed, CallMoves DEF Call

LEMMA UnwindKeeps ==
  ASSUME ExecutionInv, NEW r \in Requests,
         ReturnConnection(r) \/ ReturnAdmission(r) \/ Unregister(r)
  PROVE  ExecutionInv'
PROOF
  <1>1. pc[r] = "unwind" /\ Call(r) /\ UNCHANGED <<storeVars, principal, snap, outcome, outdated>>
    BY Typed DEF ReturnConnection, ReturnAdmission, Unregister, callVars
  <1>2. /\ "unwind" \in Registered /\ "unwind" \in Places /\ "audit" \in Places
        /\ "audit" \notin Registered /\ principal'[r] # NoCall
    BY <1>1 DEF Places, Registered, ExecutionInv, TypeOK
  <1>3. UNCHANGED <<agent, source, edited, mutations>>  BY <1>1 DEF storeVars
  <1>4. CASE ReturnConnection(r)
    <2>1. leased' = leased \ {r} /\ UNCHANGED <<gateVars, pc, jobs, ctxDone>>
      BY <1>4 DEF ReturnConnection, callVars
    <2>2. Goto(r, "unwind") /\ UNCHANGED admission
      BY <1>1, <2>1, Typed DEF Goto, gateVars
    <2>3. \A q \in Requests \ {r} : pc'[q] = pc[q] => Rests(q)
      BY <1>1, <2>1, <2>2 DEF Rests
    <2>4. Known(r)' /\ Holds(r)' /\ Cancelled(r)' /\ Checked(r)'
      BY <1>1, <1>3, <2>1, <2>2
         DEF Call, Known, Holds, Cancelled, Working, Checked, AgentOf, SourceOf
    <2>5. jobs' = IF "unwind" \in Registered THEN jobs \union {r} ELSE jobs \ {r}
      BY <1>1, <1>2, <2>1, Typed
    <2>6. AdmissionInv' /\ leased' \subseteq Requests  BY <2>1, Typed, AdmissionRests
    <2> QED  BY <1>1, <1>2, <2>2, <2>3, <2>4, <2>5, <2>6, Typed, CallMoves DEF Call
  <1>5. CASE ReturnAdmission(r)
    <2>1. /\ Release(r) /\ admission' = [admission EXCEPT ![r] = "idle"]
          /\ UNCHANGED <<leased, pc, jobs>>
      BY <1>5, Typed, AdmissionMoves DEF ReturnAdmission, callVars, AdmissionInv
    <2>2. Goto(r, "unwind") /\ pc'[r] = "unwind" /\ admission'[r] = "idle"
      BY <1>1, <2>1, Typed DEF Goto
    <2>3. Known(r)' /\ Holds(r)' /\ Cancelled(r)' /\ Checked(r)'
      BY <1>1, <1>3, <2>1, <2>2
         DEF Call, Known, Holds, Cancelled, Working, Checked, AgentOf, SourceOf
    <2> QED  BY <1>1, <1>2, <2>1, <2>2, <2>3, AdmissionCallMoves DEF Call
  <1>6. CASE Unregister(r)
    <2>1. /\ r \notin leased /\ admission[r] = "idle" /\ jobs' = jobs \ {r}
          /\ ctxDone' = ctxDone \union {r} /\ Goto(r, "audit") /\ UNCHANGED <<gateVars, leased>>
      BY <1>6 DEF Unregister
    <2>2. pc'[r] = "audit" /\ UNCHANGED admission
      BY <2>1, Typed DEF Goto, gateVars
    <2>3. \A q \in Requests \ {r} : pc'[q] = pc[q] => Rests(q)
      BY <1>1, <2>1, <2>2 DEF Rests
    <2>4. Known(r)' /\ Holds(r)' /\ Cancelled(r)' /\ Checked(r)'
      BY <1>1, <1>3, <2>1, <2>2
         DEF Call, Known, Holds, Cancelled, Working, Checked, AgentOf, SourceOf
    <2>5. ctxDone' \subseteq Requests /\ AdmissionInv'  BY <2>1, Typed, AdmissionRests
    <2> QED  BY <1>1, <1>2, <2>1, <2>3, <2>4, <2>5, Typed, CallMoves DEF Call
  <1> QED  BY <1>4, <1>5, <1>6

LEMMA ReturnKeeps ==
  ASSUME ExecutionInv, NEW r \in Requests, Return(r)
  PROVE  ExecutionInv'
PROOF
  <1>1. /\ pc[r] = "audit" /\ Goto(r, "idle")
        /\ outcome' = [outcome EXCEPT ![r] = "none"] /\ outdated' = outdated \ {r}
        /\ ctxDone' = ctxDone \ {r} /\ principal' = [principal EXCEPT ![r] = NoCall]
        /\ snap' = [snap EXCEPT ![r] = NoCall]
        /\ UNCHANGED <<gateVars, leased, storeVars, jobs>>
    BY DEF Return
  <1>2. /\ pc'[r] = "idle" /\ outcome'[r] = "none" /\ UNCHANGED admission
        /\ principal' \in [Requests -> Principals \union {NoCall}]
        /\ snap' \in [Requests -> SourceRows \union {NoCall}]
        /\ outcome' \in [Requests -> {"none", "result", "error"}]
        /\ ctxDone' \subseteq Requests /\ outdated' \subseteq Requests
    BY <1>1, Typed DEF Goto, gateVars
  <1>3. \A q \in Requests \ {r} : pc'[q] = pc[q] => Rests(q)
    BY <1>1, <1>2, Typed DEF Rests
  <1>4. Known(r)' /\ Holds(r)' /\ Cancelled(r)' /\ Checked(r)'
    BY <1>1, <1>2, Typed DEF Call, Known, Holds, Cancelled, Working, Checked
  <1>5. jobs' = IF "idle" \in Registered THEN jobs \union {r} ELSE jobs \ {r}
    BY <1>1, Typed DEF Registered
  <1>6. AdmissionInv'  BY <1>1, <1>2, Typed, AdmissionRests
  <1>7. "idle" \in Places  BY DEF Places
  <1> QED  BY <1>1, <1>2, <1>3, <1>4, <1>5, <1>6, <1>7, Typed, CallMoves DEF Call

(***************************************************************************)
(* Steps of administration                                                 *)
(***************************************************************************)
\* Rows move on and contexts end; calls stay where they are.
LEMMA RowsMove ==
  ASSUME ExecutionInv, RowsMoveOn, UNCHANGED <<gateVars, leased, callVars, jobs>>,
         ctxDone \subseteq ctxDone', ctxDone' \subseteq Requests,
         mutations' \in Owed, changes' \in 0..MaxChanges, edited' \in [Sources -> Revisions],
         Counted', \A q \in Requests : Cancelled(q)'
  PROVE  ExecutionInv'
PROOF
  <1>1. UNCHANGED <<admission, pc, principal, snap, outcome, outdated>>
    BY DEF gateVars, callVars
  <1>2. AdmissionInv'  BY Typed, AdmissionRests DEF ExecutionInv, TypeOK, AdmissionTypeOK, AdmissionInv
  <1>3. TypeOK'
    BY <1>1, <1>2 DEF ExecutionInv, TypeOK, RowsMoveOn, AdmissionInv
  <1>4. \A q \in Requests : Call(q)'
    BY <1>1, CallRests DEF Rests
  <1> QED  BY <1>2, <1>3, <1>4 DEF ExecutionInv, AdmissionInv

\* While nobody owes a cancellation, whoever works under what was withdrawn has been
\* cancelled.
LEMMA FreeMeansCancelled ==
  ASSUME ExecutionInv, mutations = Free \/ (\E s : mutations = [owed |-> "save version", source |-> s]),
         NEW q \in Requests
  PROVE  /\ (pc[q] = "regrant" \/ Working(q)) /\ SourceWithdrawn(q) => q \in ctxDone
         /\ Working(q) /\ AgentWithdrawn(q) => q \in ctxDone
PROOF
  <1>1. /\ Free.owed = "nothing"
        /\ \A s : [owed |-> "save version", source |-> s].owed = "save version"
    BY DEF Free
  <1>2. mutations.owed = "nothing" \/ mutations.owed = "save version"
    BY <1>1
  <1>3. /\ \A s : [owed |-> "cancel source", source |-> s].owed = "cancel source"
        /\ \A s, c : [owed |-> "cancel upgraded source", source |-> s, by |-> c].owed =
                       "cancel upgraded source"
        /\ \A a : [owed |-> "cancel agent", agent |-> a].owed = "cancel agent"
    OBVIOUS
  <1>4. ~OwesSource(SourceOf(q)) /\ ~OwesAgent(principal[q].agent)
    <2>1. ASSUME NEW s  PROVE ~OwesSource(s)
      BY <1>2, <1>3 DEF OwesSource
    <2>2. ASSUME NEW a  PROVE ~OwesAgent(a)
      BY <1>2, <1>3 DEF OwesAgent
    <2> QED  BY <2>1, <2>2
  <1> QED  BY <1>4, Typed DEF Call, Cancelled

LEMMA CancelContextKeeps ==
  ASSUME ExecutionInv, NEW r \in Requests, CancelContext(r)
  PROVE  ExecutionInv'
PROOF
  <1>1. /\ r \in jobs /\ ctxDone' = ctxDone \union {r}
        /\ UNCHANGED <<gateVars, leased, storeVars, callVars, jobs>>
    BY DEF CancelContext
  <1>2. UNCHANGED <<source, agent, mutations, changes, edited, admission, pc, principal, snap,
                    outcome, outdated>>
    BY <1>1 DEF storeVars, gateVars, callVars
  <1>3. RowsMoveOn
    BY <1>2, Typed DEF RowsMoveOn, SourceRows, AgentRows, Revisions, Tokens
  <1>4. \A q \in Requests : Cancelled(q)'
    BY <1>1, <1>2 DEF ExecutionInv, Call, Cancelled, Working, SourceWithdrawn, AgentWithdrawn,
                      OwesSource, OwesAgent, SourceOf, AgentOf
  <1>5. Counted' /\ ctxDone' \subseteq Requests
    BY <1>1, <1>2, Typed DEF ExecutionInv, Counted
  <1> QED  BY <1>1, <1>2, <1>3, <1>4, <1>5, RowsMove DEF ExecutionInv, TypeOK


\* Debts are told apart by what they owe.
LEMMA Debts ==
  /\ Free.owed = "nothing"
  /\ \A s : /\ [owed |-> "save version", source |-> s].owed = "save version"
            /\ [owed |-> "cancel source", source |-> s].owed = "cancel source"
            /\ [owed |-> "cancel source", source |-> s].source = s
  /\ \A s, c : /\ [owed |-> "cancel upgraded source", source |-> s, by |-> c].owed =
                    "cancel upgraded source"
               /\ [owed |-> "cancel upgraded source", source |-> s, by |-> c].source = s
  /\ \A a : /\ [owed |-> "cancel agent", agent |-> a].owed = "cancel agent"
            /\ [owed |-> "cancel agent", agent |-> a].agent = a
PROOF
  BY DEF Free

LEMMA OwingASource ==
  ASSUME NEW s, OwesSource(s)'
  PROVE  \A x : mutations' # [owed |-> "save version", source |-> x]
PROOF
  <1>1. CASE mutations' = [owed |-> "cancel source", source |-> s]
    BY <1>1, Debts
  <1>2. ASSUME NEW q, mutations' = [owed |-> "cancel upgraded source", source |-> s, by |-> q]
        PROVE  mutations'.owed # "save version"
    BY <1>2, Debts
  <1> QED  BY <1>1, <1>2, Debts DEF OwesSource

LEMMA RowsTyped ==
  ASSUME ExecutionInv
  PROVE  /\ source \in [Sources -> SourceRows] /\ agent \in [Agents -> AgentRows]
         /\ changes \in 0..MaxChanges /\ changes \in Nat /\ edited \in [Sources -> Revisions]
         /\ \A s \in Sources : source[s].revision \in Nat /\ source[s].revision >= 1
                               /\ edited[s] \in Nat
         /\ \A a \in Agents : agent[a].token \in Nat /\ agent[a].token >= 1
         /\ mutations \in Owed /\ Counted
PROOF
  BY DEF ExecutionInv, TypeOK, SourceRows, AgentRows, Revisions, Tokens

\* The bounds of Counted, without what is owed.
LEMMA Counts ==
  ASSUME ExecutionInv
  PROVE  /\ changes \in Nat
         /\ \A s \in Sources :
              /\ source[s].revision \in Nat /\ edited[s] \in Nat
              /\ source[s].revision <= changes + 1 /\ edited[s] <= source[s].revision
         /\ \A a \in Agents : agent[a].token \in Nat /\ agent[a].token <= changes + 1
PROOF
  <1>1. Counted  BY DEF ExecutionInv
  <1>2. /\ \A s \in Sources : source[s].revision <= changes + 1 /\ edited[s] <= source[s].revision
        /\ \A a \in Agents : agent[a].token <= changes + 1
    BY <1>1, Zenon DEF Counted
  <1> QED  BY <1>2, RowsTyped

\* Who works has a principal, of an Agent and a source.
LEMMA WorkersKnown ==
  ASSUME ExecutionInv, NEW q \in Requests, pc[q] = "regrant" \/ Working(q)
  PROVE  /\ principal[q].agent \in Agents /\ SourceOf(q) \in Sources
         /\ q \in jobs
PROOF
  <1>1. pc[q] # "idle" /\ pc[q] \in Registered  BY DEF Working, Registered
  <1>2. principal[q] \in Principals /\ q \in jobs
    BY <1>1, Typed DEF Call, Known
  <1> QED  BY <1>2 DEF Principals, SourceOf

\* An edit that cancels after saving, an administrator's or that of a call that found
\* the server upgraded.
LEMMA EditKeeps ==
  ASSUME ExecutionInv, NEW s \in Sources, NEW status \in {"enabled", "disabled"}, NEW l \in Limits,
         mutations = Free, Change, source[s].status # "deleted",
         NewRevision(s, status, l), edited' = [edited EXCEPT ![s] = source'[s].revision],
         mutations' \in Owed, OwesSource(s)',
         UNCHANGED <<gateVars, leased, agent, callVars, jobs, ctxDone>>
  PROVE  ExecutionInv'
PROOF
  <1>1. PICK n \in Nat : n = source[s].revision + 1 /\ n <= changes + 2 /\ n >= 1
    <2>1. PICK m \in Nat : m = source[s].revision /\ m <= changes + 1 /\ changes \in Nat
      BY Counts
    <2> QED  BY <2>1
  <1>2. changes' = changes + 1 /\ changes' \in 0..MaxChanges
    BY RowsTyped DEF Change
  <1>3. /\ source' = [source EXCEPT ![s] = [status |-> status, revision |-> n, limit |-> l]]
        /\ [status |-> status, revision |-> n, limit |-> l] \in SourceRows /\ n \in Revisions
    <2>1. source' = [source EXCEPT ![s] = [status |-> status, revision |-> source[s].revision + 1,
                                           limit |-> l]]
      BY RowsTyped DEF NewRevision
    <2>2. n \in Revisions  BY <1>1, <1>2, RowsTyped DEF Revisions
    <2> QED  BY <1>1, <2>1, <2>2 DEF SourceRows
  <1>4. /\ source'[s].revision = n /\ source'[s].status = status
        /\ \A x \in Sources \ {s} : source'[x] = source[x]
        /\ edited' \in [Sources -> Revisions] /\ edited'[s] = n
        /\ \A x \in Sources \ {s} : edited'[x] = edited[x]
    BY <1>3, RowsTyped
  <1>5. RowsMoveOn
    BY <1>1, <1>3, <1>4, RowsTyped DEF RowsMoveOn
  <1>6. Counted'
    <2>1. \A x \in Sources : mutations' # [owed |-> "save version", source |-> x]
      BY OwingASource
    <2>2. \A a \in Agents : agent'[a].token <= changes' + 1
      <3> SUFFICES ASSUME NEW a \in Agents  PROVE agent'[a].token <= changes' + 1
        OBVIOUS
      <3>1. agent'[a] = agent[a]  OBVIOUS
      <3>2. PICK t \in Nat : t = agent[a].token /\ t <= changes + 1 /\ changes \in Nat
        BY Counts
      <3> QED  BY <1>2, <3>1, <3>2
    <2>3. ASSUME NEW x \in Sources
          PROVE  source'[x].revision <= changes' + 1 /\ edited'[x] <= source'[x].revision
      <3>1. CASE x = s  BY <1>1, <1>2, <1>4, <3>1, RowsTyped
      <3>2. CASE x # s
        <4>1. PICK m \in Nat, e \in Nat :
                /\ m = source[x].revision /\ e = edited[x] /\ changes \in Nat
                /\ m <= changes + 1 /\ e <= m
          BY Counts
        <4> QED  BY <1>2, <1>4, <3>2, <4>1
      <3> QED  BY <3>1, <3>2
    <2> QED  BY <2>1, <2>2, <2>3 DEF Counted
  <1>7. UNCHANGED <<pc, principal, snap>>  BY DEF callVars
  <1>8. ASSUME NEW q \in Requests  PROVE Cancelled(q)'
    <2>1. (pc[q] = "regrant" \/ Working(q)) /\ SourceWithdrawn(q)' =>
            q \in ctxDone' \/ OwesSource(SourceOf(q))'
      <3> SUFFICES ASSUME pc[q] = "regrant" \/ Working(q), SourceWithdrawn(q)', SourceOf(q) # s
                   PROVE  q \in ctxDone'
        BY <1>7 DEF SourceOf
      <3>1. SourceWithdrawn(q)
        BY <1>4, <1>7, WorkersKnown DEF SourceWithdrawn, SourceOf
      <3> QED  BY <3>1, FreeMeansCancelled
    <2>2. Working(q) /\ AgentWithdrawn(q)' => q \in ctxDone'
      BY <1>7, FreeMeansCancelled DEF AgentWithdrawn, AgentOf
    <2> QED  BY <1>7, <2>1, <2>2 DEF Cancelled, Working
  <1>9. ctxDone' \subseteq Requests /\ ctxDone \subseteq ctxDone'
    BY Typed DEF ExecutionInv, TypeOK, AdmissionTypeOK
  <1> QED  BY <1>2, <1>4, <1>5, <1>6, <1>8, <1>9, RowsMove

LEMMA EditsKeep ==
  ASSUME ExecutionInv,
         \/ \E s \in Sources, status \in {"enabled", "disabled"}, l \in Limits :
              SaveSource(s, status, l)
         \/ \E r \in Requests : RecordUpgrade(r)
  PROVE  ExecutionInv'
PROOF
  <1>1. ASSUME NEW s \in Sources, NEW status \in {"enabled", "disabled"}, NEW l \in Limits,
               SaveSource(s, status, l)
        PROVE  ExecutionInv'
    <2>1. mutations' \in Owed /\ OwesSource(s)'
      BY <1>1 DEF SaveSource, Owed, OwesSource
    <2> QED  BY <1>1, <2>1, EditKeeps DEF SaveSource
  <1>2. ASSUME NEW r \in Requests, RecordUpgrade(r)  PROVE ExecutionInv'
    <2>1. PICK s : s = SourceOf(r)  OBVIOUS
    <2>2. /\ pc[r] = "record" /\ mutations = Free /\ Change
          /\ source[s].status # "deleted"
          /\ NewRevision(s, source[s].status, source[s].limit)
          /\ edited' = [edited EXCEPT ![s] = source'[s].revision]
          /\ mutations' = [owed |-> "cancel upgraded source", source |-> s, by |-> r]
          /\ UNCHANGED <<gateVars, leased, agent, callVars, jobs, ctxDone>>
      BY <1>2, <2>1 DEF RecordUpgrade, Unchanged
    <2>3. s \in Sources
      BY <2>1, <2>2, WorkersKnown DEF Working
    <2>4. source[s].status \in {"enabled", "disabled"} /\ source[s].limit \in Limits
      BY <2>2, <2>3, RowsTyped DEF SourceRows
    <2>5. mutations' \in Owed /\ OwesSource(s)'
      BY <2>2, <2>3 DEF Owed, OwesSource
    <2> QED  BY <2>2, <2>3, <2>4, <2>5, EditKeeps
  <1> QED  BY <1>1, <1>2

LEMMA DeleteSourceKeeps ==
  ASSUME ExecutionInv, NEW s \in Sources, DeleteSource(s)
  PROVE  ExecutionInv'
PROOF
  <1>1. /\ mutations = Free /\ source' = [source EXCEPT ![s].status = "deleted"]
        /\ mutations' = [owed |-> "cancel source", source |-> s]
        /\ UNCHANGED <<gateVars, leased, agent, edited, callVars, jobs, ctxDone>>
    BY DEF DeleteSource
  <1>2. changes' = changes + 1 /\ changes' \in 0..MaxChanges
    <2>1. Change  BY DEF DeleteSource
    <2> QED  BY <2>1, RowsTyped DEF Change
  <1>3. /\ source' \in [Sources -> SourceRows]
        /\ source'[s].status = "deleted"
        /\ \A x \in Sources : source'[x].revision = source[x].revision
        /\ \A x \in Sources \ {s} : source'[x] = source[x]
    BY <1>1, RowsTyped DEF SourceRows
  <1>4. RowsMoveOn
    <2>1. UNCHANGED agent  BY <1>1
    <2> QED  BY <1>3, <2>1, RowsTyped DEF RowsMoveOn
  <1>5. Counted'
    <2>1. \A x \in Sources : mutations' # [owed |-> "save version", source |-> x]
      BY <1>1, Debts
    <2>2. ASSUME NEW a \in Agents  PROVE agent'[a].token <= changes' + 1
      <3>1. PICK t \in Nat : t = agent[a].token /\ t <= changes + 1 /\ changes \in Nat
        BY Counts
      <3>2. agent'[a] = agent[a]  BY <1>1
      <3> QED  BY <1>2, <3>1, <3>2
    <2>3. ASSUME NEW x \in Sources
          PROVE  source'[x].revision <= changes' + 1 /\ edited'[x] <= source'[x].revision
      <3>1. PICK m \in Nat, e \in Nat :
              /\ m = source[x].revision /\ e = edited[x] /\ changes \in Nat
              /\ m <= changes + 1 /\ e <= m
        BY Counts
      <3>2. source'[x].revision = m /\ edited'[x] = e  BY <1>1, <1>3, <3>1
      <3> QED  BY <1>2, <3>1, <3>2
    <2> QED  BY <2>1, <2>2, <2>3 DEF Counted
  <1>6. UNCHANGED <<pc, principal, snap>>  BY <1>1 DEF callVars
  <1>7. ASSUME NEW q \in Requests  PROVE Cancelled(q)'
    <2>1. (pc[q] = "regrant" \/ Working(q)) /\ SourceWithdrawn(q)' =>
            q \in ctxDone' \/ OwesSource(SourceOf(q))'
      <3> SUFFICES ASSUME pc[q] = "regrant" \/ Working(q), SourceWithdrawn(q)', SourceOf(q) # s
                   PROVE  q \in ctxDone'
        BY <1>1, <1>6 DEF OwesSource, SourceOf
      <3>1. SourceWithdrawn(q)
        BY <1>1, <1>3, <1>6, WorkersKnown DEF SourceWithdrawn, SourceOf
      <3> QED  BY <1>1, <3>1, FreeMeansCancelled
    <2>2. Working(q) /\ AgentWithdrawn(q)' => q \in ctxDone'
      BY <1>1, <1>6, FreeMeansCancelled DEF AgentWithdrawn, AgentOf
    <2> QED  BY <1>6, <2>1, <2>2 DEF Cancelled, Working
  <1>8. mutations' \in Owed /\ edited' \in [Sources -> Revisions]
    BY <1>1, RowsTyped DEF Owed
  <1>9. ctxDone' \subseteq Requests /\ ctxDone \subseteq ctxDone'
    BY <1>1 DEF ExecutionInv, TypeOK, AdmissionTypeOK
  <1> QED  BY <1>1, <1>2, <1>4, <1>5, <1>7, <1>8, <1>9, RowsMove

\* The rows stay, and so does what was withdrawn.
LEMMA WithdrawnAsBefore ==
  ASSUME UNCHANGED <<source, agent, edited, principal, snap, pc>>, NEW q \in Requests
  PROVE  /\ SourceWithdrawn(q)' <=> SourceWithdrawn(q)
         /\ AgentWithdrawn(q)' <=> AgentWithdrawn(q)
         /\ Working(q)' <=> Working(q)
PROOF
  BY DEF SourceWithdrawn, AgentWithdrawn, Working, SourceOf, AgentOf

LEMMA RowsAsBefore ==
  ASSUME ExecutionInv, UNCHANGED <<source, agent>>
  PROVE  RowsMoveOn
PROOF
  BY RowsTyped DEF RowsMoveOn

LEMMA CancelSourceKeeps ==
  ASSUME ExecutionInv, NEW s \in Sources, CancelSource(s)
  PROVE  ExecutionInv'
PROOF
  <1>1. /\ mutations = [owed |-> "cancel source", source |-> s] /\ mutations' = Free
        /\ ctxDone' = ctxDone \union {r \in jobs : SourceOf(r) = s}
        /\ UNCHANGED <<gateVars, leased, jobs, source, agent, changes, edited, callVars>>
    BY DEF CancelSource, InvalidateSource
  <1>2. UNCHANGED <<pc, principal, snap>>  BY <1>1 DEF callVars
  <1>3. Counted'
    BY <1>1, Debts DEF ExecutionInv, Counted
  <1>4. ASSUME NEW q \in Requests  PROVE Cancelled(q)'
    <2>1. \A a : ~OwesAgent(a)  BY <1>1, Debts DEF OwesAgent
    <2>2. \A x : OwesSource(x) => x = s  BY <1>1, Debts DEF OwesSource
    <2>3. (pc[q] = "regrant" \/ Working(q)) /\ SourceWithdrawn(q) => q \in ctxDone'
      BY <1>1, <2>2, Typed, WorkersKnown DEF Call, Cancelled
    <2>4. Working(q) /\ AgentWithdrawn(q) => q \in ctxDone'
      BY <1>1, <2>1, Typed DEF Call, Cancelled
    <2> QED  BY <1>1, <1>2, <2>3, <2>4, WithdrawnAsBefore DEF Cancelled
  <1>5. ctxDone' \subseteq Requests /\ ctxDone \subseteq ctxDone'
    <2>1. ctxDone \subseteq Requests /\ jobs \subseteq Requests
      BY DEF ExecutionInv, TypeOK, AdmissionTypeOK
    <2> QED  BY <1>1, <2>1
  <1>6. mutations' \in Owed  BY <1>1 DEF Owed
  <1> QED  BY <1>1, <1>3, <1>4, <1>5, <1>6, RowsTyped, RowsAsBefore, RowsMove


\* The call that found the server upgraded carries its cancellation through, and fails.
LEMMA RecordCancelsKeeps ==
  ASSUME ExecutionInv, NEW r \in Requests, RecordCancels(r)
  PROVE  ExecutionInv'
PROOF
  <1>1. PICK s : s = SourceOf(r)  OBVIOUS
  <1>2. /\ pc[r] = "record" /\ mutations' = Free
        /\ mutations = [owed |-> "cancel upgraded source", source |-> s, by |-> r]
        /\ ctxDone' = ctxDone \union {q \in jobs : SourceOf(q) = s}
        /\ UNCHANGED <<gateVars, leased, jobs, source, agent, changes, edited, principal, snap,
                       outdated>>
    BY <1>1 DEF RecordCancels, InvalidateSource
  <1>3. /\ pc' = [pc EXCEPT ![r] = "unwind"] /\ outcome' = [outcome EXCEPT ![r] = "error"]
    BY <1>2 DEF RecordCancels, Fail, Goto, Registered
  <1>4. /\ pc'[r] = "unwind" /\ pc' \in [Requests -> Places]
        /\ outcome'[r] = "error" /\ outcome' \in [Requests -> {"none", "result", "error"}]
        /\ \A q \in Requests \ {r} : pc'[q] = pc[q] /\ outcome'[q] = outcome[q]
    BY <1>3, Typed DEF Places, Registered
  <1>5. ctxDone' \subseteq Requests /\ ctxDone \subseteq ctxDone'
    <2>1. ctxDone \subseteq Requests /\ jobs \subseteq Requests
      BY DEF ExecutionInv, TypeOK, AdmissionTypeOK
    <2> QED  BY <1>2, <2>1
  <1>6. AdmissionInv'  BY <1>2, <1>5, Typed, AdmissionRests
  <1>7. jobs' = {q \in Requests : pc'[q] \in Registered}
    <2>1. jobs = {q \in Requests : pc[q] \in Registered}  BY Typed
    <2>2. "record" \in Registered /\ "unwind" \in Registered  BY DEF Registered
    <2> QED  BY <1>2, <1>4, <2>1, <2>2
  <1>8. TypeOK'
    <2>1. mutations' \in Owed  BY <1>2 DEF Owed
    <2>2. \A q \in Requests : pc'[q] # "idle" => principal'[q] # NoCall
      BY <1>2, <1>4 DEF ExecutionInv, TypeOK
    <2> QED
      BY <1>2, <1>4, <1>6, <1>7, <2>1, <2>2 DEF ExecutionInv, TypeOK, AdmissionInv, Places
  <1>9. Counted'
    BY <1>2, Debts DEF ExecutionInv, Counted
  <1>10. UNCHANGED admission  BY <1>2 DEF gateVars
  <1>11. ASSUME NEW q \in Requests  PROVE Call(q)'
    <2>1. CASE q = r
      <3>1. Call(r)  BY Typed
      <3>2. Known(r)' /\ Holds(r)' /\ Cancelled(r)' /\ Checked(r)'
        BY <1>2, <1>4, <1>10, <3>1
           DEF Call, Known, Holds, Cancelled, Working, Checked, AgentOf, SourceOf
      <3> QED  BY <2>1, <3>2 DEF Call
    <2>2. CASE q # r
      <3>1. Rests(q)  BY <1>2, <1>4, <1>5, <1>10, <2>2 DEF Rests
      <3>2. \A a : ~OwesAgent(a)  BY <1>2, Debts DEF OwesAgent
      <3>3. \A x : OwesSource(x) => x = s  BY <1>2, Debts DEF OwesSource
      <3>4. (pc[q] = "regrant" \/ Working(q)) /\ SourceWithdrawn(q) => q \in ctxDone'
        BY <1>2, <3>3, Typed, WorkersKnown DEF Call, Cancelled
      <3>5. Working(q) /\ AgentWithdrawn(q) => q \in ctxDone'
        BY <1>2, <1>5, <3>2, Typed DEF Call, Cancelled
      <3>6. Cancelled(q)'
        BY <1>2, <3>1, <3>4, <3>5
           DEF Cancelled, Rests, Working, SourceWithdrawn, AgentWithdrawn, SourceOf, AgentOf
      <3> QED  BY <1>2, <3>1, <3>6, RowsAsBefore, CallRests
    <2> QED  BY <2>1, <2>2
  <1> QED  BY <1>6, <1>8, <1>9, <1>11 DEF ExecutionInv, AdmissionInv

\* A health check cancels first; the new revision it owes has room under the count.
LEMMA ObserveUpgradeKeeps ==
  ASSUME ExecutionInv, NEW s \in Sources, ObserveUpgrade(s)
  PROVE  ExecutionInv'
PROOF
  <1>1. /\ mutations = Free /\ mutations' = [owed |-> "save version", source |-> s]
        /\ ctxDone' = ctxDone \union {r \in jobs : SourceOf(r) = s}
        /\ UNCHANGED <<gateVars, leased, jobs, source, agent, edited, callVars>>
    BY DEF ObserveUpgrade, InvalidateSource
  <1>2. changes' = changes + 1 /\ changes' \in 0..MaxChanges
    <2>1. Change  BY DEF ObserveUpgrade
    <2> QED  BY <2>1, RowsTyped DEF Change
  <1>3. UNCHANGED <<pc, principal, snap>>  BY <1>1 DEF callVars
  <1>4. Counted'
    <2>1. ASSUME NEW a \in Agents  PROVE agent'[a].token <= changes' + 1
      <3>1. PICK t \in Nat : t = agent[a].token /\ t <= changes + 1 /\ changes \in Nat
        BY Counts
      <3>2. agent'[a] = agent[a]  BY <1>1
      <3> QED  BY <1>2, <3>1, <3>2
    <2>2. ASSUME NEW x \in Sources
          PROVE  /\ source'[x].revision <= changes' + 1 /\ edited'[x] <= source'[x].revision
                 /\ source'[x].revision <= changes'
      <3>1. PICK m \in Nat, e \in Nat :
              /\ m = source[x].revision /\ e = edited[x] /\ changes \in Nat
              /\ m <= changes + 1 /\ e <= m
        BY Counts
      <3>2. source'[x].revision = m /\ edited'[x] = e  BY <1>1, <3>1
      <3> QED  BY <1>2, <3>1, <3>2
    <2> QED  BY <2>1, <2>2 DEF Counted
  <1>5. ctxDone' \subseteq Requests /\ ctxDone \subseteq ctxDone'
    <2>1. ctxDone \subseteq Requests /\ jobs \subseteq Requests
      BY DEF ExecutionInv, TypeOK, AdmissionTypeOK
    <2> QED  BY <1>1, <2>1
  <1>6. ASSUME NEW q \in Requests  PROVE Cancelled(q)'
    <2>1. (pc[q] = "regrant" \/ Working(q)) /\ SourceWithdrawn(q) => q \in ctxDone'
      BY <1>1, <1>5, FreeMeansCancelled
    <2>2. Working(q) /\ AgentWithdrawn(q) => q \in ctxDone'
      BY <1>1, <1>5, FreeMeansCancelled
    <2> QED  BY <1>1, <1>3, <2>1, <2>2, WithdrawnAsBefore DEF Cancelled
  <1>7. mutations' \in Owed  BY <1>1 DEF Owed
  <1> QED  BY <1>1, <1>2, <1>4, <1>5, <1>6, <1>7, RowsTyped, RowsAsBefore, RowsMove

LEMMA SaveVersionKeeps ==
  ASSUME ExecutionInv, NEW s \in Sources, SaveVersion(s)
  PROVE  ExecutionInv'
PROOF
  <1>1. /\ mutations = [owed |-> "save version", source |-> s] /\ mutations' = Free
        /\ UNCHANGED <<gateVars, leased, agent, changes, edited, callVars, jobs, ctxDone>>
    BY DEF SaveVersion
  <1>2. PICK n \in Nat, e \in Nat :
          /\ n = source[s].revision /\ e = edited[s] /\ n >= 1 /\ n <= changes /\ e <= n
    <2>1. source[s].revision <= changes /\ edited[s] <= source[s].revision
      BY <1>1, Zenon DEF ExecutionInv, Counted
    <2> QED  BY <2>1, RowsTyped
  <1>3. PICK m \in {n, n + 1} :
          /\ source' \in [Sources -> SourceRows] /\ source'[s].revision = m
          /\ source'[s].status = source[s].status
          /\ \A x \in Sources \ {s} : source'[x] = source[x]
    <2>1. CASE UNCHANGED source
      BY <1>2, <2>1, RowsTyped
    <2>2. CASE NewRevision(s, source[s].status, source[s].limit)
      <3>1. source' = [source EXCEPT ![s] = [status |-> source[s].status, revision |-> n + 1,
                                             limit |-> source[s].limit]]
        BY <1>2, <2>2, RowsTyped DEF NewRevision
      <3>2. n + 1 \in Revisions
        <4>1. changes <= MaxChanges /\ changes \in Nat  BY RowsTyped
        <4> QED  BY <1>2, <4>1 DEF Revisions
      <3>3. source[s].status \in {"enabled", "disabled", "deleted"} /\ source[s].limit \in Limits
        BY RowsTyped DEF SourceRows
      <3> QED  BY <3>1, <3>2, <3>3, RowsTyped DEF SourceRows
    <2> QED  BY <2>1, <2>2 DEF SaveVersion
  <1>4. RowsMoveOn
    <2>1. UNCHANGED agent  BY <1>1
    <2> QED  BY <1>2, <1>3, <2>1, RowsTyped DEF RowsMoveOn
  <1>5. Counted'
    <2>1. \A x \in Sources : mutations' # [owed |-> "save version", source |-> x]
      BY <1>1, Debts
    <2>2. ASSUME NEW a \in Agents  PROVE agent'[a].token <= changes' + 1
      <3>1. PICK t \in Nat : t = agent[a].token /\ t <= changes + 1 /\ changes \in Nat
        BY Counts
      <3>2. agent'[a] = agent[a] /\ changes' = changes  BY <1>1
      <3> QED  BY <3>1, <3>2
    <2>3. ASSUME NEW x \in Sources
          PROVE  source'[x].revision <= changes' + 1 /\ edited'[x] <= source'[x].revision
      <3>1. edited'[x] = edited[x] /\ changes' = changes  BY <1>1
      <3>2. PICK k \in Nat, f \in Nat :
              /\ k = source[x].revision /\ f = edited[x] /\ changes \in Nat
              /\ k <= changes + 1 /\ f <= k
        BY Counts
      <3>3. CASE x = s  BY <1>2, <1>3, <3>1, <3>2, <3>3
      <3>4. CASE x # s  BY <1>3, <3>1, <3>2, <3>4
      <3> QED  BY <3>3, <3>4
    <2> QED  BY <2>1, <2>2, <2>3 DEF Counted
  <1>6. UNCHANGED <<pc, principal, snap>>  BY <1>1 DEF callVars
  <1>7. ASSUME NEW q \in Requests  PROVE Cancelled(q)'
    <2>1. (pc[q] = "regrant" \/ Working(q)) /\ SourceWithdrawn(q)' => q \in ctxDone'
      <3> SUFFICES ASSUME pc[q] = "regrant" \/ Working(q), SourceWithdrawn(q)'
                   PROVE  q \in ctxDone'
        OBVIOUS
      <3>1. SourceWithdrawn(q)
        BY <1>1, <1>3, <1>6, WorkersKnown DEF SourceWithdrawn, SourceOf
      <3> QED  BY <1>1, <3>1, FreeMeansCancelled
    <2>2. Working(q) /\ AgentWithdrawn(q)' => q \in ctxDone'
      BY <1>1, <1>6, FreeMeansCancelled DEF AgentWithdrawn, AgentOf
    <2> QED  BY <1>6, <2>1, <2>2 DEF Cancelled, Working
  <1>8. ctxDone' \subseteq Requests /\ ctxDone \subseteq ctxDone'
    BY <1>1 DEF ExecutionInv, TypeOK, AdmissionTypeOK
  <1>9. mutations' \in Owed  BY <1>1 DEF Owed
  <1> QED  BY <1>1, <1>4, <1>5, <1>7, <1>8, <1>9, RowsTyped, RowsMove


\* A change of an Agent is owed to its calls.
LEMMA AgentChangeKeeps ==
  ASSUME ExecutionInv, NEW a \in Agents, mutations = Free, Change,
         NEW row \in AgentRows, agent' = [agent EXCEPT ![a] = row],
         row.token \in {agent[a].token, agent[a].token + 1},
         agent[a].status = "revoked" => row.status = "revoked" \/ row.token = agent[a].token + 1,
         OweAgentCancel(a)
  PROVE  ExecutionInv'
PROOF
  <1>1. /\ mutations' = [owed |-> "cancel agent", agent |-> a]
        /\ UNCHANGED <<gateVars, leased, source, edited, callVars, jobs, ctxDone>>
    BY DEF OweAgentCancel
  <1>2. changes' = changes + 1 /\ changes' \in 0..MaxChanges
    BY RowsTyped DEF Change
  <1>3. /\ agent' \in [Agents -> AgentRows] /\ agent'[a] = row
        /\ \A b \in Agents \ {a} : agent'[b] = agent[b]
    BY RowsTyped
  <1>4. RowsMoveOn
    <2>1. \A b \in Agents :
            /\ agent[b].token <= agent'[b].token
            /\ agent[b].status = "revoked" =>
                 agent'[b].status = "revoked" \/ agent[b].token < agent'[b].token
      <3> SUFFICES ASSUME NEW b \in Agents
                   PROVE  /\ agent[b].token <= agent'[b].token
                          /\ agent[b].status = "revoked" =>
                               agent'[b].status = "revoked" \/ agent[b].token < agent'[b].token
        OBVIOUS
      <3>1. PICK t \in Nat : t = agent[b].token  BY RowsTyped
      <3>2. CASE b = a  BY <1>3, <3>1, <3>2
      <3>3. CASE b # a  BY <1>3, <3>1, <3>3
      <3> QED  BY <3>2, <3>3
    <2>2. UNCHANGED source  BY <1>1
    <2>3. \A s \in Sources : source[s].revision <= source'[s].revision
      BY <2>2, RowsTyped
    <2> QED  BY <1>3, <2>1, <2>2, <2>3, RowsTyped, Zenon DEF RowsMoveOn
  <1>5. Counted'
    <2>1. \A x \in Sources : mutations' # [owed |-> "save version", source |-> x]
      BY <1>1, Debts
    <2>2. ASSUME NEW b \in Agents  PROVE agent'[b].token <= changes' + 1
      <3>1. PICK t \in Nat : t = agent[b].token /\ t <= changes + 1 /\ changes \in Nat
        BY Counts
      <3>2. agent'[b].token \in {t, t + 1}  BY <1>3, <3>1
      <3> QED  BY <1>2, <3>1, <3>2
    <2>3. ASSUME NEW x \in Sources
          PROVE  source'[x].revision <= changes' + 1 /\ edited'[x] <= source'[x].revision
      <3>1. PICK m \in Nat, e \in Nat :
              /\ m = source[x].revision /\ e = edited[x] /\ changes \in Nat
              /\ m <= changes + 1 /\ e <= m
        BY Counts
      <3>2. source'[x].revision = m /\ edited'[x] = e  BY <1>1, <3>1
      <3> QED  BY <1>2, <3>1, <3>2
    <2> QED  BY <2>1, <2>2, <2>3 DEF Counted
  <1>6. UNCHANGED <<pc, principal, snap>>  BY <1>1 DEF callVars
  <1>7. ASSUME NEW q \in Requests  PROVE Cancelled(q)'
    <2>1. (pc[q] = "regrant" \/ Working(q)) /\ SourceWithdrawn(q)' => q \in ctxDone'
      BY <1>1, <1>6, FreeMeansCancelled DEF SourceWithdrawn, SourceOf
    <2>2. Working(q) /\ AgentWithdrawn(q)' => q \in ctxDone' \/ OwesAgent(principal[q].agent)'
      <3> SUFFICES ASSUME Working(q), AgentWithdrawn(q)', principal[q].agent # a
                   PROVE  q \in ctxDone'
        BY <1>1, <1>6 DEF OwesAgent
      <3>1. AgentWithdrawn(q)
        BY <1>3, <1>6, WorkersKnown DEF AgentWithdrawn, AgentOf
      <3> QED  BY <1>1, <3>1, FreeMeansCancelled
    <2> QED  BY <1>6, <2>1, <2>2 DEF Cancelled, Working
  <1>8. ctxDone' \subseteq Requests /\ ctxDone \subseteq ctxDone'
    BY <1>1 DEF ExecutionInv, TypeOK, AdmissionTypeOK
  <1>9. mutations' \in Owed /\ edited' \in [Sources -> Revisions]
    BY <1>1, RowsTyped DEF Owed
  <1> QED  BY <1>1, <1>2, <1>4, <1>5, <1>7, <1>8, <1>9, RowsMove

\* An Agent row with another status or token.
LEMMA RowsEdited ==
  ASSUME NEW row \in AgentRows, NEW status, NEW t
  PROVE  /\ [row EXCEPT !.status = status] = [status |-> status, token |-> row.token]
         /\ [row EXCEPT !.token = t] = [status |-> row.status, token |-> t]
PROOF
  BY DEF AgentRows

LEMMA AgentChangesKeep ==
  ASSUME ExecutionInv, NEW a \in Agents,
         \/ \E status \in {"enabled", "paused"} : SaveAgent(a, status)
         \/ RevokeAgent(a) \/ RotateAgent(a)
  PROVE  ExecutionInv'
PROOF
  <1>1. /\ agent \in [Agents -> AgentRows]
        /\ agent[a].token \in Tokens
        /\ agent[a].status \in {"enabled", "paused", "expired", "revoked"}
        /\ agent[a] = [status |-> agent[a].status, token |-> agent[a].token]
    BY RowsTyped DEF AgentRows
  <1>2. ASSUME NEW status \in {"enabled", "paused"}, SaveAgent(a, status)
        PROVE  ExecutionInv'
    <2>1. PICK row \in AgentRows : row = [status |-> status, token |-> agent[a].token]
      BY <1>1 DEF AgentRows
    <2>2. agent' = [agent EXCEPT ![a] = row]
      <3>1. agent' = [agent EXCEPT ![a].status = status]  BY <1>2 DEF SaveAgent
      <3>2. agent' = [agent EXCEPT ![a] = [agent[a] EXCEPT !.status = status]]
        BY <1>1, <3>1
      <3>3. agent[a] \in AgentRows  BY <1>1
      <3>4. [agent[a] EXCEPT !.status = status] = row  BY <2>1, <3>3, RowsEdited
      <3> QED  BY <3>2, <3>4
    <2> QED  BY <1>2, <2>1, <2>2, AgentChangeKeeps DEF SaveAgent
  <1>3. CASE RevokeAgent(a)
    <2>1. PICK row \in AgentRows : row = [status |-> "revoked", token |-> agent[a].token]
      BY <1>1 DEF AgentRows
    <2>2. agent' = [agent EXCEPT ![a] = row]
      <3>1. agent' = [agent EXCEPT ![a].status = "revoked"]  BY <1>3 DEF RevokeAgent
      <3>2. agent' = [agent EXCEPT ![a] = [agent[a] EXCEPT !.status = "revoked"]]
        BY <1>1, <3>1
      <3>3. agent[a] \in AgentRows  BY <1>1
      <3>4. [agent[a] EXCEPT !.status = "revoked"] = row  BY <2>1, <3>3, RowsEdited
      <3> QED  BY <3>2, <3>4
    <2> QED  BY <1>3, <2>1, <2>2, AgentChangeKeeps DEF RevokeAgent
  <1>4. CASE RotateAgent(a)
    <2>1. PICK status \in {"enabled", "paused", "expired"} :
            status = IF agent[a].status = "revoked" THEN "enabled" ELSE agent[a].status
      BY <1>1
    <2>2. PICK t \in Nat : t = agent[a].token + 1  BY RowsTyped
    <2>3. t \in Tokens
      <3>1. PICK u \in Nat : u = agent[a].token /\ u <= changes + 1 /\ changes \in Nat
        BY Counts
      <3>2. changes < MaxChanges  BY <1>4 DEF RotateAgent, Change
      <3> QED  BY <2>2, <3>1, <3>2 DEF Tokens
    <2>4. PICK row \in AgentRows : row = [status |-> status, token |-> t]
      BY <2>3 DEF AgentRows
    <2>5. agent' = [agent EXCEPT ![a] = row]
      <3>1. agent' = [agent EXCEPT ![a].token = @ + 1,
                                   ![a].status = IF @ = "revoked" THEN "enabled" ELSE @]
        BY <1>4 DEF RotateAgent
      <3>2. PICK middle : middle = [agent EXCEPT ![a].token = @ + 1]  OBVIOUS
      <3>3. middle = [agent EXCEPT ![a] = [agent[a] EXCEPT !.token = t]]
        BY <1>1, <2>2, <3>2
      <3>4. [agent[a] EXCEPT !.token = t] = [status |-> agent[a].status, token |-> t]
        BY <1>1, RowsEdited
      <3>5. PICK mid : mid = [status |-> agent[a].status, token |-> t]  OBVIOUS
      <3>6. middle = [agent EXCEPT ![a] = mid] /\ middle[a] = mid /\ mid.status = agent[a].status
        BY <1>1, <3>3, <3>4, <3>5
      <3>7. agent' = [middle EXCEPT ![a] = [mid EXCEPT !.status = status]]
        BY <1>1, <2>1, <3>1, <3>2, <3>6
      <3>8. [mid EXCEPT !.status = status] = row
        BY <2>4, <3>5
      <3>9. [[agent EXCEPT ![a] = mid] EXCEPT ![a] = row] = [agent EXCEPT ![a] = row]
        OBVIOUS
      <3> QED  BY <3>6, <3>7, <3>8, <3>9
    <2> QED  BY <1>4, <2>2, <2>4, <2>5, AgentChangeKeeps DEF RotateAgent
  <1> QED  BY <1>2, <1>3, <1>4

LEMMA CancelAgentKeeps ==
  ASSUME ExecutionInv, NEW a \in Agents, CancelAgent(a)
  PROVE  ExecutionInv'
PROOF
  <1>1. /\ mutations = [owed |-> "cancel agent", agent |-> a] /\ mutations' = Free
        /\ ctxDone' = ctxDone \union {r \in jobs : principal[r].agent = a}
        /\ UNCHANGED <<gateVars, leased, jobs, source, agent, changes, edited, callVars>>
    BY DEF CancelAgent
  <1>2. UNCHANGED <<pc, principal, snap>>  BY <1>1 DEF callVars
  <1>3. Counted'
    BY <1>1, Debts DEF ExecutionInv, Counted
  <1>4. ASSUME NEW q \in Requests  PROVE Cancelled(q)'
    <2>1. \A x : ~OwesSource(x)  BY <1>1, Debts DEF OwesSource
    <2>2. \A b : OwesAgent(b) => b = a  BY <1>1, Debts DEF OwesAgent
    <2>3. (pc[q] = "regrant" \/ Working(q)) /\ SourceWithdrawn(q) => q \in ctxDone'
      BY <1>1, <2>1, Typed DEF Call, Cancelled
    <2>4. Working(q) /\ AgentWithdrawn(q) => q \in ctxDone'
      BY <1>1, <2>2, Typed, WorkersKnown DEF Call, Cancelled
    <2> QED  BY <1>1, <1>2, <2>3, <2>4, WithdrawnAsBefore DEF Cancelled
  <1>5. ctxDone' \subseteq Requests /\ ctxDone \subseteq ctxDone'
    <2>1. ctxDone \subseteq Requests /\ jobs \subseteq Requests
      BY DEF ExecutionInv, TypeOK, AdmissionTypeOK
    <2> QED  BY <1>1, <2>1
  <1>6. mutations' \in Owed  BY <1>1 DEF Owed
  <1> QED  BY <1>1, <1>3, <1>4, <1>5, <1>6, RowsTyped, RowsAsBefore, RowsMove

\* Expiry withdraws nothing that is cancelled: the last checks find it.
LEMMA ExpireKeeps ==
  ASSUME ExecutionInv, NEW a \in Agents, Expire(a)
  PROVE  ExecutionInv'
PROOF
  <1>1. /\ agent[a].status = "enabled" /\ agent' = [agent EXCEPT ![a].status = "expired"]
        /\ UNCHANGED <<gateVars, leased, source, mutations, edited, callVars, jobs, ctxDone>>
    BY DEF Expire
  <1>2. changes' = changes + 1 /\ changes' \in 0..MaxChanges
    <2>1. Change  BY DEF Expire
    <2> QED  BY <2>1, RowsTyped DEF Change
  <1>3. /\ agent' \in [Agents -> AgentRows]
        /\ \A b \in Agents : agent'[b].token = agent[b].token
        /\ \A b \in Agents : agent'[b] = agent[b] \/ agent'[b].status = "expired"
        /\ \A b \in Agents : agent[b].status = "revoked" => agent'[b] = agent[b]
    BY <1>1, RowsTyped DEF AgentRows
  <1>4. RowsMoveOn
    <2>1. \A b \in Agents : agent[b].token <= agent'[b].token
      BY <1>3, RowsTyped
    <2>2. UNCHANGED source  BY <1>1
    <2>3. \A s \in Sources : source[s].revision <= source'[s].revision
      BY <2>2, RowsTyped
    <2> QED  BY <1>3, <2>1, <2>2, <2>3, RowsTyped, Zenon DEF RowsMoveOn
  <1>5. Counted'
    <2>1. ASSUME NEW b \in Agents  PROVE agent'[b].token <= changes' + 1
      <3>1. PICK t \in Nat : t = agent[b].token /\ t <= changes + 1 /\ changes \in Nat
        BY Counts
      <3>2. agent'[b].token = t  BY <1>3, <3>1
      <3> QED  BY <1>2, <3>1, <3>2
    <2>2. ASSUME NEW x \in Sources
          PROVE  source'[x].revision <= changes' + 1 /\ edited'[x] <= source'[x].revision
      <3>1. PICK m \in Nat, e \in Nat :
              /\ m = source[x].revision /\ e = edited[x] /\ changes \in Nat
              /\ m <= changes + 1 /\ e <= m
        BY Counts
      <3>2. source'[x].revision = m /\ edited'[x] = e  BY <1>1, <3>1
      <3> QED  BY <1>2, <3>1, <3>2
    <2>3. ASSUME NEW x \in Sources, mutations' = [owed |-> "save version", source |-> x]
          PROVE  source'[x].revision <= changes'
      <3>1. source[x].revision <= changes
        BY <1>1, <2>3, Zenon DEF ExecutionInv, Counted
      <3>2. PICK m \in Nat : m = source[x].revision /\ changes \in Nat  BY Counts
      <3>3. source'[x].revision = m  BY <1>1, <3>2
      <3> QED  BY <1>2, <3>1, <3>2, <3>3
    <2> QED  BY <2>1, <2>2, <2>3 DEF Counted
  <1>6. UNCHANGED <<pc, principal, snap>>  BY <1>1 DEF callVars
  <1>7. ASSUME NEW q \in Requests  PROVE Cancelled(q)'
    <2>1. UNCHANGED <<source, edited, mutations, ctxDone>>  BY <1>1
    <2>2. SourceWithdrawn(q)' <=> SourceWithdrawn(q)
      BY <1>6, <2>1 DEF SourceWithdrawn, SourceOf
    <2>3. Working(q) /\ AgentWithdrawn(q)' => AgentWithdrawn(q)
      BY <1>3, <1>6, WorkersKnown DEF AgentWithdrawn, AgentOf
    <2>4. Cancelled(q)  BY Typed DEF Call
    <2> QED
      BY <1>6, <2>1, <2>2, <2>3, <2>4 DEF Cancelled, Working, OwesSource, OwesAgent, SourceOf
  <1>8. ctxDone' \subseteq Requests /\ ctxDone \subseteq ctxDone'
    BY <1>1 DEF ExecutionInv, TypeOK, AdmissionTypeOK
  <1> QED  BY <1>1, <1>2, <1>4, <1>5, <1>7, <1>8, RowsTyped, RowsMove


(***************************************************************************)
(* The invariant                                                           *)
(***************************************************************************)
LEMMA InitKeeps ==
  ASSUME Init
  PROVE  ExecutionInv
PROOF
  <1>1. AdmissionInv  BY InitInv DEF Init
  <1>2. PICK l \in Limits :
          source = [s \in Sources |-> [status |-> "enabled", revision |-> 1, limit |-> l]]
    BY DEF Init
  <1>3. 1 \in Revisions /\ 1 \in Tokens
    BY DEF Revisions, Tokens
  <1>4. /\ source \in [Sources -> SourceRows] /\ agent \in [Agents -> AgentRows]
        /\ edited \in [Sources -> Revisions]
        /\ \A s \in Sources : source[s].revision = 1 /\ edited[s] = 1
        /\ \A a \in Agents : agent[a].token = 1
    BY <1>2, <1>3 DEF Init, SourceRows, AgentRows
  <1>5. /\ mutations = Free /\ changes = 0 /\ leased = {} /\ outdated = {} /\ jobs = {}
        /\ \A q \in Requests : pc[q] = "idle" /\ outcome[q] = "none"
        /\ pc \in [Requests -> {"idle"}] /\ outcome \in [Requests -> {"none"}]
        /\ principal \in [Requests -> {NoCall}] /\ snap \in [Requests -> {NoCall}]
        /\ admission = [q \in Requests |-> "idle"]
    BY DEF Init, AdmissionInit
  <1>6. TypeOK
    <2>1. jobs = {q \in Requests : pc[q] \in Registered}
      BY <1>5 DEF Registered
    <2>2. changes \in 0..MaxChanges /\ mutations \in Owed
      BY <1>5 DEF Owed
    <2> QED  BY <1>1, <1>4, <1>5, <2>1, <2>2 DEF TypeOK, AdmissionInv
  <1>7. Counted
    <2>1. \A s : mutations # [owed |-> "save version", source |-> s]
      BY <1>5, Debts
    <2>2. /\ \A a \in Agents : agent[a].token <= changes + 1
          /\ \A s \in Sources : source[s].revision <= changes + 1 /\ edited[s] <= source[s].revision
      <3>1. changes + 1 = 1  BY <1>5
      <3> QED  BY <1>4, <3>1
    <2> QED  BY <2>1, <2>2, Zenon DEF Counted
  <1>8. ASSUME NEW q \in Requests  PROVE Call(q)
    BY <1>5 DEF Call, Known, Holds, Cancelled, Checked, Working
  <1> QED  BY <1>1, <1>6, <1>7, <1>8 DEF ExecutionInv, AdmissionInv

LEMMA StutterKeeps ==
  ASSUME ExecutionInv, UNCHANGED vars
  PROVE  ExecutionInv'
PROOF
  <1>1. UNCHANGED <<gateVars, storeVars, callVars, leased, jobs, ctxDone>>  BY DEF vars
  <1>2. UNCHANGED <<source, agent, mutations, changes, edited, admission, pc, principal, snap,
                    outcome, outdated>>
    BY <1>1 DEF storeVars, callVars, gateVars
  <1>3. Counted'  BY <1>2 DEF ExecutionInv, Counted
  <1>4. ASSUME NEW q \in Requests  PROVE Cancelled(q)'
    BY <1>1, <1>2, Typed
       DEF Call, Cancelled, Working, SourceWithdrawn, AgentWithdrawn, OwesSource, OwesAgent,
           SourceOf, AgentOf
  <1>5. ctxDone' \subseteq Requests /\ ctxDone \subseteq ctxDone'
    BY <1>1 DEF ExecutionInv, TypeOK, AdmissionTypeOK
  <1> QED  BY <1>1, <1>2, <1>3, <1>4, <1>5, RowsTyped, RowsAsBefore, RowsMove

LEMMA CallStepKeeps ==
  ASSUME ExecutionInv, NEW r \in Requests, CallStep(r) \/ Record(r)
  PROVE  ExecutionInv'
PROOF
  <1>1. CASE ReadSource(r)  BY <1>1, ReadSourceKeeps
  <1>2. CASE CheckGrant(r) \/ Denied(r) \/ Refuse(r) \/ NotAcquired(r) \/ Probe(r)
             \/ RecordConflict(r) \/ RecordKept(r) \/ CheckContext(r)
    BY <1>2, QuietStepsKeep
  <1>3. CASE Register(r)  BY <1>3, RegisterKeeps
  <1>4. CASE AskAdmission(r)  BY <1>4, AskAdmissionKeeps
  <1>5. CASE WaitAdmission(r) \/ Admitted(r) \/ NotAdmitted(r)  BY <1>5, AdmissionKeeps
  <1>6. CASE Acquired(r)  BY <1>6, AcquiredKeeps
  <1>7. CASE RecordCancels(r)  BY <1>7, RecordCancelsKeeps
  <1>8. CASE QueryEnds(r)  BY <1>8, QueryEndsKeeps
  <1>9. CASE FinalGrant(r)  BY <1>9, FinalGrantKeeps
  <1>10. CASE ReturnConnection(r) \/ ReturnAdmission(r) \/ Unregister(r)
    BY <1>10, UnwindKeeps
  <1>11. CASE Return(r)  BY <1>11, ReturnKeeps
  <1>12. CASE RecordUpgrade(r)  BY <1>12, EditsKeep
  <1> QED
    BY <1>1, <1>2, <1>3, <1>4, <1>5, <1>6, <1>7, <1>8, <1>9, <1>10, <1>11, <1>12
       DEF CallStep, Record

LEMMA NextKeeps ==
  ASSUME ExecutionInv, [Next]_vars
  PROVE  ExecutionInv'
PROOF
  <1>1. ASSUME NEW r \in Requests, NEW p \in Principals, Start(r, p)  PROVE ExecutionInv'
    BY <1>1, StartKeeps
  <1>2. ASSUME NEW r \in Requests, CallStep(r) \/ Record(r)  PROVE ExecutionInv'
    BY <1>2, CallStepKeeps
  <1>3. ASSUME NEW r \in Requests, CancelContext(r)  PROVE ExecutionInv'
    BY <1>3, CancelContextKeeps
  <1>4. CASE Owing
    BY <1>4, CancelSourceKeeps, SaveVersionKeeps, CancelAgentKeeps DEF Owing
  <1>5. ASSUME NEW s \in Sources, NEW status \in {"enabled", "disabled"}, NEW l \in Limits,
               SaveSource(s, status, l)
        PROVE  ExecutionInv'
    BY <1>5, EditsKeep
  <1>6. ASSUME NEW s \in Sources, DeleteSource(s) \/ ObserveUpgrade(s)  PROVE ExecutionInv'
    BY <1>6, DeleteSourceKeeps, ObserveUpgradeKeeps
  <1>7. ASSUME NEW a \in Agents,
               \/ \E status \in {"enabled", "paused"} : SaveAgent(a, status)
               \/ RevokeAgent(a) \/ RotateAgent(a)
        PROVE  ExecutionInv'
    BY <1>7, AgentChangesKeep
  <1>8. ASSUME NEW a \in Agents, Expire(a)  PROVE ExecutionInv'
    BY <1>8, ExpireKeeps
  <1>9. CASE UNCHANGED vars  BY <1>9, StutterKeeps
  <1> QED  BY <1>1, <1>2, <1>3, <1>4, <1>5, <1>6, <1>7, <1>8, <1>9 DEF Next

\* In every reachable state what a call holds fits its place, what was withdrawn from
\* it is cancelled or owed, and what it computed under lost rows is not yet a result.
THEOREM ExecutionInvariant == Spec => []ExecutionInv
PROOF
  <1>1. Init => ExecutionInv  BY InitKeeps
  <1>2. ExecutionInv /\ [Next]_vars => ExecutionInv'  BY NextKeeps
  <1> QED  BY <1>1, <1>2, PTL DEF Spec

(***************************************************************************)
(* The properties                                                          *)
(***************************************************************************)
\* For any number of calls, Agents, sources and changes: once Store.Mutations is free
\* again, every call at work under a source, grant or credential that was edited or
\* withdrawn has been cancelled, wherever the change fell between its first
\* authorization and its registration.
THEOREM WithdrawalReachesEveryCall == Spec => []WithdrawnWorkIsCancelled
PROOF
  <1>1. ExecutionInv => WithdrawnWorkIsCancelled
    BY FreeMeansCancelled
       DEF WithdrawnWorkIsCancelled, SourceWithdrawn, AgentWithdrawn
  <1> QED  BY <1>1, ExecutionInvariant, PTL

\* No call returns rows the database computed after the revision or the credential they
\* were asked with was gone.
THEOREM ResultsAreCurrent == Spec => []NoOutdatedResult
PROOF
  <1>1. ExecutionInv => NoOutdatedResult
    BY DEF ExecutionInv, Call, Checked, NoOutdatedResult
  <1> QED  BY <1>1, ExecutionInvariant, PTL

\* A call that is audited, or over, holds no job, no admission and no connection,
\* however it failed.
THEOREM EverythingIsReturned == Spec => []NothingHeldAtReturn
PROOF
  <1>1. ASSUME ExecutionInv, NEW r \in Requests, pc[r] \in {"audit", "idle"}
        PROVE  r \notin jobs /\ admission[r] = "idle" /\ r \notin leased
    <2>1. Holds(r) /\ jobs = {q \in Requests : pc[q] \in Registered}
      BY <1>1, Typed DEF Call
    <2>2. pc[r] \notin Registered  BY <1>1 DEF Registered
    <2> QED  BY <1>1, <2>1, <2>2 DEF Holds
  <1>2. ExecutionInv => NothingHeldAtReturn
    BY <1>1 DEF ExecutionInv, NothingHeldAtReturn
  <1> QED  BY <1>2, ExecutionInvariant, PTL
=============================================================================
