-------------------------- MODULE OAuthGrantsProofs --------------------------
(***************************************************************************)
(* Proofs about OAuth grants, for any clients, grants and calls, any       *)
(* number of tokens issued to a grant, and any invalidating changes.       *)
(***************************************************************************)
EXTENDS OAuthGrants, FiniteSetTheorems, TLAPS

(***************************************************************************)
(* The inductive invariant                                                 *)
(***************************************************************************)
Active(kind, g) == {r \in OfGrant(kind, g) : r.active}

\* The token endpoint is between the code or token it was shown and its answer.
Held(g) == tokenMu # Nothing /\ tokenMu.grant = g
Issuing(g) == Held(g) /\ tokenMu.place \in {"old access", "access", "refresh"}

\* Until it is decided a request is prepared or stored, never both, and has no Agent;
\* after that it does not come back.
Request(g) ==
  /\ agent[g] # "none" => request[g] # Nothing
  /\ g \in preparing => request[g] # Nothing /\ agent[g] = "none"
  /\ OfGrant("consent", g) # {} =>
       request[g] # Nothing /\ agent[g] = "none" /\ g \notin preparing

\* A token n of the grant has been issued: what may still be issued is newer.
Issued(g, n) ==
  /\ Active("code", g) = {}
  /\ \A r \in Active("refresh", g) : n <= r.n
  /\ Issuing(g) => n <= IF tokenMu.place = "refresh" THEN tokenMu.n + 1 ELSE tokenMu.n

\* Of each kind a grant has one row that is good for anything, an exchanged code
\* stays, and an access token is issued.
Chain(g) ==
  /\ \A r \in OfGrant("access", g) : r.active /\ Issued(g, r.n)
  /\ \A r, q \in OfGrant("access", g) : r.n = q.n
  /\ \A r, q \in Active("refresh", g) : r.n = q.n
  /\ \A r, q \in OfGrant("code", g) : r = q
  /\ \A r \in OfGrant("code", g) : r.n = 0
  /\ OfGrant("refresh", g) # {} => Active("code", g) = {}

\* The grant was made under the client as it is, or its Agent is revoked.
Current(g) ==
  /\ ClientEnabled(g)
  /\ client[request[g].client].redirect = request[g].redirect
  /\ agent[g] = "revoked" \/ granted[g] = generation[request[g].client]

Matches(g) ==
  \/ agent[g] \in {"paused", "enabled"}
  \/ \E r \in rows : r.grant = g /\ r.kind \in {"code", "access", "refresh"}
  => Current(g)

\* What the holder of tokenMu has done so far.
Token ==
  tokenMu # Nothing /\ tokenMu.place # "client" =>
    LET g == tokenMu.grant IN
    /\ g \in Grants /\ agent[g] # "none"
    /\ tokenMu.place \in {"agent", "spend", "old access", "access", "refresh"} =>
         /\ Current(g)
         /\ tokenMu.kind \in {"code", "refresh"}
         /\ tokenMu.kind = "code" => tokenMu.n = 0
    /\ tokenMu.place \notin {"agent", "spend"} => Active("code", g) = {}
    /\ tokenMu.place \notin {"agent", "spend", "revoke refresh"} => Active("refresh", g) = {}
    /\ tokenMu.place = "access" => OfGrant("access", g) = {}
    /\ tokenMu.place = "refresh" => tokenMu.n < MaxIssues
    /\ tokenMu.place = "cancel" => g \in ended

Ended(g) ==
  /\ g \in withdrawn => g \in ended
  /\ g \in ended =>
       /\ agent[g] # "none" /\ ~Issuing(g)
       /\ \A kind \in {"code", "access", "refresh"} : Active(kind, g) = {}

\* A call whose token was found once presents one that was issued. From its second look
\* at it on, its withdrawal cancels it; when that was before its query ended, the token
\* is gone for good or the Agent is revoked.
Call(c) ==
  LET l == call[c] IN
  ~At(c, "idle") =>
    /\ l.grant \in Grants /\ agent[l.grant] # "none"
    /\ At(c, "register") => l.pass = 1
    /\ At(c, "run") => l.pass = 2
    /\ ~At(c, "introspect") \/ l.pass > 1 => Issued(l.grant, l.n)
    /\ At(c, "run") /\ agent[l.grant] = "revoked" =>
         c \in cancelled \/ (mutations # Nothing /\ l.grant \in mutations)
    /\ l.pass = 2 /\ ~At(c, "introspect") /\ l.grant \in withdrawn => c \in cancelled
    /\ l.late => \/ agent[l.grant] = "revoked"
                 \/ /\ At(c, "introspect") /\ l.pass = 3
                    /\ Row("access", l.grant, l.n) \notin rows

GrantInv ==
  /\ TypeOK
  /\ \A g \in Grants : Request(g) /\ Chain(g) /\ Matches(g) /\ Ended(g)
  /\ Token
  /\ \A c \in Calls : Call(c)

USE BoundsAreNaturals, NothingIsNothing

(***************************************************************************)
(* Frames                                                                  *)
(***************************************************************************)
LEMMA Typed ==
  ASSUME GrantInv
  PROVE  /\ client \in [Clients -> [redirect: Redirects, enabled: BOOLEAN] \union {Nothing}]
         /\ request \in [Grants -> [client: Clients, redirect: Redirects, generation: 0..MaxGenerations]
                                     \union {Nothing}]
         /\ preparing \subseteq Grants
         /\ rows \subseteq Rows
         /\ \A r \in rows : r.kind # "consent" => agent[r.grant] # "none"
         /\ agent \in [Grants -> {"none", "enabled", "paused", "revoked"}]
         /\ tokenMu \in [place: Places, kind: {"code", "refresh", "revoke", "client"},
                         grant: Grants \union {Nothing}, n: Issues,
                         known: BOOLEAN] \union {Nothing}
         /\ mutations \in (SUBSET Grants) \union {Nothing}
         /\ call \in [Calls -> [stage: {"idle", "introspect", "client", "agent", "register",
                                        "run"},
                                pass: 1..3, grant: Grants \union {Nothing}, n: Issues,
                                late: BOOLEAN]]
         /\ cancelled \subseteq Calls
         /\ generation \in [Clients -> 0..MaxGenerations]
         /\ granted \in [Grants -> 0..MaxGenerations \union {Nothing}]
         /\ ended \subseteq Grants /\ withdrawn \subseteq Grants
PROOF
  BY DEF GrantInv, TypeOK

\* A step leaves the grant's rows, its Agent, its request and its client.
Elsewhere(h) ==
  /\ \A r \in Rows : r.grant = h => (r \in rows' <=> r \in rows)
  /\ rows' \subseteq Rows
  /\ tokenMu' = tokenMu \/ (~Issuing(h) /\ ~Issuing(h)')
  /\ agent'[h] = agent[h] /\ request'[h] = request[h] /\ granted'[h] = granted[h]
  /\ h \in preparing' <=> h \in preparing
  /\ h \in ended' <=> h \in ended
  /\ h \in withdrawn' <=> h \in withdrawn

\* What was issued has been, and what is gone does not come back.
Stays(h) ==
  \A n \in Issues : Issued(h, n) =>
    /\ Issued(h, n)'
    /\ Row("access", h, n) \notin rows => Row("access", h, n) \notin rows'

LEMMA RowsElsewhere ==
  ASSUME rows \subseteq Rows, NEW h, Elsewhere(h)
  PROVE  \A kind : /\ OfGrant(kind, h)' = OfGrant(kind, h)
                   /\ Active(kind, h)' = Active(kind, h)
PROOF
  BY DEF Elsewhere, OfGrant, Active

LEMMA IssuedElsewhere ==
  ASSUME rows \subseteq Rows, NEW h \in Grants, Elsewhere(h)
  PROVE  /\ Issuing(h)' <=> Issuing(h)
         /\ \A n : Issued(h, n)' <=> Issued(h, n)
         /\ Stays(h)
PROOF
  <1>1. \A kind : Active(kind, h)' = Active(kind, h)  BY RowsElsewhere
  <1>2. /\ Issuing(h)' <=> Issuing(h)
        /\ Issuing(h) => tokenMu' = tokenMu
    BY DEF Elsewhere, Issuing, Held
  <1>3. ASSUME NEW n  PROVE Issued(h, n)' <=> Issued(h, n)
    BY <1>1, <1>2 DEF Issued
  <1>4. ASSUME NEW n \in Issues  PROVE Row("access", h, n) \in rows' <=> Row("access", h, n) \in rows
    <2>1. Row("access", h, n) \in Rows /\ Row("access", h, n).grant = h
      BY DEF Row, Rows
    <2> QED  BY <2>1 DEF Elsewhere
  <1> QED  BY <1>2, <1>3, <1>4 DEF Stays

LEMMA GrantElsewhere ==
  ASSUME GrantInv, NEW h \in Grants, Elsewhere(h), UNCHANGED <<client, generation>>
  PROVE  Request(h)' /\ Chain(h)' /\ Matches(h)' /\ Ended(h)' /\ Stays(h)
PROOF
  <1>1. rows \subseteq Rows  BY Typed
  <1>2. \A kind : OfGrant(kind, h)' = OfGrant(kind, h) /\ Active(kind, h)' = Active(kind, h)
    BY <1>1, RowsElsewhere
  <1>3. /\ Issuing(h)' <=> Issuing(h)
        /\ \A n : Issued(h, n)' <=> Issued(h, n)
        /\ Stays(h)
    BY <1>1, IssuedElsewhere
  <1>4. Request(h) /\ Chain(h) /\ Matches(h) /\ Ended(h)  BY DEF GrantInv
  <1>5. Request(h)'  BY <1>2, <1>4 DEF Request, Elsewhere
  <1>6. Chain(h)'  BY <1>2, <1>3, <1>4 DEF Chain
  <1>7. Matches(h)'
    <2>1. Current(h)' <=> Current(h)
      BY DEF Current, ClientEnabled, Enabled, Elsewhere
    <2>2. (\E r \in rows' : r.grant = h /\ r.kind \in {"code", "access", "refresh"}) =>
            \E r \in rows : r.grant = h /\ r.kind \in {"code", "access", "refresh"}
      BY DEF Elsewhere
    <2> QED  BY <1>4, <2>1, <2>2 DEF Matches, Elsewhere
  <1>8. Ended(h)'  BY <1>2, <1>3, <1>4 DEF Ended, Elsewhere
  <1> QED  BY <1>3, <1>5, <1>6, <1>7, <1>8

(***************************************************************************)
(* Calls                                                                   *)
(***************************************************************************)
\* Agents appear, and are not restored.
AgentsMoveOn ==
  \A g \in Grants : /\ agent[g] # "none" => agent'[g] # "none"
                    /\ agent[g] = "revoked" => agent'[g] = "revoked"

\* While nothing comes back, a call stays what it was if it is as cancelled as before.
LEMMA CallStays ==
  ASSUME GrantInv, AgentsMoveOn, \A g \in Grants : agent[g] # "none" => Stays(g),
         NEW c \in Calls, call'[c] = call[c], c \in cancelled => c \in cancelled',
         At(c, "run") /\ agent'[call[c].grant] = "revoked" =>
           \/ c \in cancelled'
           \/ mutations' # Nothing /\ call[c].grant \in mutations',
         call[c].pass = 2 /\ ~At(c, "introspect") /\ ~At(c, "idle")
           /\ call[c].grant \in withdrawn' => c \in cancelled'
  PROVE  Call(c)'
PROOF
  <1> SUFFICES ASSUME ~At(c, "idle")  PROVE Call(c)'
    BY DEF Call, At
  <1>1. PICK g \in Grants, n \in Issues : g = call[c].grant /\ n = call[c].n
    BY Typed DEF GrantInv, Call
  <1>2. Call(c)  BY DEF GrantInv
  <1>3. agent[g] # "none"  BY <1>1, <1>2 DEF Call
  <1>4. /\ agent'[g] # "none"
        /\ agent[g] = "revoked" => agent'[g] = "revoked"
    BY <1>3 DEF AgentsMoveOn
  <1>5. Issued(g, n) => /\ Issued(g, n)'
                        /\ Row("access", g, n) \notin rows => Row("access", g, n) \notin rows'
    BY <1>3 DEF Stays
  <1>6. Issued(call[c].grant, call[c].n) <=> Issued(g, n)
    BY <1>1
  <1>7. Issued(call[c].grant, call[c].n)' <=> Issued(g, n)'
    BY <1>1 DEF Issued, Issuing, Held, Active, OfGrant
  <1>8. /\ Row("access", call[c].grant, call[c].n) = Row("access", g, n)
        /\ Row("access", call[c].grant, call[c].n)' = Row("access", g, n)
    BY <1>1 DEF Row
  <1> HIDE DEF Issued, Row
  <1>9. At(c, "run")' <=> At(c, "run")  BY DEF At
  <1> QED  BY <1>1, <1>2, <1>3, <1>4, <1>5, <1>6, <1>7, <1>8 DEF Call, At


CallStates == [stage: {"idle", "introspect", "client", "agent", "register", "run"},
               pass: 1..3, grant: Grants \union {Nothing}, n: Issues, late: BOOLEAN]

\* A step of a call: what it leaves of itself has to be right.
LEMMA CallMoves ==
  ASSUME GrantInv, NEW c \in Calls, UNCHANGED callFrame,
         call' \in [Calls -> CallStates], \A d \in Calls \ {c} : call'[d] = call[d],
         cancelled' \subseteq Calls, \A d \in Calls \ {c} : d \in cancelled => d \in cancelled',
         Call(c)'
  PROVE  GrantInv'
PROOF
  <1>1. UNCHANGED <<client, rows, agent, request, preparing, tokenMu, mutations, generation,
                    granted, ended, withdrawn>>
    BY DEF callFrame, tables, history
  <1>2. ASSUME NEW h \in Grants  PROVE Elsewhere(h)
    BY <1>1, Typed DEF Elsewhere
  <1>3. \A h \in Grants : Request(h)' /\ Chain(h)' /\ Matches(h)' /\ Ended(h)' /\ Stays(h)
    BY <1>1, <1>2, GrantElsewhere
  <1>4. TypeOK'
    BY <1>1 DEF GrantInv, TypeOK, CallStates
  <1>5. Token'
    <2>1. Token  BY DEF GrantInv
    <2> QED  BY <1>1, <2>1 DEF Token, Current, ClientEnabled, Enabled, Active, OfGrant
  <1>6. AgentsMoveOn  BY <1>1 DEF AgentsMoveOn
  <1>7. ASSUME NEW d \in Calls \ {c}  PROVE Call(d)'
    <2>1. Call(d)  BY DEF GrantInv
    <2>2. ~At(d, "idle") => call[d].grant \in Grants  BY <2>1 DEF Call
    <2> QED  BY <1>1, <1>3, <1>6, <2>1, CallStays DEF Call, At
  <1> QED  BY <1>3, <1>4, <1>5, <1>7 DEF GrantInv

LEMMA BeginKeeps ==
  ASSUME GrantInv, NEW c \in Calls, NEW g \in Grants, NEW n \in Issues, Begin(c, g, n)
  PROVE  GrantInv'
PROOF
  <1>1. PICK l : l = [stage |-> "introspect", pass |-> 1, grant |-> g, n |-> n, late |-> FALSE]
    OBVIOUS
  <1>2. /\ agent[g] # "none" /\ call' = [call EXCEPT ![c] = l]
        /\ UNCHANGED callFrame /\ UNCHANGED cancelled
    <2>1. PICK a : a = [Idle EXCEPT !.stage = "introspect"]  OBVIOUS
    <2>2. PICK b : b = [a EXCEPT !.grant = g]  OBVIOUS
    <2>3. a = [stage |-> "introspect", pass |-> 1, grant |-> Nothing, n |-> 0, late |-> FALSE]
      BY <2>1 DEF Idle
    <2>4. b = [stage |-> "introspect", pass |-> 1, grant |-> g, n |-> 0, late |-> FALSE]
      BY <2>2, <2>3
    <2>5. PICK m : m = [b EXCEPT !.n = n]  OBVIOUS
    <2>7. m = [stage |-> "introspect", pass |-> 1, grant |-> g, n |-> n, late |-> FALSE]
      BY <2>4, <2>5
    <2>6. [Idle EXCEPT !.stage = "introspect", !.grant = g, !.n = n] = [b EXCEPT !.n = n]
      BY <2>1, <2>2 DEF Idle
    <2> QED  BY <1>1, <2>5, <2>6, <2>7 DEF Begin
  <1>3. l \in CallStates  BY <1>1 DEF CallStates
  <1>4. /\ call' \in [Calls -> CallStates] /\ call'[c] = l
        /\ \A d \in Calls \ {c} : call'[d] = call[d]
    BY <1>2, <1>3, Typed DEF CallStates
  <1>5. UNCHANGED agent  BY <1>2 DEF callFrame, tables
  <1>6. Call(c)'
    BY <1>1, <1>2, <1>4, <1>5 DEF Call, At
  <1> QED  BY <1>2, <1>4, <1>6, Typed, CallMoves

\* A call that ends, with an answer or without.
LEMMA EndKeeps ==
  ASSUME GrantInv, NEW c \in Calls, Fail(c) \/ Answer(c)
  PROVE  GrantInv'
PROOF
  <1>1. /\ call' = [call EXCEPT ![c] = Idle] /\ cancelled' = cancelled \ {c}
        /\ UNCHANGED callFrame
    BY DEF Fail, Answer
  <1>2. Idle \in CallStates /\ Idle.stage = "idle"
    BY DEF Idle, CallStates, Issues
  <1>3. /\ call' \in [Calls -> CallStates] /\ call'[c] = Idle
        /\ \A d \in Calls \ {c} : call'[d] = call[d]
    BY <1>1, <1>2, Typed DEF CallStates
  <1>4. Call(c)'  BY <1>2, <1>3 DEF Call, At
  <1> QED  BY <1>1, <1>3, <1>4, Typed, CallMoves

\* What an introspected token says of the grant.
LEMMA TokenFound ==
  ASSUME GrantInv, NEW g \in Grants, NEW n, Row("access", g, n) \in rows
  PROVE  Issued(g, n) /\ g \notin ended /\ g \notin withdrawn
PROOF
  <1>1. PICK r \in OfGrant("access", g) : r.n = n /\ r.active
    BY DEF OfGrant, Row
  <1>2. Issued(g, n)  BY <1>1 DEF GrantInv, Chain
  <1>3. r \in Active("access", g)  BY <1>1 DEF Active
  <1> QED  BY <1>2, <1>3 DEF GrantInv, Ended

\* A check passed.
LEMMA ChecksKeep ==
  ASSUME GrantInv, NEW c \in Calls, Introspect(c) \/ ReadClient(c) \/ ReadAgent(c)
  PROVE  GrantInv'
PROOF
  <1>1. PICK stage \in {"client", "agent", "register", "run"} :
          /\ GoTo(c, stage)
          /\ stage = "register" => call[c].pass = 1
          /\ stage = "run" => call[c].pass = 2 /\ agent[call[c].grant] = "enabled"
          /\ call[c].stage \in {"introspect", "client", "agent"}
          /\ At(c, "introspect") => Row("access", call[c].grant, call[c].n) \in rows
    <2>1. CASE Introspect(c)  BY <2>1 DEF Introspect, At
    <2>2. CASE ReadClient(c)  BY <2>2 DEF ReadClient, At
    <2>3. CASE ReadAgent(c)
      <3>1. call[c].pass \in 1..3 /\ call[c].pass < 3  BY <2>3, Typed DEF ReadAgent
      <3> QED  BY <2>3, <3>1 DEF ReadAgent, At
    <2> QED  BY <2>1, <2>2, <2>3
  <1>2. PICK l \in CallStates : l = call[c]
    BY Typed DEF CallStates
  <1>3. /\ call' \in [Calls -> CallStates]
        /\ \A d \in Calls \ {c} : call'[d] = call[d]
        /\ call'[c].stage = stage /\ call'[c].pass = l.pass /\ call'[c].grant = l.grant
        /\ call'[c].n = l.n /\ call'[c].late = l.late
        /\ UNCHANGED cancelled /\ UNCHANGED callFrame
    <2>0. GoTo(c, stage)  BY <1>1
    <2>1. /\ call' = [call EXCEPT ![c].stage = stage]
          /\ UNCHANGED cancelled /\ UNCHANGED callFrame
      BY <2>0 DEF GoTo
    <2>2. call \in [Calls -> CallStates]  BY Typed DEF CallStates
    <2>3. call' = [call EXCEPT ![c] = [l EXCEPT !.stage = stage]]  BY <1>2, <2>1, <2>2
    <2>4. PICK m : m = [l EXCEPT !.stage = stage]  OBVIOUS
    <2>5. /\ m \in CallStates /\ m.stage = stage /\ m.pass = l.pass /\ m.grant = l.grant
          /\ m.n = l.n /\ m.late = l.late
      BY <1>2, <2>4 DEF CallStates
    <2> QED  BY <2>1, <2>2, <2>3, <2>4, <2>5
  <1>4. UNCHANGED <<rows, agent, tokenMu, mutations, withdrawn>>
    BY <1>3 DEF callFrame, tables, history
  <1>5. PICK g \in Grants, n \in Issues : g = l.grant /\ n = l.n /\ agent[g] # "none"
    BY <1>1, <1>2, Typed DEF GrantInv, Call, At, CallStates
  <1>6. Call(c)  BY DEF GrantInv
  <1>7. Issued(g, n)
    <2>1. CASE At(c, "introspect")
      BY <1>1, <1>2, <1>5, <2>1, TokenFound
    <2>2. CASE ~At(c, "introspect")
      <3>1. ~At(c, "idle")  BY <1>1 DEF At
      <3> QED  BY <1>2, <1>5, <1>6, <2>2, <3>1 DEF Call
    <2> QED  BY <2>1, <2>2
  <1>8. Issued(g, n)'
    BY <1>4, <1>7 DEF Issued, Issuing, Held, Active, OfGrant
  <1>9. At(c, "introspect") => g \notin withdrawn /\ Row("access", g, n) \in rows
    BY <1>1, <1>2, <1>5, TokenFound
  <1>10. /\ l.pass = 2 /\ g \in withdrawn => c \in cancelled
         /\ l.late => agent[g] = "revoked"
    BY <1>1, <1>2, <1>5, <1>6, <1>9 DEF Call, At
  <1>11. Call(c)'
    <2>1. PICK k : k = call'[c]  OBVIOUS
    <2>2. /\ k.stage = stage /\ k.pass = l.pass /\ k.grant = g /\ k.n = n /\ k.late = l.late
          /\ agent'[g] # "none"
      BY <1>3, <1>4, <1>5, <2>1
    <2>3. /\ stage = "register" => k.pass = 1
          /\ stage = "run" => k.pass = 2 /\ agent'[g] # "revoked"
      BY <1>1, <1>2, <1>4, <1>5, <2>2
    <2>4. /\ k.pass = 2 /\ g \in withdrawn' => c \in cancelled'
          /\ k.late => agent'[g] = "revoked"
      BY <1>3, <1>4, <1>10, <2>2
    <2>5. Issued(call[c].grant, call[c].n)'
      BY <1>8, <2>1, <2>2 DEF Issued, Issuing, Held, Active, OfGrant
    <2> QED  BY <2>1, <2>2, <2>3, <2>4, <2>5 DEF Call, At
  <1> QED  BY <1>3, <1>11, Typed, CallMoves

LEMMA RegisterJobKeeps ==
  ASSUME GrantInv, NEW c \in Calls, RegisterJob(c)
  PROVE  GrantInv'
PROOF
  <1>1. PICK l \in CallStates : l = call[c]
    BY Typed DEF CallStates
  <1>2. /\ call' \in [Calls -> CallStates]
        /\ \A d \in Calls \ {c} : call'[d] = call[d]
        /\ call'[c].stage = "introspect" /\ call'[c].pass = 2 /\ call'[c].grant = l.grant
        /\ call'[c].n = l.n /\ call'[c].late = l.late
        /\ UNCHANGED cancelled /\ UNCHANGED callFrame /\ l.stage = "register"
    <2>1. /\ call' = [call EXCEPT ![c].stage = "introspect", ![c].pass = 2]
          /\ UNCHANGED cancelled /\ UNCHANGED callFrame /\ l.stage = "register"
      BY <1>1 DEF RegisterJob, At
    <2>2. call \in [Calls -> CallStates]  BY Typed DEF CallStates
    <2>3. PICK a : a = [l EXCEPT !.stage = "introspect"]  OBVIOUS
    <2>4. PICK m : m = [a EXCEPT !.pass = 2]  OBVIOUS
    <2>5. call' = [call EXCEPT ![c] = m]  BY <1>1, <2>1, <2>2, <2>3, <2>4
    <2>6. /\ a \in CallStates /\ a.stage = "introspect" /\ a.grant = l.grant
          /\ a.n = l.n /\ a.late = l.late
      BY <1>1, <2>3 DEF CallStates
    <2>7. /\ m \in CallStates /\ m.stage = "introspect" /\ m.pass = 2 /\ m.grant = l.grant
          /\ m.n = l.n /\ m.late = l.late
      BY <2>4, <2>6 DEF CallStates
    <2> QED  BY <2>1, <2>2, <2>5, <2>7
  <1>3. UNCHANGED <<rows, agent, tokenMu, mutations, withdrawn>>
    BY <1>2 DEF callFrame, tables, history
  <1>4. Call(c)  BY DEF GrantInv
  <1>5. PICK g \in Grants, n \in Issues : g = l.grant /\ n = l.n
    BY <1>1, <1>2, <1>4 DEF Call, At, CallStates
  <1>6. /\ agent[g] # "none" /\ Issued(g, n) /\ l.pass = 1
        /\ l.late => agent[g] = "revoked"
    BY <1>1, <1>2, <1>4, <1>5 DEF Call, At
  <1>7. Issued(g, n)'
    BY <1>3, <1>6 DEF Issued, Issuing, Held, Active, OfGrant
  <1>8. Call(c)'
    BY <1>2, <1>3, <1>5, <1>6, <1>7 DEF Call, At
  <1> QED  BY <1>2, <1>8, Typed, CallMoves

\* The query ends: a token that is gone by then is gone for good.
LEMMA QueryEndsKeeps ==
  ASSUME GrantInv, NEW c \in Calls, QueryEnds(c)
  PROVE  GrantInv'
PROOF
  <1>1. PICK l \in CallStates : l = call[c]
    BY Typed DEF CallStates
  <1>2. PICK late \in BOOLEAN :
          late = (Row("access", l.grant, l.n) \notin rows \/ agent[l.grant] = "revoked")
    OBVIOUS
  <1>3. /\ call' = [call EXCEPT ![c].stage = "introspect", ![c].pass = 3, ![c].late = late]
        /\ UNCHANGED cancelled /\ UNCHANGED callFrame /\ l.stage = "run"
    BY <1>1, <1>2 DEF QueryEnds, At
  <1>4. /\ call' \in [Calls -> CallStates]
        /\ \A d \in Calls \ {c} : call'[d] = call[d]
        /\ call'[c].stage = "introspect" /\ call'[c].pass = 3 /\ call'[c].grant = l.grant
        /\ call'[c].n = l.n /\ call'[c].late = late
    <2>1. call \in [Calls -> CallStates]  BY Typed DEF CallStates
    <2>2. PICK a : a = [l EXCEPT !.stage = "introspect"]  OBVIOUS
    <2>3. PICK b : b = [a EXCEPT !.pass = 3]  OBVIOUS
    <2>4. PICK m : m = [b EXCEPT !.late = late]  OBVIOUS
    <2>5. call' = [call EXCEPT ![c] = m]  BY <1>1, <1>3, <2>1, <2>2, <2>3, <2>4
    <2>6. /\ a \in CallStates /\ a.stage = "introspect" /\ a.grant = l.grant /\ a.n = l.n
      BY <1>1, <2>2 DEF CallStates
    <2>7. /\ b \in CallStates /\ b.stage = "introspect" /\ b.pass = 3 /\ b.grant = l.grant
          /\ b.n = l.n
      BY <2>3, <2>6 DEF CallStates
    <2>8. /\ m \in CallStates /\ m.stage = "introspect" /\ m.pass = 3 /\ m.grant = l.grant
          /\ m.n = l.n /\ m.late = late
      BY <2>4, <2>7 DEF CallStates
    <2> QED  BY <2>1, <2>5, <2>8
  <1>5. UNCHANGED <<rows, agent, tokenMu, mutations, withdrawn>>
    BY <1>3 DEF callFrame, tables, history
  <1>6. Call(c)  BY DEF GrantInv
  <1>7. PICK g \in Grants, n \in Issues : g = l.grant /\ n = l.n
    BY <1>1, <1>3, <1>6 DEF Call, At, CallStates
  <1>8. agent[g] # "none" /\ Issued(g, n)
    BY <1>1, <1>3, <1>6, <1>7 DEF Call, At
  <1>9. Issued(g, n)'
    BY <1>5, <1>8 DEF Issued, Issuing, Held, Active, OfGrant
  <1>10. late => agent'[g] = "revoked" \/ Row("access", g, n) \notin rows'
    BY <1>2, <1>5, <1>7
  <1>11. Call(c)'
    BY <1>4, <1>5, <1>7, <1>8, <1>9, <1>10 DEF Call, At, Row
  <1> QED  BY <1>3, <1>4, <1>11, Typed, CallMoves


(***************************************************************************)
(* Agents and clients                                                      *)
(***************************************************************************)
LEMMA AgentMoves ==
  ASSUME GrantInv, NEW g \in Grants, NEW state \in {"enabled", "paused", "revoked"},
         agent[g] # "none", agent[g] = "revoked" => state = "revoked",
         agent' = [agent EXCEPT ![g] = state],
         UNCHANGED <<client, rows, request, preparing, tokenMu, call, cancelled, history>>,
         mutations' \in (SUBSET Grants) \union {Nothing},
         \A c \in Calls :
           At(c, "run") /\ agent'[call[c].grant] = "revoked" =>
             c \in cancelled \/ (mutations' # Nothing /\ call[c].grant \in mutations')
  PROVE  GrantInv'
PROOF
  <1>1. UNCHANGED <<generation, granted, ended, withdrawn>>  BY DEF history
  <1>2. /\ agent' \in [Grants -> {"none", "enabled", "paused", "revoked"}]
        /\ agent'[g] = state /\ \A h \in Grants \ {g} : agent'[h] = agent[h]
    BY Typed
  <1>3. TypeOK'
    <2>1. \A r \in rows : r.grant \in Grants  BY Typed DEF Rows
    <2>2. \A r \in rows : r.kind # "consent" => agent'[r.grant] # "none"
      BY <1>2, <2>1, Typed
    <2> QED  BY <1>1, <1>2, <2>2 DEF GrantInv, TypeOK
  <1>4. \A h \in Grants : Current(h) => Current(h)'
    <2> SUFFICES ASSUME NEW h \in Grants, Current(h)  PROVE Current(h)'
      OBVIOUS
    <2>1. agent[h] = "revoked" => agent'[h] = "revoked"  BY <1>2
    <2> QED  BY <1>1, <2>1 DEF Current, ClientEnabled, Enabled
  <1>5. \A h \in Grants : Request(h)' /\ Chain(h)' /\ Matches(h)' /\ Ended(h)' /\ Stays(h)
    <2>1. ASSUME NEW h \in Grants \ {g}
          PROVE  Request(h)' /\ Chain(h)' /\ Matches(h)' /\ Ended(h)' /\ Stays(h)
      <3>1. Elsewhere(h)  BY <1>1, <1>2, Typed DEF Elsewhere
      <3> QED  BY <1>1, <3>1, GrantElsewhere
    <2>2. Request(g) /\ Chain(g) /\ Matches(g) /\ Ended(g)  BY DEF GrantInv
    <2>3. /\ \A n : Issued(g, n)' <=> Issued(g, n)
          /\ \A kind : OfGrant(kind, g)' = OfGrant(kind, g) /\ Active(kind, g)' = Active(kind, g)
          /\ Issuing(g)' <=> Issuing(g)
      BY DEF Issued, Issuing, Held, Active, OfGrant
    <2>4. Request(g)'  BY <1>2, <2>2, <2>3 DEF Request
    <2>5. Chain(g)'  BY <2>2, <2>3 DEF Chain
    <2>6. Matches(g)'
      <3>1. agent'[g] \in {"paused", "enabled"} => agent[g] \in {"paused", "enabled"}
        BY <1>2, Typed
      <3> QED  BY <1>4, <2>2, <3>1 DEF Matches
    <2>7. Ended(g)'  BY <1>1, <1>2, <2>2, <2>3 DEF Ended
    <2>8. Stays(g)
      <3>1. ASSUME NEW n \in Issues
            PROVE  Row("access", g, n) \notin rows => Row("access", g, n) \notin rows'
        OBVIOUS
      <3> QED  BY <2>3, <3>1 DEF Stays
    <2> QED  BY <2>1, <2>4, <2>5, <2>6, <2>7, <2>8
  <1>6. Token'
    <2>1. Token  BY DEF GrantInv
    <2>2. \A kind, h : OfGrant(kind, h)' = OfGrant(kind, h) /\ Active(kind, h)' = Active(kind, h)
      BY DEF Active, OfGrant
    <2> SUFFICES ASSUME tokenMu # Nothing, tokenMu.place # "client"  PROVE Token'
      BY DEF Token
    <2>3. PICK h \in Grants : h = tokenMu.grant /\ agent[h] # "none"
      BY <2>1 DEF Token
    <2>4. agent'[h] # "none"  BY <1>2, <2>3
    <2>5. Current(h) => Current(h)'  BY <1>4
    <2>6. Current(tokenMu.grant)' <=> Current(h)'
      BY <2>3 DEF Current, ClientEnabled, Enabled
    <2> QED  BY <1>1, <2>1, <2>2, <2>3, <2>4, <2>5, <2>6 DEF Token
  <1>7. AgentsMoveOn  BY <1>2 DEF AgentsMoveOn
  <1>8. ASSUME NEW c \in Calls  PROVE Call(c)'
    <2>1. Call(c)  BY DEF GrantInv
    <2> QED  BY <1>1, <1>5, <1>7, <2>1, CallStays DEF Call
  <1> QED  BY <1>3, <1>5, <1>6, <1>8 DEF GrantInv

LEMMA AgentsKeep ==
  ASSUME GrantInv, NEW g \in Grants, Pause(g) \/ Resume(g) \/ RevokeAgent(g) \/ Lapse(g)
  PROVE  GrantInv'
PROOF
  <1>1. PICK state \in {"enabled", "paused", "revoked"} :
          /\ agent[g] # "none"
          /\ agent[g] = "revoked" => state = "revoked"
          /\ agent' = [agent EXCEPT ![g] = state]
          /\ \/ mutations = Nothing /\ mutations' = {g}
             \/ UNCHANGED mutations /\ state = "paused"
          /\ UNCHANGED <<client, rows, request, preparing, tokenMu, calls, history>>
    BY DEF Pause, Resume, RevokeAgent, Lapse, SetAgent
  <1>2. UNCHANGED <<call, cancelled>>  BY <1>1 DEF calls
  <1>3. mutations' \in (SUBSET Grants) \union {Nothing}
    BY <1>1, Typed
  <1>4. ASSUME NEW c \in Calls, At(c, "run"), agent'[call[c].grant] = "revoked"
        PROVE  c \in cancelled \/ (mutations' # Nothing /\ call[c].grant \in mutations')
    <2>1. PICK h \in Grants : h = call[c].grant
      BY <1>4 DEF GrantInv, Call, At
    <2>2. agent[h] = "revoked" => c \in cancelled \/ (mutations # Nothing /\ h \in mutations)
      BY <1>4, <2>1 DEF GrantInv, Call, At
    <2>3. CASE h = g /\ state # "paused"
      <3>1. mutations' = {g} /\ {g} \in SUBSET Grants  BY <1>1, <2>3
      <3> QED  BY <2>1, <2>3, <3>1
    <2>4. CASE h # g \/ state = "paused"
      <3>1. agent[h] = "revoked"  BY <1>1, <1>4, <2>1, <2>4, Typed
      <3> QED  BY <1>1, <2>1, <2>2, <3>1
    <2> QED  BY <2>3, <2>4
  <1> QED  BY <1>1, <1>2, <1>3, <1>4, AgentMoves


\* A step that leaves the calls to themselves.
LEMMA Moves ==
  ASSUME GrantInv, UNCHANGED call, cancelled \subseteq cancelled', TypeOK', Token', AgentsMoveOn,
         \A h \in Grants : Request(h)' /\ Chain(h)' /\ Matches(h)' /\ Ended(h)',
         \A h \in Grants : agent[h] # "none" => Stays(h),
         \A c \in Calls :
           At(c, "run") /\ agent'[call[c].grant] = "revoked" =>
             c \in cancelled' \/ (mutations' # Nothing /\ call[c].grant \in mutations'),
         \A c \in Calls :
           call[c].pass = 2 /\ ~At(c, "introspect") /\ ~At(c, "idle")
             /\ call[c].grant \in withdrawn' => c \in cancelled'
  PROVE  GrantInv'
PROOF
  <1>1. ASSUME NEW c \in Calls  PROVE Call(c)'
    BY CallStays
  <1> QED  BY <1>1 DEF GrantInv

\* What calls are cancelled for now.
LEMMA AsCancelled ==
  ASSUME GrantInv, NEW c \in Calls, ~At(c, "idle")
  PROVE  /\ call[c].grant \in Grants
         /\ At(c, "run") /\ agent[call[c].grant] = "revoked" =>
              c \in cancelled \/ (mutations # Nothing /\ call[c].grant \in mutations)
         /\ call[c].pass = 2 /\ ~At(c, "introspect") /\ call[c].grant \in withdrawn =>
              c \in cancelled
         /\ At(c, "run") => call[c].pass = 2
PROOF
  BY DEF GrantInv, Call

\* Cancellations carried through.
LEMMA CancelAgentsKeeps ==
  ASSUME GrantInv, CancelAgents
  PROVE  GrantInv'
PROOF
  <1>1. /\ mutations # Nothing /\ mutations' = Nothing
        /\ cancelled' = cancelled \union UNION {Jobs(g) : g \in mutations}
        /\ UNCHANGED <<client, rows, agent, request, preparing, call, generation, granted, ended,
                       withdrawn>>
        /\ \/ tokenMu' = tokenMu
           \/ tokenMu # Nothing /\ tokenMu.place = "client" /\ tokenMu' = Nothing
    BY DEF CancelAgents, tables, history
  <1>2. ASSUME NEW h \in Grants  PROVE Elsewhere(h)
    BY <1>1, Typed DEF Elsewhere, Issuing, Held
  <1>3. \A h \in Grants : Request(h)' /\ Chain(h)' /\ Matches(h)' /\ Ended(h)' /\ Stays(h)
    BY <1>1, <1>2, GrantElsewhere
  <1>4. cancelled \subseteq cancelled' /\ cancelled' \subseteq Calls
    <2>1. \A g : Jobs(g) \subseteq Calls  BY DEF Jobs
    <2> QED  BY <1>1, <2>1, Typed
  <1>5. TypeOK'
    <2>1. tokenMu' \in [place: Places, kind: {"code", "refresh", "revoke", "client"},
                        grant: Grants \union {Nothing}, n: Issues, known: BOOLEAN]
                       \union {Nothing}
      BY <1>1, Typed
    <2>2. mutations' = Nothing  BY <1>1
    <2>3. mutations' \in (SUBSET Grants) \union {Nothing}  BY <2>2
    <2> QED  BY <1>1, <1>4, <2>1, <2>3, Typed DEF TypeOK
  <1>6. Token'
    <2>1. CASE tokenMu' = tokenMu
      <3>1. Token  BY DEF GrantInv
      <3> QED  BY <1>1, <2>1, <3>1 DEF Token, Current, ClientEnabled, Enabled, Active, OfGrant
    <2>2. CASE tokenMu' = Nothing  BY <2>2 DEF Token
    <2> QED  BY <1>1, <2>1, <2>2
  <1>7. AgentsMoveOn  BY <1>1 DEF AgentsMoveOn
  <1>8. ASSUME NEW c \in Calls, At(c, "run"), agent'[call[c].grant] = "revoked"
        PROVE  c \in cancelled'
    <2>1. ~At(c, "idle")  BY <1>8 DEF At
    <2>2. c \in cancelled \/ call[c].grant \in mutations  BY <1>1, <1>8, <2>1, AsCancelled
    <2>3. call[c].pass > 1  BY <1>8, <2>1, AsCancelled
    <2>4. call[c].grant \in mutations => c \in Jobs(call[c].grant)
      BY <2>3 DEF Jobs
    <2> QED  BY <1>1, <2>2, <2>4
  <1>9. ASSUME NEW c \in Calls, call[c].pass = 2, ~At(c, "introspect"), ~At(c, "idle"),
               call[c].grant \in withdrawn'
        PROVE  c \in cancelled'
    BY <1>1, <1>4, <1>9, AsCancelled
  <1> QED  BY <1>1, <1>3, <1>4, <1>5, <1>6, <1>7, <1>8, <1>9, Moves

\* Neither Agents nor cancellations nor revocations move.
LEMMA QuietMoves ==
  ASSUME GrantInv, UNCHANGED <<agent, mutations, call, cancelled, withdrawn>>, TypeOK', Token',
         \A h \in Grants : Request(h)' /\ Chain(h)' /\ Matches(h)' /\ Ended(h)',
         \A h \in Grants : agent[h] # "none" => Stays(h)
  PROVE  GrantInv'
PROOF
  <1>1. AgentsMoveOn  BY DEF AgentsMoveOn
  <1>2. ASSUME NEW c \in Calls, ~At(c, "idle")
        PROVE  /\ At(c, "run") /\ agent'[call[c].grant] = "revoked" =>
                    c \in cancelled' \/ (mutations' # Nothing /\ call[c].grant \in mutations')
               /\ call[c].pass = 2 /\ ~At(c, "introspect") /\ call[c].grant \in withdrawn' =>
                    c \in cancelled'
    BY <1>2, AsCancelled
  <1>3. \A c : At(c, "run") => ~At(c, "idle")  BY DEF At
  <1> QED  BY <1>1, <1>2, <1>3, Moves

\* The rows of a grant, and what is issued to it, stay.
LEMMA RowsStay ==
  ASSUME UNCHANGED <<rows, tokenMu>>, NEW h
  PROVE  /\ \A n : Issued(h, n)' <=> Issued(h, n)
         /\ \A kind : OfGrant(kind, h)' = OfGrant(kind, h) /\ Active(kind, h)' = Active(kind, h)
         /\ Issuing(h)' <=> Issuing(h)
         /\ Stays(h)
PROOF
  <1>1. \A n : Issued(h, n)' <=> Issued(h, n)
    BY DEF Issued, Issuing, Held, Active, OfGrant
  <1>2. ASSUME NEW n \in Issues
        PROVE  Row("access", h, n) \notin rows => Row("access", h, n) \notin rows'
    OBVIOUS
  <1>3. Stays(h)  BY <1>1, <1>2 DEF Stays
  <1> QED  BY <1>1, <1>3 DEF Issuing, Held, Active, OfGrant

LEMMA RegisterKeeps ==
  ASSUME GrantInv, NEW c \in Clients, NEW redirect \in Redirects, Register(c, redirect)
  PROVE  GrantInv'
PROOF
  <1>1. /\ client[c] = Nothing /\ tokenMu = Nothing
        /\ client' = [client EXCEPT ![c] = [redirect |-> redirect, enabled |-> TRUE]]
        /\ UNCHANGED <<rows, agent, request, preparing, tokenMu, mutations, call, cancelled,
                       generation, granted, ended, withdrawn>>
    BY DEF Register, calls, history
  <1>2. /\ client' \in [Clients -> [redirect: Redirects, enabled: BOOLEAN] \union {Nothing}]
        /\ \A d \in Clients \ {c} : client'[d] = client[d]
    BY <1>1, Typed
  <1>3. TypeOK'  BY <1>1, <1>2 DEF GrantInv, TypeOK
  <1>4. \A h \in Grants : Current(h) => Current(h)'
    <2> SUFFICES ASSUME NEW h \in Grants, Current(h)  PROVE Current(h)'
      OBVIOUS
    <2>1. request[h].client \in Clients \ {c}
      BY <1>1, Typed DEF Current, ClientEnabled, Enabled
    <2> QED  BY <1>1, <1>2, <2>1 DEF Current, ClientEnabled, Enabled
  <1>5. ASSUME NEW h \in Grants
        PROVE  Request(h)' /\ Chain(h)' /\ Matches(h)' /\ Ended(h)' /\ Stays(h)
    <2>1. Request(h) /\ Chain(h) /\ Matches(h) /\ Ended(h)  BY DEF GrantInv
    <2>2. /\ \A n : Issued(h, n)' <=> Issued(h, n)
          /\ \A kind : OfGrant(kind, h)' = OfGrant(kind, h) /\ Active(kind, h)' = Active(kind, h)
          /\ Issuing(h)' <=> Issuing(h)
          /\ Stays(h)
      BY <1>1, RowsStay
    <2>3. Request(h)' /\ Chain(h)' /\ Ended(h)'
      BY <1>1, <2>1, <2>2 DEF Request, Chain, Ended
    <2>4. Matches(h)'  BY <1>1, <1>4, <2>1 DEF Matches
    <2> QED  BY <2>2, <2>3, <2>4
  <1>6. Token'  BY <1>1 DEF Token
  <1> QED  BY <1>1, <1>3, <1>5, <1>6, QuietMoves

LEMMA PrepareKeeps ==
  ASSUME GrantInv, NEW g \in Grants, NEW c \in Clients, NEW redirect \in Redirects,
         Prepare(g, c, redirect)
  PROVE  GrantInv'
PROOF
  <1>1. PICK q : q = [client |-> c, redirect |-> redirect, generation |-> generation[c]]
    OBVIOUS
  <1>2. /\ request[g] = Nothing /\ request' = [request EXCEPT ![g] = q]
        /\ preparing' = preparing \union {g}
        /\ UNCHANGED <<client, rows, agent, tokenMu, mutations, call, cancelled,
                       generation, granted, ended, withdrawn>>
    BY <1>1 DEF Prepare, tables, calls, history
  <1>3. q \in [client: Clients, redirect: Redirects, generation: 0..MaxGenerations]
    <2>1. generation[c] \in 0..MaxGenerations  BY Typed
    <2> QED  BY <1>1, <2>1
  <1>4. /\ request' \in [Grants -> [client: Clients, redirect: Redirects, generation: 0..MaxGenerations]
                                     \union {Nothing}]
        /\ request'[g] # Nothing
        /\ \A h \in Grants \ {g} : request'[h] = request[h]
    BY <1>2, <1>3, Typed
  <1>5. TypeOK'  BY <1>2, <1>4 DEF GrantInv, TypeOK
  <1>6. ASSUME NEW h \in Grants \ {g}  PROVE Elsewhere(h)
    BY <1>2, <1>4, Typed DEF Elsewhere
  <1>7. ~Current(g)  BY <1>2 DEF Current, ClientEnabled
  <1>8. Request(g) /\ Chain(g) /\ Matches(g) /\ Ended(g)  BY DEF GrantInv
  <1>9. Request(g)' /\ Chain(g)' /\ Matches(g)' /\ Ended(g)' /\ Stays(g)
    <2>2. /\ \A n : Issued(g, n)' <=> Issued(g, n)
          /\ \A kind : OfGrant(kind, g)' = OfGrant(kind, g) /\ Active(kind, g)' = Active(kind, g)
          /\ Issuing(g)' <=> Issuing(g)
          /\ Stays(g)
      BY <1>2, RowsStay
    <2>3. Request(g)'
      BY <1>2, <1>4, <1>8, <2>2 DEF Request
    <2>4. Chain(g)' /\ Ended(g)'
      BY <1>2, <1>8, <2>2 DEF Chain, Ended
    <2>5. Matches(g)'  BY <1>2, <1>7, <1>8 DEF Matches
    <2> QED  BY <2>2, <2>3, <2>4, <2>5
  <1>10. Token'
    <2> SUFFICES ASSUME tokenMu # Nothing, tokenMu.place # "client"  PROVE Token'
      BY <1>2 DEF Token
    <2>1. Token  BY DEF GrantInv
    <2>2. \A kind, h : OfGrant(kind, h)' = OfGrant(kind, h) /\ Active(kind, h)' = Active(kind, h)
      BY <1>2 DEF Active, OfGrant
    <2>3. PICK h \in Grants : h = tokenMu.grant
      BY <2>1 DEF Token
    <2>4. Current(h) => Current(h)'
      BY <1>2, <1>4, <1>7 DEF Current, ClientEnabled, Enabled
    <2>5. Current(tokenMu.grant)' <=> Current(h)'
      BY <1>2, <2>3 DEF Current, ClientEnabled, Enabled
    <2> QED  BY <1>2, <2>1, <2>2, <2>3, <2>4, <2>5 DEF Token
  <1>11. \A h \in Grants \ {g} : Request(h)' /\ Chain(h)' /\ Matches(h)' /\ Ended(h)' /\ Stays(h)
    BY <1>2, <1>6, GrantElsewhere
  <1> QED  BY <1>2, <1>5, <1>9, <1>10, <1>11, QuietMoves

\* A change of a client ends what was granted under it.
LEMMA SaveClientKeeps ==
  ASSUME GrantInv, NEW c \in Clients,
         NEW row \in [redirect: Redirects, enabled: BOOLEAN] \union {Nothing}, SaveClient(c, row)
  PROVE  GrantInv'
PROOF
  <1>1. PICK held : held = [place |-> "client", kind |-> "client", grant |-> Nothing, n |-> 0,
                            known |-> TRUE]
    OBVIOUS
  <1>2. /\ tokenMu = Nothing /\ mutations = Nothing
        /\ client' = [client EXCEPT ![c] = row]
        /\ rows' = {r \in rows : r.grant \notin OfClient(c)}
        /\ agent' = [g \in Grants |-> IF g \in Affected(c) THEN "revoked" ELSE agent[g]]
        /\ tokenMu' = held /\ mutations' = Affected(c)
        /\ UNCHANGED <<request, preparing, call, cancelled, granted, ended, withdrawn>>
    BY <1>1 DEF SaveClient, calls
  <1>3. /\ generation' \in [Clients -> 0..MaxGenerations]
        /\ \A d \in Clients \ {c} : generation'[d] = generation[d] /\ client'[d] = client[d]
    <2>1. generation' = [generation EXCEPT ![c] = @ + 1] /\ generation[c] < MaxGenerations
      BY DEF SaveClient
    <2>2. generation[c] + 1 \in 0..MaxGenerations  BY <2>1, Typed
    <2> QED  BY <1>2, <2>1, <2>2, Typed
  <1>4. /\ Affected(c) \subseteq Grants /\ OfClient(c) \subseteq Grants
        /\ \A h \in Grants : h \in Affected(c) <=> h \in OfClient(c) /\ agent[h] # "none"
    BY DEF Affected, OfClient
  <1>5. \A h \in Grants : agent'[h] = IF h \in Affected(c) THEN "revoked" ELSE agent[h]
    BY <1>2
  <1>6. /\ held.place = "client" /\ held.grant = Nothing
        /\ held \in [place: Places, kind: {"code", "refresh", "revoke", "client"},
                     grant: Grants \union {Nothing}, n: Issues, known: BOOLEAN]
    BY <1>1 DEF Places, Issues
  <1>7. TypeOK'
    <2>1. client' \in [Clients -> [redirect: Redirects, enabled: BOOLEAN] \union {Nothing}]
      BY <1>2, Typed
    <2>2. agent' \in [Grants -> {"none", "enabled", "paused", "revoked"}]
      BY <1>2, Typed
    <2>3. rows' \subseteq rows /\ rows' \subseteq Rows  BY <1>2, Typed
    <2>4. \A r \in rows' : r.kind # "consent" => agent'[r.grant] # "none"
      <3>1. \A r \in rows' : r.grant \in Grants  BY <2>3 DEF Rows
      <3> QED  BY <1>5, <2>3, <3>1, Typed
    <2> QED
      BY <1>2, <1>3, <1>4, <1>6, <2>1, <2>2, <2>3, <2>4 DEF GrantInv, TypeOK
  <1>8. ASSUME NEW h \in Grants
        PROVE  Request(h)' /\ Chain(h)' /\ Matches(h)' /\ Ended(h)' /\ Stays(h)
    <2>1. Request(h) /\ Chain(h) /\ Matches(h) /\ Ended(h)  BY DEF GrantInv
    <2>2. ~Issuing(h) /\ ~Issuing(h)'
      BY <1>2, <1>6 DEF Issuing, Held
    <2>3. CASE h \in OfClient(c)
      <3>1. \A kind : OfGrant(kind, h)' = {} /\ Active(kind, h)' = {}
        BY <1>2, <2>3 DEF OfGrant, Active
      <3>2. agent'[h] \in {"none", "revoked"} /\ (agent[h] = "none" <=> agent'[h] = "none")
        BY <1>4, <1>5, <2>3
      <3>3. Request(h)'  BY <1>2, <2>1, <3>1, <3>2 DEF Request
      <3>4. Chain(h)'  BY <3>1 DEF Chain
      <3>5. Matches(h)'
        <4>1. \A r \in rows' : r.grant # h  BY <1>2, <2>3
        <4> QED  BY <3>2, <4>1 DEF Matches
      <3>6. Ended(h)'  BY <1>2, <2>1, <2>2, <3>1, <3>2 DEF Ended
      <3>7. Stays(h)
        <4>1. \A n : Issued(h, n)'  BY <2>2, <3>1 DEF Issued
        <4>2. ASSUME NEW n \in Issues  PROVE Row("access", h, n) \notin rows'
          BY <1>2, <2>3 DEF Row
        <4> QED  BY <4>1, <4>2 DEF Stays
      <3> QED  BY <3>3, <3>4, <3>5, <3>6, <3>7
    <2>4. CASE h \notin OfClient(c)
      <3>1. agent'[h] = agent[h]  BY <1>4, <1>5, <2>4
      <3>2. Elsewhere(h)
        BY <1>2, <2>2, <2>4, <3>1, Typed DEF Elsewhere
      <3>3. rows \subseteq Rows  BY Typed
      <3>4. /\ \A kind : OfGrant(kind, h)' = OfGrant(kind, h) /\ Active(kind, h)' = Active(kind, h)
            /\ \A n : Issued(h, n)' <=> Issued(h, n)
            /\ Issuing(h)' <=> Issuing(h)
            /\ Stays(h)
        BY <3>2, <3>3, RowsElsewhere, IssuedElsewhere
      <3>5. Request(h)' /\ Chain(h)' /\ Ended(h)'
        BY <1>2, <2>1, <3>1, <3>4 DEF Request, Chain, Ended
      <3>6. Current(h) => Current(h)'
        <4> SUFFICES ASSUME Current(h)  PROVE Current(h)'
          OBVIOUS
        <4>1. request[h].client \in Clients \ {c}
          BY <2>4, Typed DEF Current, ClientEnabled, OfClient
        <4> QED  BY <1>2, <1>3, <3>1, <4>1 DEF Current, ClientEnabled, Enabled
      <3>7. Matches(h)'
        <4>1. rows' \subseteq rows  BY <1>2
        <4> QED  BY <2>1, <3>1, <3>6, <4>1 DEF Matches
      <3> QED  BY <3>4, <3>5, <3>7
    <2> QED  BY <2>3, <2>4
  <1>9. Token'  BY <1>2, <1>6 DEF Token
  <1>10. AgentsMoveOn  BY <1>4, <1>5 DEF AgentsMoveOn
  <1>11. ASSUME NEW k \in Calls, ~At(k, "idle")
        PROVE  /\ At(k, "run") /\ agent'[call[k].grant] = "revoked" =>
                    k \in cancelled' \/ (mutations' # Nothing /\ call[k].grant \in mutations')
               /\ call[k].pass = 2 /\ ~At(k, "introspect") /\ call[k].grant \in withdrawn' =>
                    k \in cancelled'
    <2>1. Affected(c) # Nothing  BY <1>4
    <2> QED  BY <1>2, <1>5, <1>11, <2>1, AsCancelled
  <1>12. \A k : At(k, "run") => ~At(k, "idle")  BY DEF At
  <1> QED  BY <1>2, <1>7, <1>8, <1>9, <1>10, <1>11, <1>12, Moves

LEMMA ChangeClientKeeps ==
  ASSUME GrantInv, NEW c \in Clients, ChangeClient(c)
  PROVE  GrantInv'
PROOF
  <1>1. client[c] \in [redirect: Redirects, enabled: BOOLEAN]
    BY Typed DEF ChangeClient
  <1>2. ASSUME NEW redirect \in Redirects
        PROVE  [client[c] EXCEPT !.redirect = redirect] \in [redirect: Redirects, enabled: BOOLEAN]
    BY <1>1
  <1>3. [client[c] EXCEPT !.enabled = ~@] \in [redirect: Redirects, enabled: BOOLEAN]
    BY <1>1
  <1> QED  BY <1>2, <1>3, SaveClientKeeps DEF ChangeClient

(***************************************************************************)
(* Steps on the rows of one grant                                          *)
(***************************************************************************)
Holders == [place: Places, kind: {"code", "refresh", "revoke", "client"},
            grant: Grants \union {Nothing}, n: Issues, known: BOOLEAN]

\* What Token says of the grant its holder works for.
Works(g) ==
  /\ agent[g] # "none"
  /\ tokenMu.place \in {"agent", "spend", "old access", "access", "refresh"} =>
       /\ Current(g)
       /\ tokenMu.kind \in {"code", "refresh"}
       /\ tokenMu.kind = "code" => tokenMu.n = 0
  /\ tokenMu.place \notin {"agent", "spend"} => Active("code", g) = {}
  /\ tokenMu.place \notin {"agent", "spend", "revoke refresh"} => Active("refresh", g) = {}
  /\ tokenMu.place = "access" => OfGrant("access", g) = {}
  /\ tokenMu.place = "refresh" => tokenMu.n < MaxIssues
  /\ tokenMu.place = "cancel" => g \in ended

LEMMA Holder ==
  ASSUME GrantInv, tokenMu # Nothing, tokenMu.place # "client"
  PROVE  tokenMu \in Holders /\ \E g \in Grants : g = tokenMu.grant /\ Works(g)
PROOF
  <1>1. tokenMu \in Holders  BY Typed DEF Holders
  <1>2. Token  BY DEF GrantInv
  <1>3. tokenMu.grant \in Grants /\ Works(tokenMu.grant)  BY <1>2 DEF Token, Works
  <1> QED  BY <1>1, <1>3

LEMMA TokenIs ==
  ASSUME NEW g \in Grants, tokenMu'.grant = g, Works(g)'
  PROVE  Token'
PROOF
  <1>1. /\ Current(tokenMu.grant)' <=> Current(g)'
        /\ \A kind : OfGrant(kind, tokenMu.grant)' = OfGrant(kind, g)'
        /\ \A kind : Active(kind, tokenMu.grant)' = Active(kind, g)'
    BY DEF Current, ClientEnabled, Enabled, OfGrant, Active
  <1> QED  BY <1>1 DEF Token, Works

\* While the grant's rows only get fewer, its holder stays where it was.
LEMMA TokenStays ==
  ASSUME GrantInv, UNCHANGED <<tokenMu, client, agent, request, generation, granted, ended>>,
         \A g \in Grants : /\ Active("code", g)' \subseteq Active("code", g)
                           /\ Active("refresh", g)' \subseteq Active("refresh", g)
                           /\ OfGrant("access", g)' \subseteq OfGrant("access", g)
  PROVE  Token'
PROOF
  <1> SUFFICES ASSUME tokenMu # Nothing, tokenMu.place # "client"  PROVE Token'
    BY DEF Token
  <1>1. PICK g \in Grants : g = tokenMu.grant /\ Works(g)  BY Holder
  <1>2. Current(g)' <=> Current(g)  BY DEF Current, ClientEnabled, Enabled
  <1>3. /\ Active("code", g) = {} => Active("code", g)' = {}
        /\ Active("refresh", g) = {} => Active("refresh", g)' = {}
        /\ OfGrant("access", g) = {} => OfGrant("access", g)' = {}
    OBVIOUS
  <1>4. Works(g)'  BY <1>1, <1>2, <1>3 DEF Works
  <1> QED  BY <1>1, <1>4, TokenIs

LEMMA RowMoves ==
  ASSUME GrantInv, NEW g \in Grants,
         rows' \subseteq Rows,
         \A r \in Rows : r.grant # g => (r \in rows' <=> r \in rows),
         \A r \in rows' : r.grant = g /\ r.kind # "consent" => agent[g] # "none",
         tokenMu' \in Holders \union {Nothing},
         \/ tokenMu' = tokenMu
         \/ \A h \in Grants \ {g} : ~Issuing(h) /\ ~Issuing(h)',
         UNCHANGED <<client, agent, request, mutations, call, cancelled, generation, granted,
                     withdrawn>>,
         preparing' \subseteq preparing, \A h \in Grants \ {g} : h \in preparing => h \in preparing',
         ended' \in {ended, ended \union {g}},
         Request(g)', Chain(g)', Matches(g)', Ended(g)', agent[g] # "none" => Stays(g), Token'
  PROVE  GrantInv'
PROOF
  <1>1. ASSUME NEW h \in Grants \ {g}  PROVE Elsewhere(h)
    BY DEF Elsewhere
  <1>2. \A h \in Grants \ {g} : Request(h)' /\ Chain(h)' /\ Matches(h)' /\ Ended(h)' /\ Stays(h)
    BY <1>1, GrantElsewhere
  <1>3. \A r \in rows' : r.kind # "consent" => agent[r.grant] # "none"
    BY Typed
  <1>4. TypeOK'
    <2>1. preparing' \subseteq Grants /\ ended' \subseteq Grants  BY Typed
    <2> QED  BY <1>3, <2>1, Typed DEF TypeOK, Holders
  <1> QED  BY <1>2, <1>4, QuietMoves

\* Of the grant's codes and tokens none is new.
Shrinks(g) ==
  \A r \in rows' : r.grant = g /\ r.kind # "consent" =>
    \/ r \in rows
    \/ /\ ~r.active /\ r.kind # "access"
       /\ \E q \in rows : q.grant = g /\ q.kind = r.kind /\ q.n = r.n

LEMMA ShrinkKeeps ==
  ASSUME GrantInv, NEW g \in Grants, rows' \subseteq Rows, Shrinks(g),
         \A r, q \in OfGrant("code", g)' : r = q,
         UNCHANGED <<client, agent, request, generation, granted, withdrawn>>,
         Issuing(g)' => /\ g \notin ended'
                        /\ \A n \in Issues : Issued(g, n) =>
                             n <= IF tokenMu'.place = "refresh" THEN tokenMu'.n + 1 ELSE tokenMu'.n
  PROVE  /\ Chain(g)' /\ Matches(g)' /\ Stays(g)
         /\ ended' = ended => Ended(g)'
         /\ \A r \in rows' : r.grant = g /\ r.kind # "consent" => agent[g] # "none"
         /\ \A kind \in {"code", "access", "refresh"} : Active(kind, g)' \subseteq Active(kind, g)
         /\ OfGrant("access", g)' \subseteq OfGrant("access", g)
PROOF
  <1>1. Chain(g) /\ Matches(g) /\ Ended(g)  BY DEF GrantInv
  <1>2. \A kind \in {"code", "access", "refresh"} : Active(kind, g)' \subseteq Active(kind, g)
    BY DEF Active, OfGrant, Shrinks
  <1>3. OfGrant("access", g)' \subseteq OfGrant("access", g)
    BY DEF OfGrant, Shrinks
  <1>4. \A kind \in {"code", "access", "refresh"} : \A r \in OfGrant(kind, g)' :
          \E q \in OfGrant(kind, g) : q.n = r.n
    BY DEF OfGrant, Shrinks
  <1>5. ASSUME NEW n \in Issues, Issued(g, n)  PROVE Issued(g, n)'
    <2>1. Active("code", g)' = {}  BY <1>2, <1>5 DEF Issued
    <2>2. \A r \in Active("refresh", g)' : n <= r.n  BY <1>2, <1>5 DEF Issued
    <2>3. Issuing(g)' => n <= IF tokenMu'.place = "refresh" THEN tokenMu'.n + 1 ELSE tokenMu'.n
      BY <1>5
    <2> QED  BY <2>1, <2>2, <2>3 DEF Issued
  <1>6. Chain(g)'
    <2>1. ASSUME NEW r \in OfGrant("access", g)'  PROVE r.active /\ Issued(g, r.n)'
      <3>1. PICK n \in Issues : n = r.n  BY <1>3, Typed DEF OfGrant, Rows
      <3>2. r.active /\ Issued(g, n)  BY <1>1, <1>3, <3>1 DEF Chain
      <3>3. Issued(g, n)'  BY <1>5, <3>2
      <3> QED  BY <3>1, <3>2, <3>3
    <2>2. \A r, q \in OfGrant("access", g)' : r.n = q.n  BY <1>1, <1>3 DEF Chain
    <2>3. \A r, q \in Active("refresh", g)' : r.n = q.n  BY <1>1, <1>2 DEF Chain
    <2>4. \A r \in OfGrant("code", g)' : r.n = 0  BY <1>1, <1>4 DEF Chain
    <2>5. OfGrant("refresh", g)' # {} => Active("code", g)' = {}
      BY <1>1, <1>2, <1>4 DEF Chain
    <2> QED  BY <2>1, <2>2, <2>3, <2>4, <2>5 DEF Chain
  <1>7. Matches(g)'
    <2>1. Current(g)' <=> Current(g)  BY DEF Current, ClientEnabled, Enabled
    <2>2. ASSUME NEW r \in rows', r.grant = g, r.kind \in {"code", "access", "refresh"}
          PROVE  \E q \in rows : q.grant = g /\ q.kind \in {"code", "access", "refresh"}
      BY <2>2 DEF Shrinks
    <2> QED  BY <1>1, <2>1, <2>2 DEF Matches
  <1>8. Stays(g)
    <2>1. ASSUME NEW n \in Issues
          PROVE  Row("access", g, n) \notin rows => Row("access", g, n) \notin rows'
      <3>1. Row("access", g, n).grant = g /\ Row("access", g, n).kind = "access"
        BY DEF Row
      <3> QED  BY <3>1 DEF Shrinks
    <2> QED  BY <1>5, <2>1 DEF Stays
  <1>9. ended' = ended => Ended(g)'  BY <1>1, <1>2 DEF Ended
  <1>10. \A r \in rows' : r.grant = g /\ r.kind # "consent" => agent[g] # "none"
    BY Typed DEF Shrinks
  <1> QED  BY <1>2, <1>3, <1>6, <1>7, <1>8, <1>9, <1>10

LEMMA ShrinkMoves ==
  ASSUME GrantInv, NEW g \in Grants,
         rows' \subseteq Rows,
         \A r \in Rows : r.grant # g => (r \in rows' <=> r \in rows),
         Shrinks(g), \A r, q \in OfGrant("code", g)' : r = q,
         OfGrant("consent", g)' \subseteq OfGrant("consent", g),
         tokenMu' \in Holders \union {Nothing},
         \/ tokenMu' = tokenMu
         \/ \A h \in Grants \ {g} : ~Issuing(h) /\ ~Issuing(h)',
         UNCHANGED <<client, agent, request, preparing, mutations, call, cancelled, generation,
                     granted, ended, withdrawn>>,
         Issuing(g)' => /\ g \notin ended
                        /\ \A n \in Issues : Issued(g, n) =>
                             n <= IF tokenMu'.place = "refresh" THEN tokenMu'.n + 1 ELSE tokenMu'.n,
         Token'
  PROVE  GrantInv'
PROOF
  <1>1. /\ Chain(g)' /\ Matches(g)' /\ Stays(g) /\ Ended(g)'
        /\ \A r \in rows' : r.grant = g /\ r.kind # "consent" => agent[g] # "none"
    BY ShrinkKeeps
  <1>2. Request(g)'
    <2>1. Request(g)  BY DEF GrantInv
    <2> QED  BY <2>1 DEF Request
  <1> QED  BY <1>1, <1>2, RowMoves

LEMMA ExpireKeeps ==
  ASSUME GrantInv, NEW row \in rows, Expire(row)
  PROVE  GrantInv'
PROOF
  <1>1. /\ rows' = rows \ {row}
        /\ UNCHANGED <<client, agent, request, preparing, tokenMu, mutations, call, cancelled,
                       generation, granted, ended, withdrawn>>
    BY DEF Expire, calls, history
  <1>2. PICK g \in Grants : g = row.grant  BY Typed DEF Rows
  <1>3. Shrinks(g)  BY <1>1 DEF Shrinks
  <1>4. \A kind, h : /\ OfGrant(kind, h)' \subseteq OfGrant(kind, h)
                     /\ Active(kind, h)' \subseteq Active(kind, h)
    BY <1>1 DEF OfGrant, Active
  <1>5. \A r, q \in OfGrant("code", g)' : r = q  BY <1>4 DEF GrantInv, Chain
  <1>6. Issuing(g)' => /\ g \notin ended
                       /\ \A n \in Issues : Issued(g, n) =>
                            n <= IF tokenMu'.place = "refresh" THEN tokenMu'.n + 1 ELSE tokenMu'.n
    <2>1. Issuing(g)' <=> Issuing(g)  BY <1>1 DEF Issuing, Held
    <2>2. Ended(g)  BY DEF GrantInv
    <2> QED  BY <1>1, <2>1, <2>2 DEF Ended, Issued
  <1>7. Token'  BY <1>1, <1>4, TokenStays
  <1>8. /\ rows' \subseteq Rows /\ \A r \in Rows : r.grant # g => (r \in rows' <=> r \in rows)
    BY <1>1, <1>2, Typed
  <1>9. tokenMu' \in Holders \union {Nothing}  BY <1>1, Typed DEF Holders
  <1> QED  BY <1>1, <1>3, <1>4, <1>5, <1>6, <1>7, <1>8, <1>9, ShrinkMoves

\* Without a holder, or with one for g, none is for another grant.
LEMMA OneHolder ==
  ASSUME NEW g, tokenMu = Nothing \/ tokenMu.grant = g, tokenMu' = Nothing \/ tokenMu'.grant = g
  PROVE  \A h \in Grants \ {g} : ~Issuing(h) /\ ~Issuing(h)'
PROOF
  BY DEF Issuing, Held

LEMMA StoreRequestKeeps ==
  ASSUME GrantInv, NEW g \in Grants, StoreRequest(g)
  PROVE  GrantInv'
PROOF
  <1>1. PICK new : new = Row("consent", g, 0)  OBVIOUS
  <1>2. /\ g \in preparing /\ preparing' = preparing \ {g}
        /\ rows' \in {rows, rows \union {new}}
        /\ UNCHANGED <<client, agent, request, tokenMu, mutations, call, cancelled,
                       generation, granted, ended, withdrawn>>
    BY <1>1 DEF StoreRequest, calls, history
  <1>3. new \in Rows /\ new.grant = g /\ new.kind = "consent"
    BY <1>1 DEF Row, Rows, Issues
  <1>4. /\ rows' \subseteq Rows /\ rows \subseteq rows'
        /\ \A r \in rows' : r.kind # "consent" \/ r.grant # g => r \in rows
        /\ \A r \in Rows : r.grant # g => (r \in rows' <=> r \in rows)
    BY <1>2, <1>3, Typed
  <1>5. Shrinks(g)  BY <1>4 DEF Shrinks
  <1>6. \A kind \in {"code", "access", "refresh"} : \A h :
          /\ OfGrant(kind, h)' \subseteq OfGrant(kind, h)
          /\ Active(kind, h)' \subseteq Active(kind, h)
    BY <1>4 DEF OfGrant, Active
  <1>7. \A r, q \in OfGrant("code", g)' : r = q  BY <1>6 DEF GrantInv, Chain
  <1>8. Issuing(g)' => /\ g \notin ended'
                       /\ \A n \in Issues : Issued(g, n) =>
                            n <= IF tokenMu'.place = "refresh" THEN tokenMu'.n + 1 ELSE tokenMu'.n
    <2>1. Issuing(g)' <=> Issuing(g)  BY <1>2 DEF Issuing, Held
    <2>2. Ended(g)  BY DEF GrantInv
    <2> QED  BY <1>2, <2>1, <2>2 DEF Ended, Issued
  <1>9. /\ Chain(g)' /\ Matches(g)' /\ Stays(g) /\ Ended(g)'
        /\ \A r \in rows' : r.grant = g /\ r.kind # "consent" => agent[g] # "none"
    BY <1>2, <1>4, <1>5, <1>7, <1>8, ShrinkKeeps
  <1>10. Request(g)'
    <2>1. Request(g)  BY DEF GrantInv
    <2> QED  BY <1>2, <2>1 DEF Request
  <1>11. Token'  BY <1>2, <1>6, TokenStays
  <1>12. tokenMu' \in Holders \union {Nothing}  BY <1>2, Typed DEF Holders
  <1> QED  BY <1>2, <1>4, <1>9, <1>10, <1>11, <1>12, RowMoves

(***************************************************************************)
(* The token endpoint                                                      *)
(***************************************************************************)
\* A request for tokens is accepted, or found to be a replay or a revocation.
LEMMA PresentKeeps ==
  ASSUME GrantInv, NEW g \in Grants, NEW place \in {"agent", "revoke refresh"},
         NEW kind \in {"code", "refresh", "revoke"}, NEW n \in Issues, NEW known \in BOOLEAN,
         tokenMu = Nothing,
         tokenMu' = Nothing \/ Hold(place, kind, g, n, known),
         rows' \subseteq rows, \A r \in rows : r \in rows' \/ r.grant = g,
         UNCHANGED <<tokenFrame, ended>>,
         \E r \in rows : r.grant = g /\ r.kind \in {"code", "access", "refresh"},
         place = "agent" => kind \in {"code", "refresh"} /\ (kind = "code" => n = 0),
         place = "revoke refresh" => Active("code", g) = {}
  PROVE  GrantInv'
PROOF
  <1>1. UNCHANGED <<client, agent, request, preparing, mutations, call, cancelled, generation,
                    granted, ended, withdrawn>>
    BY DEF tokenFrame, calls
  <1>2. PICK held : held = [place |-> place, kind |-> kind, grant |-> g, n |-> n, known |-> known]
    OBVIOUS
  <1>3. /\ held \in Holders /\ held.place = place /\ held.kind = kind /\ held.grant = g
        /\ held.n = n
    BY <1>2 DEF Holders, Places
  <1>4. tokenMu' \in {Nothing, held}  BY <1>2 DEF Hold
  <1>5. ~Issuing(g)' /\ \A h \in Grants \ {g} : ~Issuing(h) /\ ~Issuing(h)'
    BY <1>3, <1>4 DEF Issuing, Held
  <1>6. \A a : /\ OfGrant(a, g)' \subseteq OfGrant(a, g)
               /\ Active(a, g)' \subseteq Active(a, g)
    BY DEF OfGrant, Active
  <1>7. \A r, q \in OfGrant("code", g)' : r = q  BY <1>6 DEF GrantInv, Chain
  <1>8. Token'
    <2>1. CASE tokenMu' = Nothing  BY <2>1 DEF Token
    <2>2. CASE tokenMu' = held
      <3>1. Matches(g)  BY DEF GrantInv
      <3>2. Current(g)'
        BY <1>1, <3>1 DEF Matches, Current, ClientEnabled, Enabled
      <3>3. agent[g] # "none"  BY Typed
      <3>4. Works(g)'
        BY <1>1, <1>3, <1>6, <2>2, <3>2, <3>3 DEF Works
      <3> QED  BY <1>3, <2>2, <3>4, TokenIs
    <2> QED  BY <1>4, <2>1, <2>2
  <1>9. Shrinks(g)  BY DEF Shrinks
  <1>10. /\ rows' \subseteq Rows /\ \A r \in Rows : r.grant # g => (r \in rows' <=> r \in rows)
    BY Typed
  <1> QED  BY <1>1, <1>3, <1>4, <1>5, <1>6, <1>7, <1>8, <1>9, <1>10, ShrinkMoves

LEMMA PresentCodeKeeps ==
  ASSUME GrantInv, NEW g \in Grants, PresentCode(g)
  PROVE  GrantInv'
PROOF
  <1>1. tokenMu = Nothing /\ UNCHANGED <<tokenFrame, ended>>  BY DEF PresentCode
  <1>2. PICK code \in OfGrant("code", g) :
          IF code.active
            THEN /\ rows' = rows \ OfGrant("pkce", g)
                 /\ Hold("agent", "code", g, 0, TRUE) \/ UNCHANGED tokenMu
            ELSE /\ Hold("revoke refresh", "code", g, 0, TRUE)
                 /\ UNCHANGED rows
    BY DEF PresentCode
  <1>3. code \in rows /\ code.grant = g /\ code.kind = "code"  BY DEF OfGrant
  <1>4. 0 \in Issues  BY DEF Issues
  <1>5. CASE code.active
    <2>1. /\ rows' = rows \ OfGrant("pkce", g)
          /\ Hold("agent", "code", g, 0, TRUE) \/ tokenMu' = Nothing
      BY <1>1, <1>2, <1>5
    <2>2. rows' \subseteq rows /\ \A r \in rows : r \in rows' \/ r.grant = g
      BY <2>1 DEF OfGrant
    <2> QED  BY <1>1, <1>3, <1>4, <2>1, <2>2, PresentKeeps
  <1>6. CASE ~code.active
    <2>1. UNCHANGED rows /\ Hold("revoke refresh", "code", g, 0, TRUE)
      BY <1>2, <1>6
    <2>2. Active("code", g) = {}
      BY <1>6 DEF GrantInv, Chain, Active
    <2> QED  BY <1>1, <1>3, <1>4, <2>1, <2>2, PresentKeeps
  <1> QED  BY <1>5, <1>6

LEMMA PresentRefreshKeeps ==
  ASSUME GrantInv, NEW g \in Grants, NEW n \in Issues, PresentRefresh(g, n)
  PROVE  GrantInv'
PROOF
  <1>1. tokenMu = Nothing /\ UNCHANGED <<tokenFrame, ended>>  BY DEF PresentRefresh
  <1>2. PICK refresh \in OfGrant("refresh", g) :
          IF refresh.active
            THEN Hold("agent", "refresh", g, n, TRUE) /\ UNCHANGED rows
            ELSE /\ Hold("revoke refresh", "refresh", g, n, TRUE)
                 /\ rows' \in {rows, rows \ {refresh}}
    BY DEF PresentRefresh
  <1>3. refresh \in rows /\ refresh.grant = g /\ refresh.kind = "refresh"  BY DEF OfGrant
  <1>4. Active("code", g) = {}  BY DEF GrantInv, Chain
  <1>5. /\ rows' \subseteq rows /\ \A r \in rows : r \in rows' \/ r.grant = g
        /\ \/ Hold("agent", "refresh", g, n, TRUE)
           \/ Hold("revoke refresh", "refresh", g, n, TRUE)
    BY <1>2, <1>3
  <1> QED  BY <1>1, <1>3, <1>4, <1>5, PresentKeeps

LEMMA RevokeKeeps ==
  ASSUME GrantInv, NEW g \in Grants, Revoke(g)
  PROVE  GrantInv'
PROOF
  <1>1. tokenMu = Nothing /\ UNCHANGED rows /\ UNCHANGED <<tokenFrame, ended>>  BY DEF Revoke
  <1>2. PICK r \in rows, known \in BOOLEAN :
          /\ r.grant = g /\ r.kind \in {"access", "refresh"}
          /\ Hold("revoke refresh", "revoke", g, r.n, known)
    BY DEF Revoke
  <1>3. r.n \in Issues  BY Typed DEF Rows
  <1>4. Active("code", g) = {}
    <2>1. Chain(g)  BY DEF GrantInv
    <2>2. CASE r.kind = "access"
      BY <1>2, <2>1, <2>2 DEF Chain, Issued, OfGrant
    <2>3. CASE r.kind = "refresh"
      BY <1>2, <2>1, <2>3 DEF Chain, OfGrant
    <2> QED  BY <1>2, <2>2, <2>3
  <1> QED  BY <1>1, <1>2, <1>3, <1>4, PresentKeeps

(***************************************************************************)
(* Steps of the token endpoint                                             *)
(***************************************************************************)
LEMMA SpentRow ==
  ASSUME NEW r \in Rows
  PROVE  /\ Spent(r) \in Rows /\ Spent(r).grant = r.grant /\ Spent(r).kind = r.kind
         /\ Spent(r).n = r.n /\ ~Spent(r).active
PROOF
  BY DEF Spent, Rows

LEMMA SameRow ==
  ASSUME NEW r \in Rows, NEW q \in Rows,
         r.kind = q.kind, r.grant = q.grant, r.n = q.n, r.active, q.active
  PROVE  r = q
PROOF
  <1>1. r.active = TRUE /\ q.active = TRUE  BY DEF Rows
  <1>2. /\ r = [kind |-> r.kind, grant |-> r.grant, n |-> r.n, active |-> r.active]
        /\ q = [kind |-> q.kind, grant |-> q.grant, n |-> q.n, active |-> q.active]
    BY DEF Rows
  <1> QED  BY <1>1, <1>2

\* A step of the holder: what it holds afterwards.
LEMMA HeldStep ==
  ASSUME GrantInv, UNCHANGED <<tokenFrame, ended>>,
         NEW g \in Grants, NEW held \in Holders, tokenMu = held, held.grant = g,
         tokenMu' \in Holders \union {Nothing}, tokenMu' = Nothing \/ tokenMu'.grant = g,
         rows' \subseteq Rows,
         \A r \in Rows : r.grant # g => (r \in rows' <=> r \in rows),
         Shrinks(g), \A r, q \in OfGrant("code", g)' : r = q,
         OfGrant("consent", g)' \subseteq OfGrant("consent", g),
         Issuing(g)' => /\ g \notin ended
                        /\ \A n \in Issues : Issued(g, n) =>
                             n <= IF tokenMu'.place = "refresh" THEN tokenMu'.n + 1 ELSE tokenMu'.n,
         tokenMu' = Nothing \/ Works(g)'
  PROVE  GrantInv'
PROOF
  <1>1. UNCHANGED <<client, agent, request, preparing, mutations, call, cancelled, generation,
                    granted, ended, withdrawn>>
    BY DEF tokenFrame, calls
  <1>2. \A h \in Grants \ {g} : ~Issuing(h) /\ ~Issuing(h)'
    BY OneHolder
  <1>3. Token'
    <2>1. CASE tokenMu' = Nothing  BY <2>1 DEF Token
    <2>2. CASE tokenMu' # Nothing  BY <2>2, TokenIs
    <2> QED  BY <2>1, <2>2
  <1> QED  BY <1>1, <1>2, <1>3, ShrinkMoves

LEMMA Proceeds ==
  ASSUME NEW held \in Holders, tokenMu = held, NEW place \in Places, Proceed(place)
  PROVE  /\ tokenMu' \in Holders /\ tokenMu'.place = place /\ tokenMu'.kind = held.kind
         /\ tokenMu'.grant = held.grant /\ tokenMu'.n = held.n /\ tokenMu'.known = held.known
PROOF
  BY DEF Proceed, Holders

LEMMA CheckAgentKeeps ==
  ASSUME GrantInv, CheckAgent
  PROVE  GrantInv'
PROOF
  <1>1. /\ tokenMu # Nothing /\ tokenMu.place = "agent" /\ Proceed("spend")
        /\ UNCHANGED rows /\ UNCHANGED <<tokenFrame, ended>>
    BY DEF CheckAgent, Holds
  <1>2. PICK held \in Holders, g \in Grants : held = tokenMu /\ held.grant = g /\ Works(g)
    BY <1>1, Holder
  <1>3. /\ tokenMu' \in Holders /\ tokenMu'.place = "spend" /\ tokenMu'.kind = held.kind
        /\ tokenMu'.grant = g /\ tokenMu'.n = held.n
    BY <1>1, <1>2, Proceeds DEF Places
  <1>4. \A kind, h : OfGrant(kind, h)' = OfGrant(kind, h) /\ Active(kind, h)' = Active(kind, h)
    BY <1>1 DEF OfGrant, Active
  <1>5. UNCHANGED <<client, agent, request, generation, granted>>  BY <1>1 DEF tokenFrame
  <1>6. Works(g)'
    <2>1. Current(g)' <=> Current(g)  BY <1>5 DEF Current, ClientEnabled, Enabled
    <2> QED  BY <1>1, <1>2, <1>3, <1>5, <2>1 DEF Works
  <1>7. ~Issuing(g)'  BY <1>3 DEF Issuing
  <1>8. \A r, q \in OfGrant("code", g)' : r = q  BY <1>4 DEF GrantInv, Chain
  <1>9. Shrinks(g)  BY <1>1 DEF Shrinks
  <1> QED  BY <1>1, <1>2, <1>3, <1>4, <1>6, <1>7, <1>8, <1>9, Typed, HeldStep

\* The code or the refresh token is used up, with what could be issued for it so far.
LEMMA SpendKeeps ==
  ASSUME GrantInv, Spend
  PROVE  GrantInv'
PROOF
  <1>1. /\ tokenMu # Nothing /\ tokenMu.place = "spend"
        /\ UNCHANGED <<tokenFrame, ended>>
    BY DEF Spend, Holds
  <1>2. PICK held \in Holders, g \in Grants : held = tokenMu /\ held.grant = g /\ Works(g)
    BY <1>1, Holder
  <1>3. PICK row : row = Row(held.kind, g, held.n)  OBVIOUS
  <1>4. /\ row \in rows /\ row.grant = g /\ row.kind = held.kind /\ row.n = held.n /\ row.active
    BY <1>2, <1>3 DEF Spend, Row
  <1>5. PICK spent : spent = Spent(row)  OBVIOUS
  <1>6. /\ spent \in Rows /\ spent.grant = g /\ spent.kind = row.kind /\ spent.n = row.n
        /\ ~spent.active
    <2>1. row \in Rows  BY <1>4, Typed
    <2> QED  BY <1>4, <1>5, <2>1, SpentRow
  <1>7. rows' = (rows \ {row}) \union {spent}
    BY <1>2, <1>3, <1>5 DEF Spend
  <1>8. PICK next \in {"old access", "access"} :
          Proceed(next) /\ next = IF held.kind = "refresh" THEN "old access" ELSE "access"
    BY <1>2 DEF Spend
  <1>9. /\ tokenMu' \in Holders /\ tokenMu'.place = next /\ tokenMu'.kind = held.kind
        /\ tokenMu'.grant = g /\ tokenMu'.n = held.n
    BY <1>2, <1>8, Proceeds DEF Places
  <1>10. held.kind \in {"code", "refresh"} /\ Current(g) /\ agent[g] # "none"
    BY <1>1, <1>2 DEF Works
  <1>11. Chain(g) /\ Ended(g)  BY DEF GrantInv
  <1>12. row \in Active(held.kind, g) /\ row \in OfGrant(held.kind, g)
    BY <1>4 DEF Active, OfGrant
  <1>13. /\ held.kind = "code" => OfGrant("refresh", g) = {} /\ OfGrant("access", g) = {}
         /\ held.kind = "refresh" => Active("code", g) = {}
    <2>1. held.kind = "code" => OfGrant("refresh", g) = {}
      BY <1>11, <1>12 DEF Chain
    <2>2. held.kind = "code" => OfGrant("access", g) = {}
      BY <1>11, <1>12 DEF Chain, Issued
    <2> QED  BY <1>11, <1>12, <2>1, <2>2 DEF Chain
  <1>14. \A a : /\ a # held.kind => OfGrant(a, g)' = OfGrant(a, g) /\ Active(a, g)' = Active(a, g)
                /\ OfGrant(held.kind, g)' \subseteq (OfGrant(held.kind, g) \ {row}) \union {spent}
                /\ Active(held.kind, g)' \subseteq Active(held.kind, g) \ {row}
    BY <1>4, <1>6, <1>7 DEF OfGrant, Active
  <1>15. Active(held.kind, g) = {row}
    <2>1. ASSUME NEW r \in Active(held.kind, g)  PROVE r = row
      <3>1. /\ r \in Rows /\ r.kind = held.kind /\ r.grant = g /\ r.active
            /\ row \in Rows
        BY <1>4, Typed DEF Active, OfGrant
      <3>2. r.n = row.n
        <4>1. CASE held.kind = "refresh"  BY <1>11, <1>12, <4>1 DEF Chain
        <4>2. CASE held.kind = "code"
          <5>1. r \in OfGrant("code", g) /\ row \in OfGrant("code", g)
            BY <1>12, <4>2 DEF Active
          <5> QED  BY <1>11, <5>1 DEF Chain
        <4> QED  BY <1>10, <4>1, <4>2
      <3> QED  BY <1>4, <3>1, <3>2, SameRow
    <2> QED  BY <1>12, <2>1
  <1>16. Active("code", g)' = {} /\ Active("refresh", g)' = {}
    <2>1. CASE held.kind = "refresh"
      BY <1>13, <1>14, <1>15, <2>1
    <2>2. CASE held.kind = "code"
      <3>1. Active("refresh", g) = {}  BY <1>13, <2>2 DEF Active
      <3> QED  BY <1>14, <1>15, <2>2, <3>1
    <2> QED  BY <1>10, <2>1, <2>2
  <1>17. UNCHANGED <<client, agent, request, generation, granted>>  BY <1>1 DEF tokenFrame
  <1>18. Works(g)'
    <2>1. Current(g)'  BY <1>10, <1>17 DEF Current, ClientEnabled, Enabled
    <2>2. next = "access" => OfGrant("access", g)' = {}
      BY <1>8, <1>10, <1>13, <1>14
    <2>3. held.kind = "code" => held.n = 0  BY <1>1, <1>2 DEF Works
    <2> QED  BY <1>8, <1>9, <1>10, <1>16, <1>17, <2>1, <2>2, <2>3 DEF Works
  <1>19. ASSUME NEW n \in Issues, Issued(g, n)  PROVE n <= tokenMu'.n
    <2>1. held.kind = "refresh"  BY <1>10, <1>12, <1>19 DEF Issued
    <2>2. n <= row.n  BY <1>12, <1>19, <2>1 DEF Issued
    <2> QED  BY <1>4, <1>9, <2>2
  <1>20. g \notin ended
    <2>1. held.kind \in {"code", "access", "refresh"}  BY <1>10
    <2> QED  BY <1>11, <1>12, <2>1 DEF Ended
  <1>21. \A r, q \in OfGrant("code", g)' : r = q
    <2>1. CASE held.kind = "code"
      <3>1. \A r \in OfGrant("code", g) : r = row  BY <1>11, <1>12, <2>1 DEF Chain
      <3>2. OfGrant("code", g)' \subseteq (OfGrant("code", g) \ {row}) \union {spent}
        BY <1>14, <2>1
      <3>3. \A r \in OfGrant("code", g)' : r = spent  BY <3>1, <3>2
      <3> QED  BY <3>3
    <2>2. CASE held.kind = "refresh"  BY <1>11, <1>14, <2>2 DEF Chain
    <2> QED  BY <1>10, <2>1, <2>2
  <1>22. Shrinks(g)  BY <1>4, <1>6, <1>7, <1>10 DEF Shrinks
  <1>23. /\ rows' \subseteq Rows /\ \A r \in Rows : r.grant # g => (r \in rows' <=> r \in rows)
         /\ OfGrant("consent", g)' \subseteq OfGrant("consent", g)
    BY <1>4, <1>6, <1>7, <1>10, <1>14, Typed
  <1>24. Issuing(g)' => /\ g \notin ended
                        /\ \A n \in Issues : Issued(g, n) =>
                             n <= IF tokenMu'.place = "refresh" THEN tokenMu'.n + 1 ELSE tokenMu'.n
    BY <1>9, <1>19, <1>20
  <1> QED  BY <1>1, <1>2, <1>9, <1>18, <1>21, <1>22, <1>23, <1>24, HeldStep

\* Rows of a grant are deleted, and the holder goes on or lets go.
LEMMA DropKeeps ==
  ASSUME GrantInv, NEW g \in Grants, NEW held \in Holders, tokenMu = held, held.grant = g,
         held.place # "client", UNCHANGED <<tokenFrame, ended>>,
         rows' \subseteq rows, \A r \in rows : r \in rows' \/ r.grant = g,
         tokenMu' \in Holders \union {Nothing}, tokenMu' = Nothing \/ tokenMu'.grant = g,
         Issuing(g)' => Issuing(g) /\ tokenMu'.n = tokenMu.n /\ tokenMu'.place # "refresh"
                          /\ tokenMu.place # "refresh",
         tokenMu' = Nothing \/ Works(g)'
  PROVE  GrantInv'
PROOF
  <1>1. Shrinks(g)  BY DEF Shrinks
  <1>2. OfGrant("code", g)' \subseteq OfGrant("code", g)
        /\ OfGrant("consent", g)' \subseteq OfGrant("consent", g)
    BY DEF OfGrant
  <1>3. \A r, q \in OfGrant("code", g)' : r = q  BY <1>2 DEF GrantInv, Chain
  <1>4. Issuing(g) => g \notin ended  BY DEF GrantInv, Ended
  <1>5. Issuing(g)' => /\ g \notin ended
                       /\ \A n \in Issues : Issued(g, n) =>
                            n <= IF tokenMu'.place = "refresh" THEN tokenMu'.n + 1 ELSE tokenMu'.n
    BY <1>4 DEF Issued
  <1> QED  BY <1>1, <1>2, <1>3, <1>5, Typed, HeldStep

LEMMA RetireAccessKeeps ==
  ASSUME GrantInv, RetireAccess
  PROVE  GrantInv'
PROOF
  <1>1. /\ tokenMu # Nothing /\ tokenMu.place = "old access" /\ Proceed("access")
        /\ UNCHANGED <<tokenFrame, ended>>
    BY DEF RetireAccess, Holds
  <1>2. PICK held \in Holders, g \in Grants : held = tokenMu /\ held.grant = g /\ Works(g)
    BY <1>1, Holder
  <1>3. /\ tokenMu' \in Holders /\ tokenMu'.place = "access" /\ tokenMu'.kind = held.kind
        /\ tokenMu'.grant = g /\ tokenMu'.n = held.n
    BY <1>1, <1>2, Proceeds DEF Places
  <1>4. rows' = rows \ OfGrant("access", g)
    BY <1>2 DEF RetireAccess, WithoutAccess
  <1>5. /\ rows' \subseteq rows /\ \A r \in rows : r \in rows' \/ r.grant = g
        /\ OfGrant("access", g)' = {}
        /\ \A a : Active(a, g)' \subseteq Active(a, g)
    BY <1>4 DEF OfGrant, Active
  <1>6. UNCHANGED <<client, agent, request, generation, granted>>  BY <1>1 DEF tokenFrame
  <1>7. Works(g)'
    <2>1. Current(g)' <=> Current(g)  BY <1>6 DEF Current, ClientEnabled, Enabled
    <2>2. Active("code", g)' = {} /\ Active("refresh", g)' = {}
      BY <1>1, <1>2, <1>5 DEF Works
    <2> QED  BY <1>1, <1>2, <1>3, <1>5, <1>6, <2>1, <2>2 DEF Works
  <1>8. Issuing(g)  BY <1>1, <1>2 DEF Issuing, Held
  <1> QED  BY <1>1, <1>2, <1>3, <1>5, <1>7, <1>8, DropKeeps

LEMMA TokenFailsKeeps ==
  ASSUME GrantInv, TokenFails
  PROVE  GrantInv'
PROOF
  <1>1. /\ tokenMu # Nothing /\ tokenMu.place # "client" /\ tokenMu' = Nothing
        /\ UNCHANGED rows /\ UNCHANGED <<tokenFrame, ended>>
    BY DEF TokenFails
  <1>2. PICK held \in Holders, g \in Grants : held = tokenMu /\ held.grant = g
    BY <1>1, Holder
  <1>3. ~Issuing(g)'  BY <1>1 DEF Issuing, Held
  <1> QED  BY <1>1, <1>2, <1>3, DropKeeps

LEMMA RevokeRefreshKeeps ==
  ASSUME GrantInv, RevokeRefresh
  PROVE  GrantInv'
PROOF
  <1>1. /\ tokenMu # Nothing /\ tokenMu.place = "revoke refresh" /\ Proceed("revoke access")
        /\ UNCHANGED <<tokenFrame, ended>>
    BY DEF RevokeRefresh, Holds
  <1>2. PICK held \in Holders, g \in Grants : held = tokenMu /\ held.grant = g /\ Works(g)
    BY <1>1, Holder
  <1>3. /\ tokenMu' \in Holders /\ tokenMu'.place = "revoke access" /\ tokenMu'.kind = held.kind
        /\ tokenMu'.grant = g /\ tokenMu'.n = held.n
    BY <1>1, <1>2, Proceeds DEF Places
  <1>4. rows' = (rows \ OfGrant("refresh", g)) \union {Spent(r) : r \in OfGrant("refresh", g)}
    BY <1>2 DEF RevokeRefresh, WithoutRefresh
  <1>5. \A r \in OfGrant("refresh", g) :
          /\ r \in rows /\ Spent(r) \in Rows /\ Spent(r).grant = g /\ Spent(r).kind = "refresh"
          /\ Spent(r).n = r.n /\ ~Spent(r).active
    <2>1. \A r \in OfGrant("refresh", g) :
            r \in rows /\ r \in Rows /\ r.grant = g /\ r.kind = "refresh"
      BY Typed DEF OfGrant
    <2> QED  BY <2>1, SpentRow
  <1>6. /\ rows' \subseteq Rows /\ \A r \in Rows : r.grant # g => (r \in rows' <=> r \in rows)
        /\ \A r \in rows' : r.grant = g /\ r.kind # "refresh" => r \in rows
        /\ \A r \in rows' : r.grant = g /\ r.kind = "refresh" =>
             ~r.active /\ \E q \in OfGrant("refresh", g) : q.n = r.n
    <2>1. \A r \in rows : r \in OfGrant("refresh", g) <=> r.grant = g /\ r.kind = "refresh"
      BY DEF OfGrant
    <2> QED  BY <1>4, <1>5, <2>1, Typed
  <1>7. Shrinks(g)  BY <1>6 DEF Shrinks, OfGrant
  <1>8. /\ OfGrant("code", g)' \subseteq OfGrant("code", g)
        /\ OfGrant("consent", g)' \subseteq OfGrant("consent", g)
        /\ Active("code", g)' \subseteq Active("code", g)
        /\ Active("refresh", g)' = {}
    BY <1>6 DEF OfGrant, Active
  <1>9. UNCHANGED <<agent, ended>>  BY <1>1 DEF tokenFrame
  <1>10. Works(g)'  BY <1>1, <1>2, <1>3, <1>8, <1>9 DEF Works
  <1>11. ~Issuing(g)'  BY <1>3 DEF Issuing
  <1>12. \A r, q \in OfGrant("code", g)' : r = q  BY <1>8 DEF GrantInv, Chain
  <1> QED  BY <1>1, <1>2, <1>3, <1>6, <1>7, <1>8, <1>10, <1>11, <1>12, HeldStep

\* The grant has no usable token left, nor is one about to be issued.
LEMMA RevokeAccessKeeps ==
  ASSUME GrantInv, RevokeAccess
  PROVE  GrantInv'
PROOF
  <1>1. tokenMu # Nothing /\ tokenMu.place = "revoke access" /\ UNCHANGED tokenFrame
    BY DEF RevokeAccess, Holds
  <1>2. PICK held \in Holders, g \in Grants : held = tokenMu /\ held.grant = g /\ Works(g)
    BY <1>1, Holder
  <1>3. /\ rows' = rows \ OfGrant("access", g) /\ ended' = ended \union {g}
        /\ Proceed("cancel") \/ tokenMu' = Nothing
    BY <1>2 DEF RevokeAccess, WithoutAccess
  <1>4. \/ tokenMu' = Nothing
        \/ /\ tokenMu' \in Holders /\ tokenMu'.place = "cancel" /\ tokenMu'.kind = held.kind
           /\ tokenMu'.grant = g /\ tokenMu'.n = held.n
    BY <1>2, <1>3, Proceeds DEF Places
  <1>5. UNCHANGED <<client, agent, request, preparing, mutations, call, cancelled, generation,
                    granted, withdrawn>>
    BY <1>1 DEF tokenFrame, calls
  <1>6. /\ rows' \subseteq rows /\ rows' \subseteq Rows
        /\ \A r \in Rows : r.grant # g => (r \in rows' <=> r \in rows)
        /\ OfGrant("access", g)' = {}
        /\ \A a : /\ Active(a, g)' \subseteq Active(a, g)
                  /\ OfGrant(a, g)' \subseteq OfGrant(a, g)
    BY <1>3, Typed DEF OfGrant, Active
  <1>7. Active("code", g)' = {} /\ Active("refresh", g)' = {} /\ agent[g] # "none"
    BY <1>1, <1>2, <1>6 DEF Works
  <1>8. ~Issuing(g)' /\ \A h \in Grants \ {g} : ~Issuing(h) /\ ~Issuing(h)'
    <2>1. ~Issuing(g)'  BY <1>4 DEF Issuing, Held
    <2> QED  BY <1>2, <1>4, <2>1, OneHolder
  <1>9. Token'
    <2>1. CASE tokenMu' = Nothing  BY <2>1 DEF Token
    <2>2. CASE tokenMu' # Nothing
      <3>1. Works(g)'  BY <1>3, <1>4, <1>5, <1>7, <2>2 DEF Works
      <3> QED  BY <1>4, <2>2, <3>1, TokenIs
    <2> QED  BY <2>1, <2>2
  <1>10. Shrinks(g)  BY <1>6 DEF Shrinks
  <1>11. \A r, q \in OfGrant("code", g)' : r = q  BY <1>6 DEF GrantInv, Chain
  <1>12. Chain(g)' /\ Matches(g)' /\ Stays(g)
    BY <1>5, <1>6, <1>8, <1>10, <1>11, ShrinkKeeps
  <1>13. Request(g)'
    <2>1. Request(g)  BY DEF GrantInv
    <2> QED  BY <1>5, <1>6, <2>1 DEF Request
  <1>14. Ended(g)'
    <2>1. Active("access", g)' = {}  BY <1>6 DEF Active
    <2> QED  BY <1>3, <1>5, <1>7, <1>8, <2>1 DEF Ended
  <1>15. tokenMu' \in Holders \union {Nothing}  BY <1>4
  <1> QED
    BY <1>3, <1>5, <1>6, <1>7, <1>8, <1>9, <1>12, <1>13, <1>14, <1>15, RowMoves

\* A token may be issued only when its predecessors are gone.
LEMMA IssueAccessKeeps ==
  ASSUME GrantInv, IssueAccess
  PROVE  GrantInv'
PROOF
  <1>1. /\ tokenMu # Nothing /\ tokenMu.place = "access" /\ tokenMu.n < MaxIssues
        /\ UNCHANGED <<tokenFrame, ended>>
    BY DEF IssueAccess, Holds
  <1>2. PICK held \in Holders, g \in Grants : held = tokenMu /\ held.grant = g /\ Works(g)
    BY <1>1, Holder
  <1>3. PICK n \in Issues : n = held.n + 1
    <2>1. held.n \in Issues /\ held.n < MaxIssues  BY <1>1, <1>2 DEF Holders
    <2>2. held.n + 1 \in Issues  BY <2>1 DEF Issues
    <2> QED  BY <2>2
  <1>4. PICK row : row = Row("access", g, n)  OBVIOUS
  <1>5. row \in Rows /\ row.kind = "access" /\ row.grant = g /\ row.n = n /\ row.active
    BY <1>4 DEF Row, Rows
  <1>6. rows' = rows \union {row} /\ (Proceed("refresh") \/ tokenMu' = Nothing)
    BY <1>2, <1>3, <1>4 DEF IssueAccess
  <1>7. \/ tokenMu' = Nothing
        \/ /\ tokenMu' \in Holders /\ tokenMu'.place = "refresh" /\ tokenMu'.kind = held.kind
           /\ tokenMu'.grant = g /\ tokenMu'.n = held.n
    BY <1>2, <1>6, Proceeds DEF Places
  <1>8. /\ agent[g] # "none" /\ Current(g) /\ held.kind \in {"code", "refresh"}
        /\ held.kind = "code" => held.n = 0
        /\ Active("code", g) = {} /\ Active("refresh", g) = {} /\ OfGrant("access", g) = {}
        /\ held.n < MaxIssues
    BY <1>1, <1>2 DEF Works
  <1>9. UNCHANGED <<client, agent, request, preparing, mutations, call, cancelled, generation,
                    granted, ended, withdrawn>>
    BY <1>1 DEF tokenFrame, calls
  <1>10. /\ rows' \subseteq Rows /\ \A r \in Rows : r.grant # g => (r \in rows' <=> r \in rows)
         /\ OfGrant("access", g)' = {row} /\ Active("access", g)' = {row}
         /\ \A a : a # "access" => OfGrant(a, g)' = OfGrant(a, g) /\ Active(a, g)' = Active(a, g)
    <2>1. OfGrant("access", g)' = OfGrant("access", g) \union {row}
      BY <1>5, <1>6 DEF OfGrant
    <2>2. OfGrant("access", g)' = {row}  BY <1>8, <2>1
    <2>3. Active("access", g)' = {row}  BY <1>5, <2>2 DEF Active
    <2> QED  BY <1>5, <1>6, <2>2, <2>3, Typed DEF OfGrant, Active
  <1>11. /\ Issuing(g)
         /\ Issuing(g)' => tokenMu'.place = "refresh" /\ tokenMu'.n = held.n
    BY <1>1, <1>2, <1>7 DEF Issuing, Held
  <1>12. Issued(g, n)'
    <2>1. Active("code", g)' = {} /\ Active("refresh", g)' = {}  BY <1>8, <1>10
    <2> QED  BY <1>3, <1>11, <2>1 DEF Issued, Issues
  <1>13. Request(g) /\ Chain(g) /\ Ended(g)  BY DEF GrantInv
  <1>14. Chain(g)'
    <2>1. \A r \in OfGrant("access", g)' : r.active /\ Issued(g, r.n)'
      <3>1. Issued(g, row.n)'  BY <1>5, <1>12
      <3> QED  BY <1>5, <1>10, <3>1
    <2>2. \A r, q \in OfGrant("access", g)' : r.n = q.n  BY <1>10
    <2> QED  BY <1>8, <1>10, <1>13, <2>1, <2>2 DEF Chain
  <1>15. Stays(g)
    <2> SUFFICES ASSUME NEW m \in Issues, Issued(g, m)
                 PROVE  /\ Issued(g, m)'
                        /\ Row("access", g, m) \notin rows => Row("access", g, m) \notin rows'
      BY DEF Stays
    <2>1. m <= held.n  BY <1>1, <1>2, <1>11 DEF Issued
    <2>2. Issued(g, m)'
      <3>1. Active("code", g)' = {} /\ Active("refresh", g)' = {}  BY <1>8, <1>10
      <3>2. held.n \in Nat /\ m \in Nat  BY DEF Holders, Issues
      <3> QED  BY <1>11, <2>1, <3>1, <3>2 DEF Issued
    <2>3. Row("access", g, m) # row
      <3>1. m # n
        <4>1. held.n \in Nat /\ m \in Nat  BY DEF Holders, Issues
        <4> QED  BY <1>3, <2>1, <4>1
      <3> QED  BY <1>5, <3>1 DEF Row
    <2> QED  BY <1>6, <2>2, <2>3
  <1>16. Request(g)'
    <2>1. OfGrant("consent", g)' = OfGrant("consent", g)  BY <1>10
    <2> QED  BY <1>9, <1>13, <2>1 DEF Request
  <1>17. Current(g)'  BY <1>8, <1>9 DEF Current, ClientEnabled, Enabled
  <1>18. Matches(g)'  BY <1>17 DEF Matches
  <1>19. g \notin ended  BY <1>11, <1>13 DEF Ended
  <1>20. Ended(g)'
    <2>1. g \notin withdrawn  BY <1>13, <1>19 DEF Ended
    <2> QED  BY <1>9, <1>19, <2>1 DEF Ended
  <1>21. Token'
    <2>1. CASE tokenMu' = Nothing  BY <2>1 DEF Token
    <2>2. CASE tokenMu' # Nothing
      <3>1. Active("code", g)' = {} /\ Active("refresh", g)' = {}  BY <1>8, <1>10
      <3>2. Works(g)'
        BY <1>7, <1>8, <1>9, <1>17, <2>2, <3>1 DEF Works
      <3> QED  BY <1>7, <2>2, <3>2, TokenIs
    <2> QED  BY <2>1, <2>2
  <1>22. \A h \in Grants \ {g} : ~Issuing(h) /\ ~Issuing(h)'
    BY <1>2, <1>7, OneHolder
  <1>23. tokenMu' \in Holders \union {Nothing}  BY <1>7
  <1>24. \A r \in rows' : r.grant = g /\ r.kind # "consent" => agent[g] # "none"
    BY <1>8
  <1> QED
    BY <1>9, <1>10, <1>14, <1>15, <1>16, <1>18, <1>20, <1>21, <1>22, <1>23, <1>24, RowMoves

LEMMA IssueRefreshKeeps ==
  ASSUME GrantInv, IssueRefresh
  PROVE  GrantInv'
PROOF
  <1>1. /\ tokenMu # Nothing /\ tokenMu.place = "refresh" /\ tokenMu' = Nothing
        /\ UNCHANGED <<tokenFrame, ended>>
    BY DEF IssueRefresh, Holds
  <1>2. PICK held \in Holders, g \in Grants : held = tokenMu /\ held.grant = g /\ Works(g)
    BY <1>1, Holder
  <1>3. /\ agent[g] # "none" /\ Current(g) /\ held.n < MaxIssues
        /\ Active("code", g) = {} /\ Active("refresh", g) = {}
    BY <1>1, <1>2 DEF Works
  <1>4. PICK n \in Issues : n = held.n + 1
    <2>1. held.n \in Issues  BY DEF Holders
    <2>2. held.n + 1 \in Issues  BY <1>3, <2>1 DEF Issues
    <2> QED  BY <2>2
  <1>5. PICK row : row = Row("refresh", g, n)  OBVIOUS
  <1>6. row \in Rows /\ row.kind = "refresh" /\ row.grant = g /\ row.n = n /\ row.active
    BY <1>5 DEF Row, Rows
  <1>7. rows' = rows \union {row}
    BY <1>2, <1>4, <1>5 DEF IssueRefresh
  <1>8. UNCHANGED <<client, agent, request, preparing, mutations, call, cancelled, generation,
                    granted, ended, withdrawn>>
    BY <1>1 DEF tokenFrame, calls
  <1>9. /\ rows' \subseteq Rows /\ \A r \in Rows : r.grant # g => (r \in rows' <=> r \in rows)
        /\ Active("refresh", g)' = {row}
        /\ \A a : a # "refresh" => OfGrant(a, g)' = OfGrant(a, g) /\ Active(a, g)' = Active(a, g)
    <2>1. Active("refresh", g)' = Active("refresh", g) \union {row}
      BY <1>6, <1>7 DEF OfGrant, Active
    <2>2. Active("refresh", g)' = {row}  BY <1>3, <2>1
    <2> QED  BY <1>6, <1>7, <2>2, Typed DEF OfGrant, Active
  <1>10. Issuing(g) /\ ~Issuing(g)'
    BY <1>1, <1>2 DEF Issuing, Held
  <1>11. Request(g) /\ Chain(g) /\ Ended(g)  BY DEF GrantInv
  <1>12. ASSUME NEW m \in Issues, Issued(g, m)  PROVE Issued(g, m)'
    <2>1. m <= n  BY <1>1, <1>2, <1>4, <1>10, <1>12 DEF Issued
    <2>2. Active("code", g)' = {}  BY <1>3, <1>9
    <2>3. \A r \in Active("refresh", g)' : m <= r.n  BY <1>6, <1>9, <2>1
    <2> QED  BY <1>10, <2>2, <2>3 DEF Issued
  <1>13. Chain(g)'
    <2>1. ASSUME NEW r \in OfGrant("access", g)'  PROVE r.active /\ Issued(g, r.n)'
      <3>1. r \in OfGrant("access", g)  BY <1>9
      <3>2. PICK m \in Issues : m = r.n  BY <3>1, Typed DEF OfGrant, Rows
      <3>3. r.active /\ Issued(g, m)  BY <1>11, <3>1, <3>2 DEF Chain
      <3>4. Issued(g, m)'  BY <1>12, <3>3
      <3> QED  BY <3>2, <3>3, <3>4
    <2>2. \A r, q \in OfGrant("access", g)' : r.n = q.n  BY <1>9, <1>11 DEF Chain
    <2>3. \A r, q \in Active("refresh", g)' : r.n = q.n  BY <1>9
    <2>4. Active("code", g)' = {}  BY <1>3, <1>9
    <2>5. OfGrant("code", g)' = OfGrant("code", g)  BY <1>9
    <2> QED  BY <1>11, <2>1, <2>2, <2>3, <2>4, <2>5 DEF Chain
  <1>14. Stays(g)
    <2>1. ASSUME NEW m \in Issues
          PROVE  Row("access", g, m) \notin rows => Row("access", g, m) \notin rows'
      <3>1. Row("access", g, m) # row  BY <1>6 DEF Row
      <3> QED  BY <1>7, <3>1
    <2> QED  BY <1>12, <2>1 DEF Stays
  <1>15. Request(g)'
    <2>1. OfGrant("consent", g)' = OfGrant("consent", g)  BY <1>9
    <2> QED  BY <1>8, <1>11, <2>1 DEF Request
  <1>16. Current(g)'  BY <1>3, <1>8 DEF Current, ClientEnabled, Enabled
  <1>17. Matches(g)'  BY <1>16 DEF Matches
  <1>18. g \notin ended /\ g \notin withdrawn  BY <1>10, <1>11 DEF Ended
  <1>19. Ended(g)'  BY <1>8, <1>18 DEF Ended
  <1>20. Token'  BY <1>1 DEF Token
  <1>21. \A h \in Grants \ {g} : ~Issuing(h) /\ ~Issuing(h)'
    BY <1>1, <1>2, OneHolder
  <1>22. \A r \in rows' : r.grant = g /\ r.kind # "consent" => agent[g] # "none"
    BY <1>3
  <1> QED
    BY <1>1, <1>8, <1>9, <1>13, <1>14, <1>15, <1>17, <1>19, <1>20, <1>21, <1>22, RowMoves

\* The end of a revocation reaches the calls that were looked at a second time.
LEMMA CancelRevokedKeeps ==
  ASSUME GrantInv, CancelRevoked
  PROVE  GrantInv'
PROOF
  <1>1. tokenMu # Nothing /\ tokenMu.place = "cancel" /\ tokenMu' = Nothing
    BY DEF CancelRevoked, Holds
  <1>2. PICK held \in Holders, g \in Grants : held = tokenMu /\ held.grant = g /\ Works(g)
    BY <1>1, Holder
  <1>3. /\ cancelled' = cancelled \union Jobs(g) /\ withdrawn' = withdrawn \union {g}
        /\ UNCHANGED <<client, rows, agent, request, preparing, mutations, call, generation,
                       granted, ended>>
    BY <1>2 DEF CancelRevoked, tables
  <1>4. g \in ended  BY <1>1, <1>2 DEF Works
  <1>5. \A h \in Grants : ~Issuing(h) /\ ~Issuing(h)'
    BY <1>1 DEF Issuing, Held
  <1>6. \A h \in Grants \ {g} : Elsewhere(h)
    BY <1>3, <1>5, Typed DEF Elsewhere
  <1>7. \A h \in Grants \ {g} : Request(h)' /\ Chain(h)' /\ Matches(h)' /\ Ended(h)' /\ Stays(h)
    BY <1>3, <1>6, GrantElsewhere
  <1>8. Request(g)' /\ Chain(g)' /\ Matches(g)' /\ Ended(g)' /\ Stays(g)
    <2>1. \A kind : OfGrant(kind, g)' = OfGrant(kind, g) /\ Active(kind, g)' = Active(kind, g)
      BY <1>3 DEF OfGrant, Active
    <2>2. \A n : Issued(g, n)' <=> Issued(g, n)  BY <1>5, <2>1 DEF Issued
    <2>3. Request(g) /\ Chain(g) /\ Matches(g) /\ Ended(g)  BY DEF GrantInv
    <2>4. Request(g)'  BY <1>3, <2>1, <2>3 DEF Request
    <2>5. Chain(g)'  BY <2>1, <2>2, <2>3 DEF Chain
    <2>6. Matches(g)'
      BY <1>3, <2>3 DEF Matches, Current, ClientEnabled, Enabled
    <2>7. Ended(g)'  BY <1>3, <1>4, <1>5, <2>1, <2>3 DEF Ended
    <2>8. Stays(g)  BY <1>3, <2>2 DEF Stays
    <2> QED  BY <2>4, <2>5, <2>6, <2>7, <2>8
  <1>9. Jobs(g) \subseteq Calls  BY DEF Jobs
  <1>10. TypeOK'
    <2>1. cancelled' \subseteq Calls /\ withdrawn' \subseteq Grants  BY <1>3, <1>9, Typed
    <2> QED  BY <1>1, <1>3, <2>1, Typed DEF TypeOK
  <1>11. Token'  BY <1>1 DEF Token
  <1>12. AgentsMoveOn  BY <1>3 DEF AgentsMoveOn
  <1>13. ASSUME NEW c \in Calls, ~At(c, "idle")
         PROVE  /\ At(c, "run") /\ agent'[call[c].grant] = "revoked" =>
                     c \in cancelled' \/ (mutations' # Nothing /\ call[c].grant \in mutations')
                /\ call[c].pass = 2 /\ ~At(c, "introspect") /\ call[c].grant \in withdrawn' =>
                     c \in cancelled'
    <2>1. call[c].pass = 2 /\ call[c].grant = g => c \in Jobs(g)  BY DEF Jobs
    <2> QED  BY <1>3, <1>13, <2>1, AsCancelled
  <1>14. \A c : At(c, "run") => ~At(c, "idle")  BY DEF At
  <1>15. UNCHANGED call /\ cancelled \subseteq cancelled'  BY <1>3
  <1> QED  BY <1>7, <1>8, <1>10, <1>11, <1>12, <1>13, <1>14, <1>15, Moves

(***************************************************************************)
(* Consent                                                                 *)
(***************************************************************************)
LEMMA ConsentKeeps ==
  ASSUME GrantInv, NEW g \in Grants, Consent(g)
  PROVE  GrantInv'
PROOF
  <1>1. /\ tokenMu = Nothing /\ tokenMu' = Nothing /\ mutations = Nothing
        /\ OfGrant("consent", g) # {} /\ ClientEnabled(g)
        /\ client[request[g].client].redirect = request[g].redirect
        /\ UNCHANGED <<client, request, preparing, mutations, call, cancelled, generation,
                       ended, withdrawn>>
    BY DEF Consent, calls
  <1>2. PICK undecided : undecided = rows \ OfGrant("consent", g)  OBVIOUS
  <1>3. \/ rows' = undecided /\ UNCHANGED <<agent, granted>>
        \/ /\ rows' \in {undecided, undecided \union {Row("code", g, 0)},
                         undecided \union {Row("code", g, 0), Row("pkce", g, 0)}}
           /\ agent' = [agent EXCEPT ![g] = "enabled"]
           /\ granted' = [granted EXCEPT ![g] = generation[request[g].client]]
    BY <1>2 DEF Consent
  <1>4. Request(g) /\ Chain(g) /\ Matches(g) /\ Ended(g)  BY DEF GrantInv
  <1>5. agent[g] = "none" /\ request[g] # Nothing /\ g \notin preparing
    BY <1>1, <1>4 DEF Request
  <1>6. \A r \in undecided : r \in rows /\ r.grant # g
    BY <1>2, <1>5, Typed DEF OfGrant
  <1>7. /\ \A r \in rows : r.grant # g => r \in undecided
        /\ \A h \in Grants : ~Issuing(h) /\ ~Issuing(h)'
    BY <1>1, <1>2 DEF OfGrant, Issuing, Held
  <1>8. CASE rows' = undecided /\ UNCHANGED <<agent, granted>>
    <2>1. Shrinks(g)  BY <1>6, <1>8 DEF Shrinks
    <2>2. \A kind : OfGrant(kind, g)' = {}  BY <1>6, <1>8 DEF OfGrant
    <2>3. Token'  BY <1>1 DEF Token
    <2>4. rows' \subseteq Rows /\ \A r \in Rows : r.grant # g => (r \in rows' <=> r \in rows)
      BY <1>6, <1>7, <1>8, Typed
    <2> QED  BY <1>1, <1>7, <1>8, <2>1, <2>2, <2>3, <2>4, ShrinkMoves
  <1>9. CASE /\ rows' \in {undecided, undecided \union {Row("code", g, 0)},
                           undecided \union {Row("code", g, 0), Row("pkce", g, 0)}}
             /\ agent' = [agent EXCEPT ![g] = "enabled"]
             /\ granted' = [granted EXCEPT ![g] = generation[request[g].client]]
    <2>1. PICK code, pkce : code = Row("code", g, 0) /\ pkce = Row("pkce", g, 0)  OBVIOUS
    <2>2. /\ code \in Rows /\ code.kind = "code" /\ code.grant = g /\ code.n = 0 /\ code.active
          /\ pkce \in Rows /\ pkce.kind = "pkce" /\ pkce.grant = g
      BY <2>1 DEF Row, Rows, Issues
    <2>3. /\ rows' \subseteq undecided \union {code, pkce} /\ undecided \subseteq rows'
          /\ rows' \subseteq Rows
          /\ \A r \in Rows : r.grant # g => (r \in rows' <=> r \in rows)
      <3>1. rows' \subseteq undecided \union {code, pkce} /\ undecided \subseteq rows'
        BY <1>9, <2>1
      <3> QED  BY <1>6, <1>7, <2>2, <3>1, Typed
    <2>4. request[g].client \in Clients /\ generation[request[g].client] \in 0..MaxGenerations
      BY <1>5, Typed
    <2>5. /\ agent' \in [Grants -> {"none", "enabled", "paused", "revoked"}]
          /\ agent'[g] = "enabled" /\ \A h \in Grants \ {g} : agent'[h] = agent[h]
          /\ granted' \in [Grants -> 0..MaxGenerations \union {Nothing}]
          /\ granted'[g] = generation[request[g].client]
          /\ \A h \in Grants \ {g} : granted'[h] = granted[h]
      BY <1>9, <2>4, Typed
    <2>6. \A h \in Grants \ {g} : Elsewhere(h)
      BY <1>1, <2>3, <2>5 DEF Elsewhere
    <2>7. \A h \in Grants \ {g} : Request(h)' /\ Chain(h)' /\ Matches(h)' /\ Ended(h)' /\ Stays(h)
      BY <1>1, <2>6, GrantElsewhere
    <2>8. \A r \in rows' : r.grant = g => r \in {code, pkce}  BY <1>6, <2>3
    <2>9. /\ OfGrant("access", g)' = {} /\ OfGrant("refresh", g)' = {}
          /\ OfGrant("consent", g)' = {} /\ OfGrant("code", g)' \subseteq {code}
          /\ Active("refresh", g)' = {}
      BY <2>2, <2>8 DEF OfGrant, Active
    <2>10. Request(g)'  BY <1>1, <1>5, <2>5, <2>9 DEF Request
    <2>11. Chain(g)'  BY <2>2, <2>9 DEF Chain
    <2>12. Current(g)'
      BY <1>1, <2>5 DEF Current, ClientEnabled, Enabled
    <2>13. Matches(g)'  BY <2>12 DEF Matches
    <2>14. g \notin ended /\ g \notin withdrawn  BY <1>4, <1>5 DEF Ended
    <2>15. Ended(g)'  BY <1>1, <2>14 DEF Ended
    <2>16. Token'  BY <1>1 DEF Token
    <2>17. \A r \in rows' : r.kind # "consent" => agent'[r.grant] # "none"
      <3>1. \A r \in rows' : r.grant \in Grants  BY <2>3 DEF Rows
      <3>2. \A r \in rows' : r.grant # g => r \in rows  BY <2>3
      <3> QED  BY <2>5, <3>1, <3>2, Typed
    <2>18. TypeOK'  BY <1>1, <2>3, <2>5, <2>17, Typed DEF TypeOK
    <2>19. AgentsMoveOn  BY <1>5, <2>5 DEF AgentsMoveOn
    <2>20. ASSUME NEW c \in Calls, ~At(c, "idle")
           PROVE  /\ At(c, "run") /\ agent'[call[c].grant] = "revoked" =>
                       c \in cancelled' \/ (mutations' # Nothing /\ call[c].grant \in mutations')
                  /\ call[c].pass = 2 /\ ~At(c, "introspect") /\ call[c].grant \in withdrawn' =>
                       c \in cancelled'
      BY <1>1, <2>5, <2>20, AsCancelled
    <2>21. \A c : At(c, "run") => ~At(c, "idle")  BY DEF At
    <2>22. \A h \in Grants : agent[h] # "none" => Stays(h)  BY <1>5, <2>7
    <2> QED
      BY <1>1, <2>7, <2>10, <2>11, <2>13, <2>15, <2>16, <2>18, <2>19, <2>20, <2>21, <2>22, Moves
  <1> QED  BY <1>3, <1>8, <1>9

(***************************************************************************)
(* The invariant                                                           *)
(***************************************************************************)
LEMMA InitKeeps == Init => GrantInv
PROOF
  <1> SUFFICES ASSUME Init  PROVE GrantInv
    OBVIOUS
  <1>1. /\ client = [c \in Clients |-> Nothing] /\ request = [g \in Grants |-> Nothing]
        /\ preparing = {} /\ rows = {} /\ agent = [g \in Grants |-> "none"]
        /\ tokenMu = Nothing /\ mutations = Nothing /\ call = [c \in Calls |-> Idle]
        /\ cancelled = {} /\ generation = [c \in Clients |-> 0]
        /\ granted = [g \in Grants |-> Nothing] /\ ended = {} /\ withdrawn = {}
    BY DEF Init
  <1>2. Idle \in CallStates /\ Idle.stage = "idle"  BY DEF Idle, CallStates, Issues
  <1>3. TypeOK
    <2>1. call \in [Calls -> CallStates]  BY <1>1, <1>2
    <2> QED  BY <1>1, <2>1 DEF TypeOK, CallStates
  <1>4. \A kind, g : OfGrant(kind, g) = {} /\ Active(kind, g) = {}
    BY <1>1 DEF OfGrant, Active
  <1>5. ASSUME NEW g \in Grants  PROVE Request(g) /\ Chain(g) /\ Matches(g) /\ Ended(g)
    <2>1. Request(g)  BY <1>1, <1>4 DEF Request
    <2>2. Chain(g)  BY <1>4 DEF Chain
    <2>3. Matches(g)  BY <1>1 DEF Matches
    <2>4. Ended(g)  BY <1>1 DEF Ended
    <2> QED  BY <2>1, <2>2, <2>3, <2>4
  <1>6. Token  BY <1>1 DEF Token
  <1>7. \A c \in Calls : Call(c)  BY <1>1, <1>2 DEF Call, At
  <1> QED  BY <1>3, <1>5, <1>6, <1>7 DEF GrantInv

LEMMA StutterKeeps ==
  ASSUME GrantInv, UNCHANGED vars
  PROVE  GrantInv'
PROOF
  <1>1. UNCHANGED <<client, rows, agent, request, preparing, tokenMu, mutations, call, cancelled,
                    generation, granted, ended, withdrawn>>
    BY DEF vars, tables, calls, history
  <1>2. \A h \in Grants : Elsewhere(h)  BY <1>1, Typed DEF Elsewhere
  <1>3. \A h \in Grants : Request(h)' /\ Chain(h)' /\ Matches(h)' /\ Ended(h)' /\ Stays(h)
    BY <1>1, <1>2, GrantElsewhere
  <1>4. TypeOK'  BY <1>1, Typed DEF TypeOK
  <1>5. \A g \in Grants : /\ Active("code", g)' \subseteq Active("code", g)
                          /\ Active("refresh", g)' \subseteq Active("refresh", g)
                          /\ OfGrant("access", g)' \subseteq OfGrant("access", g)
    BY <1>1 DEF Active, OfGrant
  <1>6. Token'  BY <1>1, <1>5, TokenStays
  <1> QED  BY <1>1, <1>3, <1>4, <1>6, QuietMoves

LEMMA NextKeeps ==
  ASSUME GrantInv, [Next]_vars
  PROVE  GrantInv'
PROOF
  <1>1. CASE ClientStep
    <2>1. ASSUME NEW c \in Clients, ChangeClient(c)  PROVE GrantInv'
      BY <2>1, ChangeClientKeeps
    <2>2. ASSUME NEW c \in Clients, NEW redirect \in Redirects, Register(c, redirect)
          PROVE  GrantInv'
      BY <2>2, RegisterKeeps
    <2>3. ASSUME NEW c \in Clients, NEW redirect \in Redirects, NEW g \in Grants,
                 Prepare(g, c, redirect)
          PROVE  GrantInv'
      BY <2>3, PrepareKeeps
    <2> QED  BY <1>1, <2>1, <2>2, <2>3 DEF ClientStep
  <1>2. CASE TokenStep
    BY <1>2, CheckAgentKeeps, SpendKeeps, RetireAccessKeeps, IssueAccessKeeps,
       IssueRefreshKeeps, RevokeRefreshKeeps, RevokeAccessKeeps, CancelRevokedKeeps,
       TokenFailsKeeps
       DEF TokenStep
  <1>3. CASE CancelAgents  BY <1>3, CancelAgentsKeeps
  <1>4. ASSUME NEW g \in Grants, GrantStep(g)  PROVE GrantInv'
    <2>1. CASE \E n \in Issues : PresentRefresh(g, n)
      BY <2>1, PresentRefreshKeeps
    <2> QED
      BY <1>4, <2>1, StoreRequestKeeps, ConsentKeeps, AgentsKeep, PresentCodeKeeps, RevokeKeeps
         DEF GrantStep
  <1>5. ASSUME NEW row \in rows, Expire(row)  PROVE GrantInv'
    BY <1>5, ExpireKeeps
  <1>6. ASSUME NEW c \in Calls, CallStep(c)  PROVE GrantInv'
    <2>1. CASE \E g \in Grants, n \in Issues : Begin(c, g, n)
      BY <2>1, BeginKeeps
    <2> QED
      BY <1>6, <2>1, EndKeeps, ChecksKeep, RegisterJobKeeps, QueryEndsKeeps DEF CallStep
  <1>7. CASE UNCHANGED vars  BY <1>7, StutterKeeps
  <1> QED  BY <1>1, <1>2, <1>3, <1>4, <1>5, <1>6, <1>7 DEF Next

\* The rows, requests, Agents and calls of every grant fit together after any history.
THEOREM GrantInvariant == Spec => []GrantInv
PROOF
  <1>1. Init => GrantInv  BY InitKeeps
  <1>2. GrantInv /\ [Next]_vars => GrantInv'  BY NextKeeps
  <1> QED  BY <1>1, <1>2, PTL DEF Spec

(***************************************************************************)
(* The properties                                                          *)
(***************************************************************************)
LEMMA AtMostOne ==
  ASSUME NEW S, \A r, q \in S : r = q
  PROVE  Cardinality(S) <= 1
PROOF
  <1>1. CASE S = {}
    <2>1. Cardinality(S) = 0  BY <1>1, FS_EmptySet, Zenon
    <2> QED  BY <2>1
  <1>2. CASE S # {}
    <2>1. PICK r \in S : TRUE  BY <1>2
    <2>2. S = {r}  BY <2>1
    <2>3. Cardinality(S) = 1  BY <2>2, FS_Singleton, Zenon
    <2> QED  BY <2>3
  <1> QED  BY <1>1, <1>2

\* For any number of clients, grants and replays, wherever a token request fails between
\* two statements: a grant has at most one access token and one active refresh token,
\* and neither before its code was exchanged.
THEOREM GrantsHaveOneChain == Spec => []OneChain
PROOF
  <1>1. ASSUME GrantInv, NEW g \in Grants
        PROVE  /\ Cardinality(OfGrant("access", g)) <= 1
               /\ Cardinality({r \in OfGrant("refresh", g) : r.active}) <= 1
               /\ {r \in OfGrant("code", g) : r.active} # {} =>
                    /\ OfGrant("access", g) = {}
                    /\ {r \in OfGrant("refresh", g) : r.active} = {}
    <2>1. Chain(g)  BY <1>1 DEF GrantInv
    <2>2. \A kind : \A r \in OfGrant(kind, g) : r \in Rows /\ r.grant = g /\ r.kind = kind
      BY <1>1, Typed DEF OfGrant
    <2>3. \A r, q \in OfGrant("access", g) : r = q
      BY <2>1, <2>2, SameRow DEF Chain
    <2>4. \A r, q \in Active("refresh", g) : r = q
      <3>1. \A r \in Active("refresh", g) : r \in OfGrant("refresh", g) /\ r.active
        BY DEF Active
      <3> QED  BY <2>1, <2>2, <3>1, SameRow DEF Chain
    <2>5. Active("code", g) # {} => OfGrant("access", g) = {} /\ Active("refresh", g) = {}
      <3>1. Active("code", g) # {} => OfGrant("access", g) = {}
        BY <2>1 DEF Chain, Issued
      <3>2. Active("code", g) # {} => OfGrant("refresh", g) = {}
        BY <2>1 DEF Chain
      <3> QED  BY <3>1, <3>2 DEF Active
    <2> QED  BY <2>3, <2>4, <2>5, AtMostOne DEF Active
  <1>2. GrantInv => OneChain  BY <1>1 DEF OneChain, GrantInv
  <1> QED  BY <1>2, GrantInvariant, PTL

\* A replayed or revoked grant never has a usable token again, whatever token request
\* was under way before it.
THEOREM EndedGrantsStayUseless == Spec => []EndedGrantsAreUseless
PROOF
  <1>1. ASSUME GrantInv, NEW g \in ended  PROVE ~Usable(g)
    <2>1. g \in Grants  BY <1>1, Typed
    <2>2. ~Issuing(g) /\ \A kind \in {"code", "access", "refresh"} : Active(kind, g) = {}
      BY <1>1, <2>1 DEF GrantInv, Ended
    <2>3. \A r \in rows : r.grant = g /\ r.active =>
            r.kind \notin {"code", "access", "refresh"}
      BY <2>2 DEF Active, OfGrant
    <2> QED  BY <2>2, <2>3 DEF Usable, Issuing, Held
  <1>2. GrantInv => EndedGrantsAreUseless  BY <1>1 DEF EndedGrantsAreUseless
  <1> QED  BY <1>2, GrantInvariant, PTL

\* No code, token or Agent outlives an invalidating change of its client, for any
\* interleaving of consents, token requests and changes.
THEOREM GrantsEndWithTheirClients == Spec => []GrantsMatchClients
PROOF
  <1>1. ASSUME GrantInv, NEW g \in Grants
        PROVE  \/ agent[g] \in {"paused", "enabled"}
               \/ \E r \in rows : r.grant = g /\ r.kind \in {"code", "access", "refresh"}
               => Current(g)
    BY <1>1 DEF GrantInv, Matches
  <1>2. GrantInv => GrantsMatchClients
    BY <1>1 DEF GrantsMatchClients, Current
  <1> QED  BY <1>2, GrantInvariant, PTL

\* Once a revocation of a grant or its Agent is complete, every call that runs with its
\* tokens is cancelled, wherever the revocation fell between its authorizations.
THEOREM RevocationReachesEveryCall == Spec => []WithdrawnWorkIsCancelled
PROOF
  <1>1. ASSUME GrantInv, NEW c \in Calls, At(c, "run"),
               \/ call[c].grant \in withdrawn
               \/ agent[call[c].grant] = "revoked" /\ mutations = Nothing
        PROVE  c \in cancelled
    <2>1. ~At(c, "idle") /\ ~At(c, "introspect")  BY <1>1 DEF At
    <2> QED  BY <1>1, <2>1, AsCancelled
  <1>2. GrantInv => WithdrawnWorkIsCancelled  BY <1>1 DEF WithdrawnWorkIsCancelled
  <1> QED  BY <1>2, GrantInvariant, PTL

\* No call whose token was gone, or whose Agent was revoked, when its query ended
\* returns a result: the third authorization notices, because neither comes back.
THEOREM NoAnswerComesLate == Spec => NoLateAnswer
PROOF
  <1>1. ASSUME GrantInv, NEW c \in Calls, Answer(c)  PROVE ~call[c].late
    <2>1. At(c, "agent") /\ agent[call[c].grant] = "enabled"  BY <1>1 DEF Answer
    <2>2. Call(c)  BY <1>1 DEF GrantInv
    <2> QED  BY <2>1, <2>2 DEF Call, At
  <1>2. GrantInv /\ [Next]_vars => [\A c \in Calls : Answer(c) => ~call[c].late]_vars
    BY <1>1
  <1> QED  BY <1>2, GrantInvariant, PTL DEF Spec, NoLateAnswer
=============================================================================
