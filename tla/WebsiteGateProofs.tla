------------------------- MODULE WebsiteGateProofs -------------------------
(***************************************************************************)
(* For any visitors, URLs, hosts and internal addresses, any lives of      *)
(* sessions and tokens, and any order of requests, sign-ins, publications, *)
(* changes of the DNS, ticks and deployments, a hosted deployment fires    *)
(* only where the visitor who asked has shown ownership.  The invariant    *)
(* follows a token from the cookie it was issued to, over the place that   *)
(* shows it, to the gate.                                                  *)
(***************************************************************************)
EXTENDS WebsiteGate, TLAPS

\* A browser keeps the state it was sent away with and the session of its own visitor.
Signed ==
    \A v \in Visitor :
        /\ jar[v].state # None => jar[v].state.by = v
        /\ jar[v].session # None => jar[v].session.login = v

\* What a place publishes has been shown there.
Publicly == \A p \in Place : published[p] # None => <<p, published[p]>> \in shown

\* The token of a request has been shown where its URL is asked for it.
Shown(r) == \E p \in Places(r.site) : <<p, r.token>> \in shown

\* What a request carries, and that a host that resolves outside is on record as such.
Brought(r) ==
    /\ r.cookie # None => r.cookie.login = r.by
    /\ r.token # None => r.token \in tokens
    /\ r.arrived <= clock
    /\ Resolvable(HostOf[r.site]) => r.out

\* What the gate of a hosted deployment knows of it once it has looked it up.
Passed(r) ==
    /\ r.token # None
    /\ r.token.login = r.by /\ r.token.host = HostOf[r.site]
    /\ r.token.secret = deploy.secret
    /\ r.token.expires >= r.arrived

Gated(r) ==
    /\ r.at # "identify" => Passed(r)
    /\ r.at \in {"verify", "firing"} => HostOf[r.site] \notin Internal /\ r.out
    /\ r.at = "firing" => Shown(r)

Asked ==
    \A s \in Slot :
        req[s] # None => Brought(req[s]) /\ (~deploy.local => Gated(req[s]))

GateInv == TypeOK /\ Signed /\ Publicly /\ Asked

-----------------------------------------------------------------------------
LEMMA InitGate == Init => GateInv
<1> SUFFICES ASSUME Init PROVE GateInv
    OBVIOUS
<1>1. TypeOK
    BY DEF Init, TypeOK
<1>2. Signed /\ Publicly /\ Asked
    BY DEF Init, Signed, Publicly, Asked
<1> QED
    BY <1>1, <1>2 DEF GateInv

\* The seal of a visitor is a session of that visitor.
LEMMA SealTyped ==
    ASSUME TypeOK, NEW v \in Visitor, Key # None
    PROVE  Seal(v) \in Session /\ Seal(v).login = v
<1>1. Key \in {"ephemeral", "derived"} \X Nat
    BY DEF TypeOK, Key
<1>2. clock + SessionLife \in Nat
    BY GateAssumption DEF TypeOK
<1> QED
    BY <1>1, <1>2 DEF Seal, Session

\* Signing in and out touches the cookies alone.
LEMMA CookiesKeep ==
    ASSUME GateInv, UNCHANGED <<outside, owning, req>>,
           trips' \subseteq Trip,
           jar' \in [Visitor -> [state : Trip \cup {None}, session : Session \cup {None}]],
           Signed'
    PROVE  GateInv'
<1>1. TypeOK'
    BY DEF GateInv, TypeOK, outside, owning
<1>2. Publicly' /\ Asked'
    BY DEF GateInv, Publicly, Asked, Brought, Resolvable, Gated, Passed, Shown, outside, owning
<1> QED
    BY <1>1, <1>2 DEF GateInv

LEMMA AuthKeeps ==
    ASSUME GateInv, NEW v \in Visitor, Auth(v)
    PROVE  GateInv'
<1> USE DEF GateInv
<1>1. CASE AuthLogin(v)
    <2>1. PICK random \in 1..MaxTrips :
             LET state == [by |-> v, random |-> random, process |-> deploy.process]
             IN  jar' = [jar EXCEPT ![v].state = state] /\ trips' = trips \cup {state}
        BY <1>1 DEF AuthLogin
    <2> DEFINE state == [by |-> v, random |-> random, process |-> deploy.process]
    <2>2. state \in Trip /\ state.by = v
        BY DEF Trip, TypeOK
    <2> HIDE DEF state
    <2>3. jar' = [jar EXCEPT ![v].state = state] /\ trips' = trips \cup {state}
        BY <2>1 DEF state
    <2>4. trips' \subseteq Trip
        BY <2>2, <2>3 DEF TypeOK
    <2>5. jar' \in [Visitor -> [state : Trip \cup {None}, session : Session \cup {None}]]
        BY <2>2, <2>3 DEF TypeOK
    <2>6. Signed'
        BY <2>2, <2>3 DEF TypeOK, Signed
    <2> QED
        BY <1>1, <2>4, <2>5, <2>6, CookiesKeep DEF AuthLogin
<1>2. ASSUME NEW t \in trips, AuthCallback(v, t)
      PROVE  GateInv'
    <2>1. trips' \subseteq Trip
        BY <1>2 DEF AuthCallback, TypeOK
    <2>2. CASE UNCHANGED jar
        <3>1. jar' \in [Visitor -> [state : Trip \cup {None}, session : Session \cup {None}]]
            BY <2>2 DEF TypeOK
        <3>2. Signed'
            BY <2>2 DEF Signed
        <3> QED
            BY <1>2, <2>1, <3>1, <3>2, CookiesKeep DEF AuthCallback
    <2>3. CASE /\ StateMatches(v, t)
               /\ Key # None
               /\ jar' = [jar EXCEPT ![v] = [state |-> None, session |-> Seal(t.by)]]
        <3>1. t.by = v
            BY <1>2, <2>3, NoneAssumption DEF TypeOK, Signed, StateMatches
        <3>2. Seal(t.by) \in Session /\ Seal(t.by).login = v
            BY <2>3, <3>1, SealTyped
        <3>3. jar' \in [Visitor -> [state : Trip \cup {None}, session : Session \cup {None}]]
            BY <2>3, <3>2 DEF TypeOK
        <3>4. Signed'
            BY <2>3, <3>2 DEF TypeOK, Signed
        <3> QED
            BY <1>2, <2>1, <3>3, <3>4, CookiesKeep DEF AuthCallback
    <2> QED
        BY <1>2, <2>2, <2>3 DEF AuthCallback
<1>3. CASE AuthLogout(v)
    <2>1. trips' \subseteq Trip
        BY <1>3 DEF AuthLogout, TypeOK
    <2>2. jar' \in [Visitor -> [state : Trip \cup {None}, session : Session \cup {None}]]
        BY <1>3 DEF AuthLogout, TypeOK
    <2>3. Signed'
        BY <1>3 DEF AuthLogout, TypeOK, Signed
    <2> QED
        BY <1>3, <2>1, <2>2, <2>3, CookiesKeep DEF AuthLogout
<1>4. ASSUME NEW h \in Host, OwnershipToken(v, h)
      PROVE  GateInv'
    <2> DEFINE new == [login |-> jar[v].session.login, host |-> h,
                       expires |-> clock + TokenLife, secret |-> deploy.secret]
    <2>1. jar[v].session \in Session
        BY <1>4 DEF OwnershipToken, Unseals, TypeOK
    <2>2. new \in Token
        BY <2>1, GateAssumption DEF Token, Session, TypeOK
    <2>3. tokens' = tokens \cup {new}
        BY <1>4 DEF OwnershipToken
    <2> HIDE DEF new
    <2>4. TypeOK'
        BY <1>4, <2>2, <2>3 DEF OwnershipToken, TypeOK, outside, signing
    <2>5. Signed' /\ Publicly'
        BY <1>4 DEF OwnershipToken, Signed, Publicly, outside, signing
    <2>6. Asked'
        BY <1>4, <2>3 DEF OwnershipToken, Asked, Brought, Resolvable, Gated, Passed, Shown, outside, signing
    <2> QED
        BY <2>4, <2>5, <2>6
<1> QED
    BY <1>1, <1>2, <1>3, <1>4 DEF Auth

\* A step of one request: the others stay, and this one, if it goes on, is in order.
LEMMA SlotKeeps ==
    ASSUME GateInv, UNCHANGED <<outside, signing, owning>>, NEW s \in Slot,
           req' \in [Slot -> Request \cup {None}],
           \A q \in Slot \ {s} : req'[q] = req[q],
           req'[s] # None => Brought(req[s])' /\ (~deploy.local => Gated(req[s])')
    PROVE  GateInv'
<1>1. TypeOK'
    BY DEF GateInv, TypeOK, outside, signing, owning
<1>2. Signed' /\ Publicly'
    BY DEF GateInv, Signed, Publicly, outside, signing, owning
<1>3. Asked'
    <2> SUFFICES ASSUME NEW q \in Slot, req'[q] # None
                 PROVE  Brought(req[q])' /\ (~deploy'.local => Gated(req[q])')
        BY DEF Asked
    <2>1. CASE q = s
        BY <2>1 DEF outside
    <2>2. CASE q # s
        <3>1. req'[q] = req[q]
            BY <2>2
        <3>2. Brought(req[q]) /\ (~deploy.local => Gated(req[q]))
            BY <3>1 DEF GateInv, Asked
        <3> QED
            BY <3>1, <3>2 DEF Brought, Resolvable, Gated, Passed, Shown, outside, signing, owning
    <2> QED
        BY <2>1, <2>2
<1> QED
    BY <1>1, <1>2, <1>3 DEF GateInv

\* A request that moves on is the same request in another place.
LEMMA MoveKeeps ==
    ASSUME GateInv, UNCHANGED <<outside, signing, owning>>, NEW s \in Slot, req[s] # None,
           NEW place \in {"resolve", "verify", "firing"}, GoTo(s, place),
           ~deploy.local => /\ Passed(req[s])
                            /\ place \in {"verify", "firing"} =>
                                  HostOf[req[s].site] \notin Internal /\ req[s].out
                            /\ place = "firing" => Shown(req[s])
    PROVE  GateInv'
<1>1. req[s] \in Request /\ Brought(req[s])
    BY DEF GateInv, TypeOK, Asked
<1>2. /\ req' \in [Slot -> Request \cup {None}]
      /\ \A q \in Slot \ {s} : req'[q] = req[q]
      /\ req'[s] = [req[s] EXCEPT !.at = place]
    BY <1>1 DEF GoTo, GateInv, TypeOK, Request
<1>3. /\ req'[s].at = place /\ req'[s].by = req[s].by /\ req'[s].cookie = req[s].cookie
      /\ req'[s].site = req[s].site /\ req'[s].token = req[s].token
      /\ req'[s].arrived = req[s].arrived /\ req'[s].out = req[s].out
    BY <1>1, <1>2 DEF Request
<1>4. Brought(req[s])'
    BY <1>1, <1>3 DEF Brought, Resolvable, outside, owning
<1>5. ~deploy.local => Gated(req[s])'
    BY <1>3 DEF Gated, Passed, Shown, outside, owning
<1> QED
    BY <1>2, <1>4, <1>5, SlotKeeps

LEMMA RefuseKeeps ==
    ASSUME GateInv, UNCHANGED <<outside, signing, owning>>, NEW s \in Slot, Refuse(s)
    PROVE  GateInv'
<1>1. /\ req' \in [Slot -> Request \cup {None}]
      /\ \A q \in Slot \ {s} : req'[q] = req[q]
      /\ req'[s] = None
    BY DEF Refuse, GateInv, TypeOK
<1> QED
    BY <1>1, SlotKeeps

LEMMA HandleKeeps ==
    ASSUME GateInv, NEW s \in Slot, Handle(s)
    PROVE  GateInv'
<1> DEFINE r == req[s]
<1>1. ASSUME NEW v \in Visitor, Arrive(s, v)
      PROVE  GateInv'
    <2>1. PICK site \in Site, token \in tokens \cup {None} :
             req' = [req EXCEPT ![s] =
                        [at |-> "identify", by |-> v, cookie |-> jar[v].session, site |-> site,
                         token |-> token, arrived |-> clock, out |-> Resolvable(HostOf[site])]]
        BY <1>1 DEF Arrive
    <2>2. UNCHANGED <<outside, signing, owning>>
        BY <1>1 DEF Arrive
    <2>3. /\ \A q \in Slot \ {s} : req'[q] = req[q]
          /\ req'[s] = [at |-> "identify", by |-> v, cookie |-> jar[v].session, site |-> site,
                        token |-> token, arrived |-> clock, out |-> Resolvable(HostOf[site])]
        BY <2>1 DEF GateInv, TypeOK
    <2>4. req'[s] \in Request
        BY <2>3 DEF GateInv, TypeOK, Request, Resolvable
    <2>5. req' \in [Slot -> Request \cup {None}]
        BY <2>1, <2>3, <2>4 DEF GateInv, TypeOK
    <2>6. /\ req'[s].at = "identify" /\ req'[s].by = v /\ req'[s].cookie = jar[v].session
          /\ req'[s].site = site /\ req'[s].token = token /\ req'[s].arrived = clock
          /\ req'[s].out = Resolvable(HostOf[site])
        BY <2>3
    <2>7. (Resolvable(HostOf[req[s].site]) => req[s].out)'
        BY <2>2, <2>6 DEF Resolvable, outside
    <2>8. Gated(req[s])'
        BY <2>6 DEF Gated
    <2>9. Brought(req[s])'
        <3>1. jar[v].session # None => jar[v].session.login = v
            BY DEF GateInv, Signed
        <3>2. clock \in Nat
            BY DEF GateInv, TypeOK
        <3> QED
            BY <2>2, <2>6, <2>7, <3>1, <3>2 DEF Brought, outside, owning
    <2> QED
        BY <2>2, <2>3, <2>5, <2>8, <2>9, SlotKeeps
<1>2. CASE Identify(s)
    <2>0. r # None /\ r \in Request /\ Brought(r) /\ UNCHANGED <<outside, signing, owning>>
        BY <1>2 DEF Identify, At, GateInv, TypeOK, Asked
    <2>1. CASE Refuse(s)
        BY <2>0, <2>1, RefuseKeeps
    <2>2. CASE deploy.local /\ (GoTo(s, "firing") \/ GoTo(s, "verify"))
        BY <2>0, <2>2, MoveKeeps
    <2>3. CASE /\ ~deploy.local /\ GoTo(s, "resolve")
               /\ Unseals(r.cookie) /\ r.token # None
               /\ Checks(r.token, r.cookie.login, HostOf[r.site])
        <3>1. r.cookie.login = r.by /\ r.token \in Token
            BY <2>0, <2>3 DEF Brought, Resolvable, Unseals, GateInv, TypeOK
        <3>2. r.token.expires >= r.arrived
            BY <2>0, <2>3, <3>1 DEF Brought, Resolvable, Checks, GateInv, TypeOK, Request, Token
        <3>3. Passed(r)
            BY <2>0, <2>3, <3>1, <3>2 DEF Passed, Checks
        <3> QED
            BY <2>0, <2>3, <3>3, MoveKeeps
    <2> QED
        BY <1>2, <2>1, <2>2, <2>3 DEF Identify
<1>3. CASE Resolve(s)
    <2>0. /\ r # None /\ r \in Request /\ r.at = "resolve"
          /\ UNCHANGED <<outside, signing, owning>>
        BY <1>3 DEF Resolve, At, GateInv, TypeOK
    <2>1. (~deploy.local => Passed(r)) /\ (Resolvable(HostOf[r.site]) => r.out)
        BY <2>0 DEF GateInv, Asked, Gated, Brought
    <2>2. CASE Resolvable(HostOf[r.site]) /\ GoTo(s, "verify")
        <3>1. HostOf[r.site] \notin Internal /\ r.out
            BY <2>1, <2>2 DEF Resolvable
        <3> QED
            BY <2>0, <2>1, <2>2, <3>1, MoveKeeps
    <2>3. CASE Refuse(s)
        BY <2>0, <2>3, RefuseKeeps
    <2> QED
        BY <1>3, <2>2, <2>3 DEF Resolve
<1>4. CASE Verify(s)
    <2>0. r # None /\ r \in Request /\ r.at = "verify" /\ UNCHANGED <<outside, signing, owning>>
        BY <1>4 DEF Verify, At, GateInv, TypeOK
    <2>1. ~deploy.local => Passed(r) /\ HostOf[r.site] \notin Internal /\ r.out
        BY <2>0 DEF GateInv, Asked, Gated
    <2>2. CASE /\ \E p \in Places(r.site) : published[p] = r.token
               /\ GoTo(s, "firing")
        <3>1. PICK p \in Places(r.site) : published[p] = r.token
            BY <2>2
        <3>2. p \in Place
            BY <2>0, GateAssumption DEF Places, Place, Request
        <3>3. ~deploy.local => Shown(r)
            BY <2>1, <3>1, <3>2 DEF Passed, Publicly, Shown, GateInv
        <3> QED
            BY <2>0, <2>1, <2>2, <3>3, MoveKeeps
    <2>3. CASE Refuse(s)
        BY <2>0, <2>3, RefuseKeeps
    <2> QED
        BY <1>4, <2>2, <2>3 DEF Verify
<1>5. CASE End(s)
    BY <1>5, RefuseKeeps DEF End
<1> QED
    BY <1>1, <1>2, <1>3, <1>4, <1>5 DEF Handle

LEMMA WorldKeeps ==
    ASSUME GateInv, World
    PROVE  GateInv'
<1> USE DEF GateInv
<1>1. CASE Tick
    <2>1. clock' = clock + 1 /\ clock \in Nat
        BY <1>1 DEF Tick, TypeOK
    <2>2. TypeOK'
        BY <1>1, <2>1 DEF Tick, TypeOK, owning
    <2>3. Signed' /\ Publicly'
        BY <1>1 DEF Tick, Signed, Publicly, TypeOK, owning
    <2>4. ASSUME NEW q \in Slot, req[q] # None
          PROVE  req[q].arrived <= clock'
        BY <2>1, <2>4 DEF Asked, Brought, Resolvable, TypeOK, Request
    <2>5. Asked'
        BY <1>1, <2>4 DEF Tick, Asked, Brought, Resolvable, Gated, Passed, Shown, owning
    <2> QED
        BY <2>2, <2>3, <2>5
<1>2. CASE Redeploy
    <2>1. PICK secret \in {0, deploy.process + 1} :
             deploy' = [deploy EXCEPT !.secret = secret, !.process = @ + 1]
        BY <1>2 DEF Redeploy
    <2>2. deploy' \in [local : BOOLEAN, oauth : BOOLEAN, secret : Nat, process : Nat]
        <3>1. deploy \in [local : BOOLEAN, oauth : BOOLEAN, secret : Nat, process : Nat]
            BY DEF TypeOK
        <3>2. deploy.process + 1 \in Nat /\ secret \in Nat
            BY <3>1
        <3>3. deploy' = [local |-> deploy.local, oauth |-> deploy.oauth, secret |-> secret,
                         process |-> deploy.process + 1]
            BY <2>1, <3>1
        <3> QED
            BY <3>1, <3>2, <3>3
    <2>3. TypeOK'
        BY <1>2, <2>2 DEF Redeploy, TypeOK, signing, owning
    <2>4. Signed' /\ Publicly' /\ Asked'
        BY <1>2 DEF Redeploy, Signed, Publicly, Asked, signing, owning
    <2> QED
        BY <2>3, <2>4
<1>3. ASSUME NEW p \in Place, NEW t \in tokens \cup {None}, Publish(p, t)
      PROVE  GateInv'
    <2>1. shown \subseteq shown' /\ shown' \subseteq Place \X Token
        BY <1>3 DEF Publish, TypeOK
    <2>2. TypeOK'
        BY <1>3, <2>1 DEF Publish, TypeOK, outside, signing
    <2>3. Signed'
        BY <1>3 DEF Publish, Signed, signing
    <2>4. Publicly'
        BY <1>3, <2>1 DEF Publish, Publicly, TypeOK
    <2>5. Asked'
        BY <1>3, <2>1 DEF Publish, Asked, Brought, Resolvable, Gated, Passed, Shown, outside
    <2> QED
        BY <2>2, <2>3, <2>4, <2>5
<1>4. ASSUME NEW h \in Name, Rebind(h)
      PROVE  GateInv'
    <2>1. UNCHANGED <<deploy, clock, signing, owning>>
        BY <1>4 DEF Rebind
    <2>2. inside' \subseteq Name
        BY <1>4 DEF Rebind, TypeOK
    <2>3. /\ DOMAIN req' = Slot
          /\ \A q \in Slot : req'[q] = req[q] \/ (/\ req[q] # None
                                                  /\ req'[q] = [req[q] EXCEPT !.out = TRUE])
        BY <1>4 DEF Rebind
    <2>4. ASSUME NEW q \in Slot
          PROVE  /\ req'[q] \in Request \cup {None}
                 /\ req'[q] # None => /\ req[q] # None
                                      /\ req'[q].at = req[q].at /\ req'[q].by = req[q].by
                                      /\ req'[q].cookie = req[q].cookie
                                      /\ req'[q].site = req[q].site
                                      /\ req'[q].token = req[q].token
                                      /\ req'[q].arrived = req[q].arrived
                                      /\ req[q].out => req'[q].out
        <3>1. req[q] \in Request \cup {None}
            BY DEF TypeOK
        <3>2. CASE req'[q] = req[q]
            BY <3>1, <3>2
        <3>3. CASE req[q] # None /\ req'[q] = [req[q] EXCEPT !.out = TRUE]
            BY <3>1, <3>3 DEF Request
        <3> QED
            BY <2>3, <3>2, <3>3
    <2>5. req' \in [Slot -> Request \cup {None}]
        <3>1. req' = [q \in Slot |-> req'[q]]
            BY <1>4 DEF Rebind
        <3> QED
            BY <2>4, <3>1
    <2>6. TypeOK'
        BY <2>1, <2>2, <2>5 DEF TypeOK, signing, owning
    <2>7. Signed' /\ Publicly'
        BY <2>1 DEF Signed, Publicly, signing, owning
    <2>8. ASSUME NEW q \in Slot, req'[q] # None
          PROVE  Brought(req[q])' /\ (~deploy'.local => Gated(req[q])')
        <3>1. req[q] # None /\ Brought(req[q]) /\ (~deploy.local => Gated(req[q]))
            BY <2>4, <2>8 DEF Asked
        <3>2. (Resolvable(HostOf[req[q].site]) => req[q].out)'
            <4>1. CASE h \in inside /\ HostOf[req[q].site] = h
                BY <1>4, <2>4, <3>1, <4>1 DEF Rebind, TypeOK, Request
            <4>2. CASE HostOf[req[q].site] # h \/ h \notin inside
                <5>1. HostOf[req[q].site] \in inside => HostOf[req[q].site] \in inside'
                    BY <1>4, <4>2 DEF Rebind
                <5> QED
                    BY <2>4, <2>8, <3>1, <5>1 DEF Brought, Resolvable
            <4> QED
                BY <4>1, <4>2
        <3> QED
            BY <2>1, <2>4, <2>8, <3>1, <3>2 DEF Brought, Resolvable, Gated, Passed, Shown, signing, owning
    <2>9. Asked'
        BY <2>8 DEF Asked
    <2> QED
        BY <2>6, <2>7, <2>9
<1>5. ASSUME NEW s \in Site, NEW p \in Places(s)
      PROVE  p \in Place
    BY <1>5, GateAssumption DEF Places, Place
<1> QED
    BY <1>1, <1>2, <1>3, <1>4, <1>5 DEF World

LEMMA GateStep == GateInv /\ [Next]_vars => GateInv'
<1> SUFFICES ASSUME GateInv, [Next]_vars PROVE GateInv'
    OBVIOUS
<1>1. CASE Next
    BY <1>1, AuthKeeps, HandleKeeps, WorldKeeps DEF Next
<1>2. CASE UNCHANGED vars
    BY <1>2 DEF GateInv, TypeOK, Signed, Publicly, Asked, Brought, Resolvable, Gated, Passed, Shown,
                vars
<1> QED
    BY <1>1, <1>2

LEMMA GateImplies == GateInv => FiredOnlyWhereProved
BY DEF GateInv, TypeOK, Asked, Brought, Resolvable, Gated, Passed, Shown, FiredOnlyWhereProved, At

-----------------------------------------------------------------------------
\* Every variable of the gate keeps its type, whatever deployments, clocks and
\* visitors do (app.py's cookies and tokens are records of these shapes).
THEOREM Typing == Spec => []TypeOK
<1>1. GateInv => TypeOK
    BY DEF GateInv
<1> QED
    BY <1>1, InitGate, GateStep, PTL DEF Spec

\* A hosted deployment fires only for a visitor it issued a token to, for the
\* host of the URL and under the secret of this process, once the token was
\* shown below that URL or in the host's DNS, and only at a host that, however
\* the DNS changes, resolved outside at some moment while the request was there
\* (_gate_ownership, ownership_token.check, ownership.verify, resolves_internal).
THEOREM OnlyWhereProved == Spec => []FiredOnlyWhereProved
BY InitGate, GateStep, GateImplies, PTL DEF Spec
=============================================================================
