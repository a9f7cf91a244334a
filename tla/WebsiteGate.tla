---------------------------- MODULE WebsiteGate ----------------------------
(***************************************************************************)
(* Who may fire from the website: signing in through GitHub, the sealed    *)
(* session, ownership tokens, and the gate in front of every request that  *)
(* fires at a host.  The gate looks a request up in several steps; clocks, *)
(* cookies, published tokens, the addresses names resolve to and the       *)
(* deployment change between them.                                         *)
(***************************************************************************)
EXTENDS Integers, FiniteSets

CONSTANTS
    Visitor,     \* people, each with a browser and a GitHub login of their own
    Site,        \* what a target URL may be: a host, and a path below it
    Host, HostOf,
    LocalHost,   \* hosts that are the machine Tainted runs on (is_local)
    Internal,    \* hosts that are internal as they are written (is_internal)
    Name,        \* hosts that the DNS gives an address; the others are addresses
    Slot,        \* requests served at a time
    None,
    SessionLife, TokenLife,   \* in ticks of the clock
    MaxClock, MaxProcess, MaxTrips, MaxTokens, MaxShown  \* bounds of the instance

ASSUME GateAssumption ==
    /\ LocalHost \subseteq Internal /\ Internal \subseteq Host
    /\ Name \subseteq Host \ Internal
    /\ HostOf \in [Site -> Host]
    /\ SessionLife \in Nat \ {0} /\ TokenLife \in Nat
    /\ {MaxClock, MaxProcess, MaxTrips, MaxTokens, MaxShown} \subseteq Nat

VARIABLES
    deploy,    \* the configuration of this process, and which process it is
    clock,
    jar,       \* the two cookies each browser keeps
    trips,     \* visitors sent to GitHub who have not come back
    tokens,    \* ownership tokens issued
    inside,    \* the names that resolve to an internal address just now
    published, \* the ownership token each place publishes
    shown,     \* every token a place has ever published (history)
    req        \* what each slot is serving

vars == <<deploy, clock, jar, trips, tokens, inside, published, shown, req>>
outside == <<deploy, clock, inside>>
signing == <<jar, trips>>
owning  == <<tokens, published, shown>>

\* session_token: what a sealed cookie holds that the gate reads.
Session == [login : Visitor, expires : Nat, key : {"ephemeral", "derived"} \X Nat]

\* ownership_token: the subject, the host and the expiry its MAC binds, and the secret.
Token == [login : Visitor, host : Host, expires : Nat, secret : Nat]

\* The state of one sign-in; who set out, and from which process, is history.
Trip == [by : Visitor, random : 1..MaxTrips, process : Nat]

ASSUME NoneAssumption == None \notin Trip

\* Where a token is looked for: under the URL itself, or in a TXT record of its host.
Place == Site \cup Host
Places(site) == {site, HostOf[site]}

\* A request to prove, to check rules or to check lockout: all three pass this gate.
\* `out` is history: its host has resolved outside since it arrived.
Request == [at : {"identify", "resolve", "verify", "firing"}, by : Visitor,
            cookie : Session \cup {None}, site : Site, token : Token \cup {None},
            arrived : Nat, out : BOOLEAN]

TypeOK ==
    /\ deploy \in [local : BOOLEAN, oauth : BOOLEAN, secret : Nat, process : Nat]
    /\ clock \in Nat
    /\ jar \in [Visitor -> [state : Trip \cup {None}, session : Session \cup {None}]]
    /\ trips \subseteq Trip
    /\ tokens \subseteq Token
    /\ inside \subseteq Name
    /\ published \in [Place -> Token \cup {None}]
    /\ shown \subseteq Place \X Token
    /\ req \in [Slot -> Request \cup {None}]

Init ==
    /\ deploy \in [local : BOOLEAN, oauth : BOOLEAN, secret : {0, 1}, process : {1}]
    /\ clock = 0
    /\ jar = [v \in Visitor |-> [state |-> None, session |-> None]]
    /\ trips = {}
    /\ tokens = {}
    /\ inside = {}
    /\ published = [p \in Place |-> None] /\ shown = {}
    /\ req = [s \in Slot |-> None]

-----------------------------------------------------------------------------
\* session_token._key and keys.derive: without a secret only a local process has a key,
\* and the next process has another.
Key == IF deploy.secret # 0 THEN <<"derived", deploy.secret>>
       ELSE IF deploy.local THEN <<"ephemeral", deploy.process>> ELSE None

Seal(v) == [login |-> v, expires |-> clock + SessionLife, key |-> Key]

\* unseal, for a cookie that is None or was sealed by some process of this deployment.
Unseals(cookie) == cookie # None /\ cookie.key = Key /\ cookie.expires > clock

\* _sign_in_unavailable_reason; `oauth` is the application with a place to redirect to.
SignInAvailable == deploy.oauth /\ Key # None

\* The states some browser still keeps.
Kept == {jar[v].state : v \in Visitor} \ {None}

\* auth_login: the state is new, and goes with the visitor and into the cookie.
AuthLogin(v) ==
    /\ SignInAvailable
    /\ \E random \in 1..MaxTrips \ {t.random : t \in trips \cup Kept} :
          LET state == [by |-> v, random |-> random, process |-> deploy.process]
          IN  jar' = [jar EXCEPT ![v].state = state] /\ trips' = trips \cup {state}
    /\ UNCHANGED <<outside, owning, req>>

\* The state that came back is the one this browser was sent away with.
StateMatches(v, t) == jar[v].state = t

\* auth_callback: GitHub sends somebody who set out as `t` to the browser of v.  The
\* visitor declined, the state is another's, GitHub fails, no key can seal what it
\* granted; or v is signed in as whoever set out.
AuthCallback(v, t) ==
    /\ t \in trips
    /\ trips' = trips \ {t}
    /\ \/ UNCHANGED jar
       \/ /\ StateMatches(v, t)
          /\ Key # None
          /\ jar' = [jar EXCEPT ![v] = [state |-> None, session |-> Seal(t.by)]]
    /\ UNCHANGED <<outside, owning, req>>

AuthLogout(v) ==
    /\ jar[v].session # None
    /\ jar' = [jar EXCEPT ![v].session = None]
    /\ UNCHANGED <<outside, trips, owning, req>>

-----------------------------------------------------------------------------
\* resolves_internal: the name as written, then what it resolves to just now.
Resolvable(h) == h \notin Internal \cup inside

\* api_ownership_token and ownership_token.issue.
OwnershipToken(v, h) ==
    /\ Unseals(jar[v].session)
    /\ Resolvable(h)
    /\ deploy.secret # 0
    /\ tokens' = tokens \cup {[login |-> jar[v].session.login, host |-> h,
                               expires |-> clock + TokenLife, secret |-> deploy.secret]}
    /\ Cardinality(tokens') <= MaxTokens
    /\ UNCHANGED <<outside, signing, published, shown, req>>

\* Whoever can write at a place puts a token there, or takes it away.
Publish(p, t) ==
    /\ published[p] # t
    /\ published' = [published EXCEPT ![p] = t]
    /\ shown' = IF t = None THEN shown ELSE shown \cup {<<p, t>>}
    /\ Cardinality(shown') <= MaxShown
    /\ UNCHANGED <<outside, signing, tokens, req>>

\* Whoever runs the DNS of a name points it inside, or out again.
Rebind(h) ==
    /\ inside' = IF h \in inside THEN inside \ {h} ELSE inside \cup {h}
    /\ req' = [s \in Slot |->
                  IF req[s] # None /\ h \in inside /\ HostOf[req[s].site] = h
                  THEN [req[s] EXCEPT !.out = TRUE] ELSE req[s]]
    /\ UNCHANGED <<deploy, clock, signing, owning>>

\* Fault: the MAC leaves the host out.
ChecksForAnyHost(t, login, host) ==
    deploy.secret # 0 /\ t.secret = deploy.secret /\ t.login = login /\ t.expires >= clock

\* ownership_token.check
Checks(t, login, host) ==
    /\ deploy.secret # 0
    /\ t.secret = deploy.secret /\ t.login = login /\ t.host = host
    /\ t.expires >= clock

-----------------------------------------------------------------------------
At(s, place) == req[s] # None /\ req[s].at = place
GoTo(s, place) == req' = [req EXCEPT ![s].at = place]
Refuse(s) == req' = [req EXCEPT ![s] = None]

Arrive(s, v) ==
    /\ req[s] = None
    /\ \E site \in Site, token \in tokens \cup {None} :
          req' = [req EXCEPT ![s] =
                     [at |-> "identify", by |-> v, cookie |-> jar[v].session, site |-> site,
                      token |-> token, arrived |-> clock, out |-> Resolvable(HostOf[site])]]
    /\ UNCHANGED <<outside, signing, owning>>

\* _gate_ownership up to its first lookup.
Identify(s) ==
    /\ At(s, "identify")
    /\ LET r == req[s]
           host == HostOf[r.site] IN
       \/ deploy.local /\ host \in LocalHost /\ GoTo(s, "firing")
       \/ /\ deploy.local /\ host \notin LocalHost
          /\ IF r.token = None THEN Refuse(s) ELSE GoTo(s, "verify")
       \/ /\ ~deploy.local
          /\ IF Unseals(r.cookie) /\ r.token # None /\ Checks(r.token, r.cookie.login, host)
             THEN GoTo(s, "resolve") ELSE Refuse(s)
    /\ UNCHANGED <<outside, signing, owning>>

\* resolves_internal; a lookup that fails counts as internal.  The address found is not
\* kept: the steps after this one look the name up again.
Resolve(s) ==
    /\ At(s, "resolve")
    /\ \/ Resolvable(HostOf[req[s].site]) /\ GoTo(s, "verify")
       \/ Refuse(s)
    /\ UNCHANGED <<outside, signing, owning>>

\* ownership.verify: the TXT record of the host, or a well-known path below the URL,
\* equals the token.  A lookup may fail, and a deployment that requires a sandbox may
\* have none.
Verify(s) ==
    /\ At(s, "verify")
    /\ \/ /\ \E p \in Places(req[s].site) : published[p] = req[s].token
          /\ GoTo(s, "firing")
       \/ Refuse(s)
    /\ UNCHANGED <<outside, signing, owning>>

\* The request ends, its attacks fired or its checkout refused.
End(s) ==
    /\ At(s, "firing")
    /\ Refuse(s)
    /\ UNCHANGED <<outside, signing, owning>>

-----------------------------------------------------------------------------
\* Time passes.  The state cookie lives ten minutes, less than a tick.
Tick ==
    /\ clock < MaxClock
    /\ clock' = clock + 1
    /\ jar' = [v \in Visitor |-> [jar[v] EXCEPT !.state = None]]
    /\ UNCHANGED <<deploy, trips, inside, owning, req>>

\* The process ends with what it was serving, and another starts, with a new secret or none.
Redeploy ==
    /\ deploy.process < MaxProcess
    /\ \E secret \in {0, deploy.process + 1} :
          deploy' = [deploy EXCEPT !.secret = secret, !.process = @ + 1]
    /\ req' = [s \in Slot |-> None]
    /\ UNCHANGED <<clock, inside, signing, owning>>

Auth(v) ==
    \/ AuthLogin(v)
    \/ \E t \in trips : AuthCallback(v, t)
    \/ AuthLogout(v)
    \/ \E h \in Host : OwnershipToken(v, h)

Handle(s) ==
    \/ \E v \in Visitor : Arrive(s, v)
    \/ Identify(s) \/ Resolve(s) \/ Verify(s) \/ End(s)

World ==
    \/ Tick
    \/ Redeploy
    \/ \E s \in Site, t \in tokens \cup {None} :
          /\ HostOf[s] \notin LocalHost
          /\ \E p \in Places(s) : Publish(p, t)
    \/ \E h \in Name : Rebind(h)

Next == (\E v \in Visitor : Auth(v)) \/ (\E s \in Slot : Handle(s)) \/ World

Spec == Init /\ [][Next]_vars

-----------------------------------------------------------------------------
(* Properties.                                                             *)

\* A hosted deployment fires only for somebody it issued a token to, for the host of the
\* URL they name, still alive when they asked and under the secret of this process, once
\* that token was published below that URL or in the host's DNS; and the host, not internal
\* as written, resolved outside at some moment since they asked (_gate_ownership).  More
\* the code does not give: the name is looked up again by each later request, so a name
\* that turns inwards after the gate's look is fired at, and whoever can write below one
\* path of a shared host owns that URL.
FiredOnlyWhereProved ==
    \A s \in Slot :
        At(s, "firing") /\ ~deploy.local =>
            LET r == req[s] IN
            /\ HostOf[r.site] \notin Internal /\ r.out
            /\ \E t \in tokens :
                  /\ t = r.token
                  /\ t.login = r.by /\ t.host = HostOf[r.site] /\ t.secret = deploy.secret
                  /\ t.expires >= r.arrived
                  /\ \E p \in Places(r.site) : <<p, t>> \in shown

=============================================================================
