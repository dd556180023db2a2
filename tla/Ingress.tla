------------------------------ MODULE Ingress ------------------------------
(***************************************************************************)
(* The way of an HTTP request to its handler: CORS, the client's address,  *)
(* and the guards of the route it was matched to, on the public listener   *)
(* and on the private one.                                                 *)
(*                                                                         *)
(* Every middleware is a step, and what it reads of the request is chosen  *)
(* when it reads it: the origin, the chain of proxies in front of goauth   *)
(* with whatever the client wrote into the forwarding header, and the      *)
(* credentials.  The caller's account and role may change between two      *)
(* steps, also between the two reads of one guard.                         *)
(***************************************************************************)
EXTENDS Naturals, Sequences, FiniteSetsExt

CONSTANTS
    Host4, Host6,    \* addresses of clients; those of Host6 share one /64
    Proxy,           \* addresses of the proxies in front of goauth
    Bad,             \* a hop that does not parse as an address, or a header not set
    Domain,          \* the host named by the configured origin, as fragments
    Fragment,        \* pieces that origins' hosts are made of, "." among them
    MaxHops,         \* bound: proxies in front of goauth
    MaxForged,       \* bound: hops a client writes into the header
    MaxFragments     \* bound: length of an origin's host

ASSUME BoundsAreNumbers == {MaxHops, MaxForged, MaxFragments} \subseteq Nat
ASSUME AddressesDiffer ==
    /\ Host4 \cap Host6 = {} /\ (Host4 \cup Host6) \cap Proxy = {}
    /\ Bad \notin Host4 \cup Host6 \cup Proxy
ASSUME DomainIsAHost == "." \in Fragment /\ Domain \in Seq(Fragment \ {"."}) /\ Domain # <<>>
\* An Origin header names a scheme, a host and a port: no path.
ASSUME OriginsHaveNoPath == "/" \notin Fragment

VARIABLES
    trustedProxies,   \* realip.trusted_proxies
    clientIPHeader,   \* realip.client_ip_header: "", "X-Forwarded-For", or another
    allowDomains,     \* kinds of entries in cors.allow_domains
    cookies,          \* authcookie.enabled
    grant,            \* the caller: is the account active, does its role permit the call
    req,              \* the request: where it is and what it brought
    wasActive,        \* history: the account was active at some point of it,
    held              \* and, then or later, the role permitted the call

vars == <<trustedProxies, clientIPHeader, allowDomains, cookies, grant, req, wasActive, held>>
config == <<trustedProxies, clientIPHeader, allowDomains, cookies>>
history == <<wasActive, held>>

Host == Host4 \cup Host6
Route == {"auth", "admin_read", "admin_destructive"}
Grant == [active: BOOLEAN, permitted: BOOLEAN]
Token == {"none", "fresh", "stale", "expired", "invalid", "admin_token"}

BoundedSeq(S, n) == UNION {[1 .. m -> S] : m \in 0 .. n}

Idle == [at |-> "idle"]

\* The handlers mounted before a route: RegisterRoutes hands the private
\* listener no scope guard, and puts the destructive routes behind sudo.
Chain(listener, route) ==
    (IF route = "auth" THEN <<"Auth">>
     ELSE IF listener = "public" THEN <<"AuthSilent">> ELSE <<"AdminToken">>)
    \o (IF route = "admin_destructive" THEN <<"RequireRecentAuth">> ELSE <<>>)
    \o (IF route # "auth" /\ listener = "public" THEN <<"RequireScope">> ELSE <<>>)

\* realip.New: a header is believed only with a list of those who may send it.
HeaderNeedsProxies == clientIPHeader # "" => trustedProxies # {}

\* cors.parse: an entry is "*", an origin, or an origin with "*." for its first
\* label, and then whatever follows the "*." is taken as it is ("pathed" stands
\* for such an entry with a path or another "*"); anything else fails the start.
Parses == "malformed" \notin allowDomains
rules == allowDomains \ {"*"}
allowAny == "*" \in allowDomains

\* cors.New: credentials are tied to the cookie channel, and "*" excludes them.
NamedForCookies == ~(cookies /\ allowAny)

\* A configuration that the constructors accept.
Init ==
    /\ trustedProxies \in SUBSET Proxy
    /\ clientIPHeader \in {"", "X-Forwarded-For", "CF-Connecting-IP"}
    /\ HeaderNeedsProxies
    /\ allowDomains \in SUBSET {"exact", "subdomains", "pathed", "*", "malformed"}
    /\ cookies \in BOOLEAN
    /\ Parses /\ NamedForCookies
    /\ grant \in Grant
    /\ req = Idle /\ wasActive = FALSE /\ held = FALSE

Arrive(listener, route) ==
    /\ req = Idle /\ (route = "auth" => listener = "public")
    /\ req' = [at |-> IF listener = "public" THEN "cors" ELSE "realip",
               listener |-> listener, route |-> route]
    /\ wasActive' = grant.active
    /\ held' = (grant.active /\ grant.permitted)
    /\ UNCHANGED <<config, grant>>

\* An administrator edits the caller, or the caller's role, meanwhile.
RoleChanges ==
    /\ grant' \in Grant \ {grant}
    /\ wasActive' = (wasActive \/ (req.at # "idle" /\ grant'.active))
    /\ held' = (held \/ (wasActive' /\ grant'.permitted))
    /\ UNCHANGED <<config, req>>

-----------------------------------------------------------------------------
(* cors *)

\* An origin is a scheme and a host, and the host a sequence of fragments; the
\* configured one is https and Domain.  Ports are part of the last fragment.
Origin == [https: BOOLEAN, host: BoundedSeq(Fragment, MaxFragments)]

HasSuffix(s, t) == Len(s) >= Len(t) /\ SubSeq(s, Len(s) - Len(t) + 1, Len(s)) = t

\* rule.suffix: everything behind the "*".
Suffix(rule) == <<".">> \o Domain \o (IF rule = "pathed" THEN <<"/">> ELSE <<>>)

\* fault: the suffix of a wildcard rule lacks its leading dot
MatchesBareSuffix(rule, o) ==
    /\ o.https
    /\ \/ rule = "exact" /\ o.host = Domain
       \/ rule = "subdomains" /\ HasSuffix(o.host, Domain) /\ Len(o.host) > Len(Domain)

\* rule.matches.
Matches(rule, o) ==
    /\ o.https
    /\ IF rule = "exact" THEN o.host = Domain
       ELSE HasSuffix(o.host, Suffix(rule)) /\ Len(o.host) > Len(Suffix(rule))

\* Middleware.Enabled, Middleware.allow.
Enabled == allowAny \/ rules # {}
Allow(o) == allowAny \/ \E rule \in rules : Matches(rule, o)

\* Handler.  A request without an Origin header, or with none configured, has
\* no CORS headers; a preflight ends here unless CORS is off.
Cors ==
    /\ req.at = "cors"
    /\ \/ /\ req' = [at |-> "realip", listener |-> req.listener, route |-> req.route]
       \/ \E o \in Origin, preflight \in BOOLEAN :
            req' = [at |-> IF preflight /\ Enabled THEN "preflighted" ELSE "corsed",
                    listener |-> req.listener, route |-> req.route, origin |-> o,
                    allowOrigin |-> IF ~Allow(o) THEN "" ELSE IF allowAny THEN "*" ELSE "echo",
                    credentials |-> Allow(o) /\ cookies]
    /\ UNCHANGED <<config, grant, history>>

\* The origin is not looked at again.
CorsNext ==
    /\ req.at = "corsed"
    /\ req' = [at |-> "realip", listener |-> req.listener, route |-> req.route]
    /\ UNCHANGED <<config, grant, history>>

-----------------------------------------------------------------------------
(* realip *)

\* An address as it may be written: IPv4 also in its IPv6-mapped form.
Spelled(a, mapped) == [addr |-> a, mapped |-> mapped /\ a \notin Host6]
Unmap(h) == h.addr

IsTrusted(a) == a \in trustedProxies

\* The forwarding header as goauth receives it behind these proxies, the first
\* of which the client connected to: each appends the address it was called
\* from to the one line of the header, which is the line that is read.
Hops(forged, client, proxies) ==
    LET caller(i) == IF i = 1 THEN client ELSE proxies[i - 1] IN
    {forged \o [i \in 1 .. Len(proxies) |-> Spelled(caller(i), mapped[i])] :
        mapped \in [1 .. Len(proxies) -> BOOLEAN]}

\* What the edge puts into the single-valued header, or that it does not.
Edges(client) == {Spelled(client, mapped) : mapped \in BOOLEAN} \cup {Spelled(Bad, FALSE)}

Hop == [addr: Host4 \cup Proxy \cup {Bad}, mapped: {FALSE}]

\* Of hops h the walk from the right stops at: an unreadable one, or the first
\* that is no trusted proxy.  0 when there is none.
Stops(h) == {i \in 1 .. Len(h) : h[i].addr = Bad \/ ~IsTrusted(Unmap(h[i]))}
StopLeft(h) == Min(Stops(h) \cup {Len(h) + 1}) % (Len(h) + 1)   \* fault: walked from the left
StopAt(h) == Max(Stops(h) \cup {0})

\* fromForwardedFor; the peer when the chain names nobody.
FromForwardedFor(h, peer) ==
    IF StopAt(h) = 0 \/ h[StopAt(h)].addr = Bad THEN peer ELSE Unmap(h[StopAt(h)])

\* Resolver.ClientIP.  The single-valued header is set by the edge, to the
\* address it was called from; without it, or with one that does not parse, the
\* peer is all there is.
ClientIP(h, edge, peer) ==
    IF clientIPHeader = "" \/ ~IsTrusted(peer) THEN peer
    ELSE IF clientIPHeader = "X-Forwarded-For" THEN FromForwardedFor(h, peer)
    ELSE IF edge.addr = Bad THEN peer ELSE Unmap(edge)

\* realip.Bucket: a /64 is one unit.
Bucket(a) == IF a \in Host6 THEN "the /64" ELSE a

\* peerAddr: who connected to goauth.
Peer(client, proxies) == IF proxies = <<>> THEN client ELSE proxies[Len(proxies)]

RealIP ==
    /\ req.at = "realip"
    /\ \E client \in Host, proxies \in BoundedSeq(Proxy, MaxHops),
          forged \in BoundedSeq(Hop, MaxForged) :
       \E h \in Hops(forged, client, proxies), edge \in Edges(client) :
         req' = [at |-> "guards", listener |-> req.listener, route |-> req.route,
                 chain |-> Chain(req.listener, req.route),
                 client |-> client, proxies |-> proxies, edge |-> edge.addr,
                 bucket |-> Bucket(ClientIP(h, edge, Peer(client, proxies)))]
    /\ UNCHANGED <<config, grant, history>>

-----------------------------------------------------------------------------
(* The guards of internal/middleware *)

\* What the request presents is settled before the first guard runs; the
\* address is not looked at again on these routes.
Present(header, cookie) ==
    /\ req.at = "guards"
    /\ req' = [at |-> "guarded", listener |-> req.listener, route |-> req.route,
               chain |-> req.chain, bearer |-> header, cookie |-> cookie, user |-> FALSE,
               status |-> 0]
    /\ UNCHANGED <<config, grant, history>>

\* credential: the Authorization header first, the cookie where it is enabled.
Credential ==
    IF req.bearer # "none" THEN req.bearer
    ELSE IF cookies THEN req.cookie ELSE "none"

Bearer == req.bearer

AtGuard(name) == req.at = "guarded" /\ req.chain # <<>> /\ Head(req.chain) = name
PassAs(user) == req' = [req EXCEPT !.chain = Tail(@), !.user = user]
Answer(status) == req' = [req EXCEPT !.at = "answered", !.status = status]

Verified(t) == t \in {"fresh", "stale"}

Auth ==
    /\ AtGuard("Auth")
    /\ IF Verified(Credential) THEN PassAs(TRUE) ELSE Answer(401)
    /\ UNCHANGED <<config, grant, history>>

AuthSilent ==
    /\ AtGuard("AuthSilent")
    /\ CASE Verified(Credential) -> PassAs(TRUE)
         [] Credential = "expired" -> Answer(401)
         [] OTHER -> Answer(404)
    /\ UNCHANGED <<config, grant, history>>

AdminToken ==
    /\ AtGuard("AdminToken")
    /\ IF Bearer = "admin_token" THEN PassAs(FALSE) ELSE Answer(404)
    /\ UNCHANGED <<config, grant, history>>

\* A caller without a user id is a machine and exempt.
RequireRecentAuth ==
    /\ AtGuard("RequireRecentAuth")
    /\ IF req.user /\ Credential # "fresh" THEN Answer(403) ELSE PassAs(req.user)
    /\ UNCHANGED <<config, grant, history>>

\* GetUserRole finds an active account only.
AnyAccount == TRUE   \* fault: it does not ask for the status
ActiveAccount == grant.active

\* RequirePermission, ActorRole: first the role is read, and the account with it;
\* no row and a failing query are answered alike.
RequireScope ==
    /\ AtGuard("RequireScope")
    /\ \/ ActiveAccount /\ req' = [req EXCEPT !.at = "role_read"]
       \/ Answer(404)
    /\ UNCHANGED <<config, grant, history>>

\* Then the permissions of the role that the account has by now, whatever its
\* status is by now.
GetUserRolePermissions ==
    /\ req.at = "role_read"
    /\ \/ grant.permitted /\ req' = [req EXCEPT !.at = "guarded", !.chain = Tail(@)]
       \/ Answer(404)
    /\ UNCHANGED <<config, grant, history>>

\* Every guard let it pass.
Handle ==
    /\ req.at = "guarded" /\ req.chain = <<>>
    /\ Answer(200)
    /\ UNCHANGED <<config, grant, history>>

Done ==
    /\ req.at \in {"preflighted", "answered"}
    /\ req' = Idle /\ wasActive' = FALSE /\ held' = FALSE
    /\ UNCHANGED <<config, grant>>

Next ==
    \/ \E l \in {"public", "private"}, r \in Route : Arrive(l, r)
    \/ RoleChanges \/ Cors \/ CorsNext \/ RealIP
    \/ \E h, c \in Token : Present(h, c)
    \/ Auth \/ AuthSilent \/ AdminToken \/ RequireRecentAuth
    \/ RequireScope \/ GetUserRolePermissions \/ Handle \/ Done

Spec == Init /\ [][Next]_vars

-----------------------------------------------------------------------------
(* Properties *)

\* The nearest caller on the way to goauth that is no trusted proxy: the one that
\* called the outermost of the unbroken line of trusted proxies next to goauth.
Vouched(client, proxies) ==
    LET strangers == {i \in 1 .. Len(proxies) : proxies[i] \notin trustedProxies} IN
    IF strangers = {} THEN client ELSE proxies[Max(strangers)]

\* The address that a client should be counted under: behind a forwarding header
\* the one that called the outermost trusted proxy, its own when all are trusted;
\* its own with a header that the edge set; and otherwise the peer's, which no
\* client can choose.
Countable(client, proxies, edge) ==
    LET peer == Peer(client, proxies) IN
    IF clientIPHeader = "X-Forwarded-For" THEN Vouched(client, proxies)
    ELSE IF clientIPHeader # "" /\ peer \in trustedProxies /\ edge # Bad THEN client
    ELSE peer

\* Whatever a client writes into the forwarding header, whichever of the proxies
\* are trusted and however they spell the addresses they append, it is counted
\* under that address (ClientIP, Bucket).
OwnBucket ==
    req.at = "guards" =>
        req.bucket = Bucket(Countable(req.client, req.proxies, req.edge))

\* The labels of a host, between the dots.
Labels(host) ==
    LET dots == {0, Len(host) + 1} \cup {i \in 1 .. Len(host) : host[i] = "."}
        after(i) == Min({j \in dots : j > i})
    IN  [n \in 1 .. Cardinality(dots) - 1 |->
           LET i == CHOOSE i \in dots : Cardinality({j \in dots : j < i}) = n - 1
           IN  SubSeq(host, i + 1, after(i) - 1)]

\* Below(h): a name under the domain, made of labels that are not empty.
Below(host) ==
    LET ls == Labels(host) IN
    Len(ls) > 1 /\ ls[Len(ls)] = Domain /\ \A i \in 1 .. Len(ls) : ls[i] # <<>>

WellFormed(host) == \A i \in 1 .. Len(Labels(host)) : Labels(host)[i] # <<>>

\* A browser is told to let an origin read the answer exactly when that origin
\* is configured, by name or as a subdomain, and told to send credentials only
\* along with a named origin; an entry with a path after its "*." admits nobody
\* (cors.Handler, rule.matches, parse).
OnlyConfiguredOrigins ==
    req.at \in {"corsed", "preflighted"} /\ WellFormed(req.origin.host) =>
        /\ req.allowOrigin # "" <=>
             \/ "*" \in allowDomains
             \/ "exact" \in allowDomains /\ req.origin = [https |-> TRUE, host |-> Domain]
             \/ "subdomains" \in allowDomains /\ req.origin.https /\ Below(req.origin.host)
        /\ req.credentials => req.allowOrigin = "echo"

\* A handler of the admin surface is reached by the machine token in the
\* Authorization header of the private listener, or by a user whose account was
\* active while the request was under way and whose role, then or later in it,
\* held the permission: the two reads of ActorRole are no snapshot, but a
\* permission is never taken from before the account was seen active, nor from
\* before the request.  A destructive one wants a recent password, and says so
\* with a 403 to whoever presents a verified token, before it looks at the
\* permission, so that the answer tells nothing of who holds it; everybody else
\* is told 401 of an expired token and of nothing else, or 404 (RegisterRoutes
\* and the guards).
AdminSurface ==
    req.at = "answered" /\ req.route # "auth" =>
        LET machine == req.listener = "private" /\ req.bearer = "admin_token"
            user == req.listener = "public" /\ Verified(Credential)
            asked == req.route = "admin_destructive" /\ user /\ Credential = "stale"
            expired == req.listener = "public" /\ Credential = "expired" IN
        /\ req.status \in {200, 401, 403, 404}
        /\ req.status = 200 => machine \/ (user /\ held)
        /\ req.status = 401 <=> expired
        /\ req.status = 403 <=> asked
=============================================================================
