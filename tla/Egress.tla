------------------------------- MODULE Egress -------------------------------
(***************************************************************************)
(* The way of an attempt to the upstream: resolveWorkerProxy of relay.go,  *)
(* the cache of transports of proxydial.go and the SOCKS5 handshake, while *)
(* the administrator changes the proxy a worker is bound to and a probe    *)
(* judges it.                                                              *)
(*                                                                         *)
(* Dials share nothing with each other, so the module runs the handshake   *)
(* of Socks5 for one goroutine at a time; the steps before and after it,   *)
(* which share the cache and the pool, interleave.                         *)
(***************************************************************************)
EXTENDS Socks5

CONSTANTS
    Attempts,   \* the attempts under way, each of one request
    Entries     \* the entries the administrator may import

\* type is http or socks5 (an https proxy is stored as http), at the host and
\* port, user the length of the credentials.
ASSUME EgressAssumption ==
    /\ Entries \subseteq [type : {"http", "socks5"}, at : STRING, user : Users]
    /\ "none" \notin Attempts /\ "probe" \notin Attempts

VARIABLES
    bound,   \* the pool entry of the worker all attempts use, or Direct
    usable,  \* whether it is enabled and its last probe has not failed
    cache,   \* Dialer.cache: a transport for some endpoints
    attempt, \* the local variables of every attempt
    owner,   \* whose dial the handshake is
    probed   \* whether the probe under way is that of the bound entry

egressVars == <<socksVars, bound, usable, cache, attempt, owner, probed>>

Direct == [type |-> "direct", at |-> "", user |-> 0]

\* pc: looking into the cache, storing a transport there, sending, dialling.
AttemptState == [pc : {"idle", "look", "store", "send", "dial"},
                 proxy : Entries \cup {Direct},
                 transport : Entries \cup {Direct}]

At(pc, proxy, transport) == [pc |-> pc, proxy |-> proxy, transport |-> transport]
Idle == At("idle", Direct, Direct)

EgressInit ==
    /\ SocksInit
    /\ bound = Direct /\ usable = FALSE
    /\ cache = <<>>
    /\ attempt = [a \in Attempts |-> Idle]
    /\ owner = "none" /\ probed = FALSE

Become(a, state) == attempt' = [attempt EXCEPT ![a] = state]

----------------------------------------------------------------------------
(* An attempt. *)

\* A worker without a usable proxy sends directly.
Resolve(a) ==
    /\ attempt[a].pc = "idle"
    /\ Become(a, IF bound # Direct /\ usable
                 THEN At("look", bound, Direct)
                 ELSE At("send", Direct, Direct))
    /\ UNCHANGED <<socksVars, bound, usable, cache, owner, probed>>

EndpointOnly(proxy) == proxy.at   \* mutant

\* The credentials are not part of the key.
CacheKey(proxy) == <<proxy.type, proxy.at>>

LookUp(a) ==
    /\ attempt[a].pc = "look"
    /\ LET proxy == attempt[a].proxy
           key == CacheKey(proxy)
       IN  Become(a, IF key \in DOMAIN cache
                     THEN At("send", proxy, cache[key])
                     ELSE At("store", proxy, Direct))
    /\ UNCHANGED <<socksVars, bound, usable, cache, owner, probed>>

\* A transport dials with what the proxy was when it was made.
Store(a) ==
    /\ attempt[a].pc = "store"
    /\ LET proxy == attempt[a].proxy
       IN  /\ cache' = [key \in {CacheKey(proxy)} \cup DOMAIN cache |->
                            IF key = CacheKey(proxy) THEN proxy ELSE cache[key]]
           /\ Become(a, At("send", proxy, proxy))
    /\ UNCHANGED <<socksVars, bound, usable, owner, probed>>

\* The map has no lock.  When one attempt writes it while another reads or writes
\* it, the run time may notice and end the process, which starts again.
Racing == \E a, b \in Attempts : a # b /\ attempt[a].pc = "store" /\ attempt[b].pc \in {"look", "store"}

ResetSocks ==
    /\ client' = "idle" /\ kind' = "dialer" /\ user' = 0 /\ rest' = 0
    /\ conn' = "none" /\ first' = "none"
    /\ server' = "greeting" /\ inbox' = "none" /\ stream' = <<>>
    /\ eof' = FALSE /\ granted' = FALSE

Fatal ==
    /\ Racing
    /\ attempt' = [a \in Attempts |-> Idle]
    /\ cache' = <<>>
    /\ ResetSocks /\ owner' = "none" /\ probed' = FALSE
    /\ UNCHANGED <<bound, usable>>

\* Direct attempts and those through an HTTP proxy are net/http's business.
SendPlain(a) ==
    /\ attempt[a].pc = "send"
    /\ attempt[a].transport.type # "socks5"
    /\ Become(a, Idle)
    /\ UNCHANGED <<socksVars, bound, usable, cache, owner, probed>>

DialProxy(a) ==
    /\ attempt[a].pc = "send"
    /\ attempt[a].transport.type = "socks5"
    /\ owner = "none" /\ owner' = a
    /\ StartDial("dialer", attempt[a].transport.user)
    /\ Become(a, At("dial", attempt[a].proxy, attempt[a].transport))
    /\ UNCHANGED <<bound, usable, cache, probed>>

\* The transport has a response or an error for the attempt.
DialDone(a) ==
    /\ owner = a
    /\ EndDial
    /\ owner' = "none"
    /\ Become(a, Idle)
    /\ UNCHANGED <<bound, usable, cache, probed>>

----------------------------------------------------------------------------
(* The pool. *)

\* The administrator removes the entry, or imports another and binds the worker
\* to it.  An import makes a new entry, usable until a probe says otherwise.
Rebind(entry) ==
    /\ bound' = entry
    /\ usable' = (entry # Direct)
    /\ probed' = FALSE
    /\ UNCHANGED <<socksVars, cache, attempt, owner>>

\* The probe's own transport dials with the entry's credentials; it may be another
\* entry of the pool than the worker's.
BeginProbe(u) ==
    /\ owner = "none" /\ owner' = "probe"
    /\ StartDial("probe", u)
    /\ probed' = (bound.type = "socks5" /\ bound.user = u)
    /\ UNCHANGED <<bound, usable, cache, attempt>>

\* Any response proves the proxy; SetUsable finds the entry by its id or not.
EndProbe ==
    /\ owner = "probe"
    /\ EndDial
    /\ owner' = "none"
    /\ usable' = IF probed THEN first = "target" ELSE usable
    /\ probed' = FALSE
    /\ UNCHANGED <<bound, cache, attempt>>

\* The probe of an HTTP proxy, with either result.
ProbeHTTP(ok) ==
    /\ bound.type = "http"
    /\ usable' = ok
    /\ UNCHANGED <<socksVars, bound, cache, attempt, owner, probed>>

----------------------------------------------------------------------------
\* dialSOCKS5 for an attempt, or its copy for the probe.
Handshaking ==
    /\ ClientStep \/ ServerStep
    /\ UNCHANGED <<bound, usable, cache, attempt, owner, probed>>

AttemptStep(a) ==
    \/ Resolve(a) \/ LookUp(a) \/ Store(a)
    \/ SendPlain(a) \/ DialProxy(a) \/ DialDone(a)

EgressNext ==
    \/ \E a \in Attempts : AttemptStep(a)
    \/ Fatal
    \/ \E entry \in Entries \cup {Direct} : Rebind(entry)
    \/ (\E u \in Users : BeginProbe(u)) \/ EndProbe
    \/ \E ok \in BOOLEAN : ProbeHTTP(ok)
    \/ Handshaking

EgressSpec == EgressInit /\ [][EgressNext]_egressVars

FairEgressSpec ==
    /\ EgressSpec
    /\ WF_egressVars(Handshaking /\ ClientStep)
    /\ WF_egressVars(Handshaking /\ ServerResponds)

----------------------------------------------------------------------------
(* Properties. *)

EgressTypeOK ==
    /\ SocksTypeOK
    /\ bound \in Entries \cup {Direct} /\ usable \in BOOLEAN /\ probed \in BOOLEAN
    /\ DOMAIN cache \subseteq {CacheKey(entry) : entry \in Entries}
    /\ \A key \in DOMAIN cache : cache[key] \in Entries
    /\ attempt \in [Attempts -> AttemptState]
    /\ owner \in Attempts \cup {"none", "probe"}
    /\ \A a \in Attempts : attempt[a].pc = "dial" <=> owner = a
    /\ client = "idle" <=> owner = "none"

\* README.md:39: a worker has a dedicated way out.  Whatever was stored meanwhile
\* under whatever key, and whichever of two racing attempts stored it last, an
\* attempt leaves through the kind of proxy and the host its worker was bound to.
TransportFitsEndpoint ==
    \A a \in Attempts :
        attempt[a].pc \in {"send", "dial"} =>
            /\ attempt[a].transport.type = attempt[a].proxy.type
            /\ attempt[a].transport.at = attempt[a].proxy.at

=============================================================================
