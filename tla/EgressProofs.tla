---------------------------- MODULE EgressProofs ----------------------------
(***************************************************************************)
(* Theorems about Egress: an attempt leaves through the endpoint its       *)
(* worker was bound to, whatever attempts and the administrator do, and    *)
(* the dials of all of them stay in step with their proxies.               *)
(***************************************************************************)
EXTENDS Egress, Socks5Proofs, TLAPS

\* Every transport is kept under the key of the proxy it was made for.
CacheInv ==
    \A key \in DOMAIN cache : cache[key] \in Entries /\ CacheKey(cache[key]) = key

\* Only a bound proxy is looked up; what is sent has a transport for its endpoint.
AttemptFits(state) ==
    /\ state.pc \in {"look", "store"} => state.proxy \in Entries
    /\ state.pc \in {"send", "dial"} => /\ state.transport.type = state.proxy.type
                                        /\ state.transport.at = state.proxy.at

EndpointInv ==
    /\ bound \in Entries \cup {Direct}
    /\ attempt \in [Attempts -> AttemptState]
    /\ CacheInv
    /\ \A a \in Attempts : AttemptFits(attempt[a])

----------------------------------------------------------------------------
LEMMA EndpointInitInv == ASSUME EgressInit PROVE EndpointInv
<1>1. Idle \in AttemptState /\ AttemptFits(Idle)
  BY SMT DEF Idle, At, AttemptState, AttemptFits
<1>2. DOMAIN cache = {}
  BY SMT DEF EgressInit
<1>3. QED BY <1>1, <1>2 DEF EgressInit, EndpointInv, CacheInv

\* The step of an attempt is judged by the attempt's new state.
LEMMA OneAttempt ==
    ASSUME EndpointInv, NEW a \in Attempts, NEW state \in AttemptState, AttemptFits(state),
           Become(a, state), bound' = bound, CacheInv'
    PROVE  EndpointInv'
<1>1. attempt' \in [Attempts -> AttemptState]
  BY DEF EndpointInv, Become
<1>2. \A b \in Attempts : AttemptFits(attempt'[b])
  BY DEF EndpointInv, Become
<1>3. QED BY <1>1, <1>2 DEF EndpointInv, AttemptFits

LEMMA EndpointStepInv == ASSUME EndpointInv, [EgressNext]_egressVars PROVE EndpointInv'
<1>1. Idle \in AttemptState /\ AttemptFits(Idle)
  BY SMT DEF Idle, At, AttemptState, AttemptFits
<1>2. ASSUME UNCHANGED <<bound, cache, attempt>> PROVE EndpointInv'
  BY <1>2 DEF EndpointInv, CacheInv, AttemptFits, CacheKey
<1>3. ASSUME UNCHANGED cache PROVE CacheInv'
  BY <1>3 DEF EndpointInv, CacheInv, CacheKey
<1>4. ASSUME NEW a \in Attempts, Resolve(a) PROVE EndpointInv'
  <2> DEFINE state == IF bound # Direct /\ usable THEN At("look", bound, Direct)
                      ELSE At("send", Direct, Direct)
  <2>1. Become(a, state) /\ bound' = bound /\ cache' = cache
    BY <1>4 DEF Resolve
  <2>2. state \in AttemptState /\ AttemptFits(state)
    BY SMT DEF EndpointInv, At, AttemptState, AttemptFits
  <2> HIDE DEF state
  <2>3. QED BY <1>3, <2>1, <2>2, OneAttempt
<1>5. ASSUME NEW a \in Attempts, LookUp(a) PROVE EndpointInv'
  <2> DEFINE proxy == attempt[a].proxy
             key == CacheKey(proxy)
             state == IF key \in DOMAIN cache THEN At("send", proxy, cache[key])
                      ELSE At("store", proxy, Direct)
  <2>1. Become(a, state) /\ bound' = bound /\ cache' = cache
    BY <1>5 DEF LookUp
  <2>2. proxy \in Entries
    BY <1>5 DEF LookUp, EndpointInv, AttemptFits
  <2>3. key \in DOMAIN cache =>
           cache[key] \in Entries /\ cache[key].type = proxy.type /\ cache[key].at = proxy.at
    BY DEF EndpointInv, CacheInv, CacheKey
  <2> HIDE DEF proxy, key
  <2>4. state \in AttemptState /\ AttemptFits(state)
    BY <2>2, <2>3, SMT DEF At, AttemptState, AttemptFits
  <2> HIDE DEF state
  <2>5. QED BY <1>3, <2>1, <2>4, OneAttempt
<1>6. ASSUME NEW a \in Attempts, Store(a) PROVE EndpointInv'
  <2> DEFINE proxy == attempt[a].proxy
             state == At("send", proxy, proxy)
  <2>1. proxy \in Entries
    BY <1>6 DEF Store, EndpointInv, AttemptFits
  <2>2. Become(a, state) /\ bound' = bound
    BY <1>6 DEF Store
  <2>3. state \in AttemptState /\ AttemptFits(state)
    BY <2>1, SMT DEF At, AttemptState, AttemptFits
  <2>4. /\ DOMAIN cache' = {CacheKey(proxy)} \cup DOMAIN cache
        /\ \A key \in DOMAIN cache' : cache'[key] = IF key = CacheKey(proxy) THEN proxy ELSE cache[key]
    BY <1>6 DEF Store
  <2>5. CacheInv'
    BY <2>1, <2>4 DEF EndpointInv, CacheInv, CacheKey
  <2> HIDE DEF state
  <2>6. QED BY <2>2, <2>3, <2>5, OneAttempt
<1>7. ASSUME NEW a \in Attempts, SendPlain(a) \/ DialDone(a) PROVE EndpointInv'
  BY <1>1, <1>3, <1>7, OneAttempt DEF SendPlain, DialDone
<1>8. ASSUME NEW a \in Attempts, DialProxy(a) PROVE EndpointInv'
  <2> DEFINE state == At("dial", attempt[a].proxy, attempt[a].transport)
  <2>1. attempt[a] \in AttemptState /\ attempt[a].pc = "send" /\ AttemptFits(attempt[a])
    BY <1>8 DEF DialProxy, EndpointInv
  <2>2. Become(a, state) /\ bound' = bound /\ cache' = cache
    BY <1>8 DEF DialProxy
  <2>3. state \in AttemptState /\ AttemptFits(state)
    BY <2>1, SMT DEF At, AttemptState, AttemptFits
  <2> HIDE DEF state
  <2>4. QED BY <1>3, <2>2, <2>3, OneAttempt
<1>9. CASE Fatal
  <2>1. attempt' = [a \in Attempts |-> Idle] /\ cache' = <<>> /\ bound' = bound
    BY <1>9 DEF Fatal
  <2>2. DOMAIN cache' = {}
    BY <2>1, SMT
  <2>3. CacheInv'
    BY <2>2 DEF CacheInv
  <2>4. \A a \in Attempts : AttemptFits(attempt'[a])
    BY <1>1, <2>1
  <2>5. QED BY <1>1, <2>1, <2>3, <2>4 DEF EndpointInv, AttemptFits
<1>10. ASSUME NEW entry \in Entries \cup {Direct}, Rebind(entry) PROVE EndpointInv'
  <2>1. bound' \in Entries \cup {Direct} /\ cache' = cache /\ attempt' = attempt
    BY <1>10 DEF Rebind
  <2>2. QED BY <1>3, <2>1 DEF EndpointInv, AttemptFits
<1>11. CASE (\E u \in Users : BeginProbe(u)) \/ EndProbe \/ (\E ok \in BOOLEAN : ProbeHTTP(ok)) \/ Handshaking
  BY <1>2, <1>11 DEF BeginProbe, EndProbe, ProbeHTTP, Handshaking
<1>12. CASE UNCHANGED egressVars
  BY <1>2, <1>12 DEF egressVars
<1>13. QED
  BY <1>4, <1>5, <1>6, <1>7, <1>8, <1>9, <1>10, <1>11, <1>12 DEF EgressNext, AttemptStep

\* proxydial.go:44-67: for any attempts and entries, whichever of them share a host
\* and port, no attempt leaves through another kind of proxy or another host.
THEOREM AttemptsUseTheirProxy == EgressSpec => []TransportFitsEndpoint
<1>1. EndpointInv => TransportFitsEndpoint
  BY DEF EndpointInv, AttemptFits, TransportFitsEndpoint
<1>2. QED BY <1>1, EndpointInitInv, EndpointStepInv, PTL DEF EgressSpec

----------------------------------------------------------------------------
(* The invariant of Socks5 through the steps of attempts, pool and process: *)
(* each runs a step of Socks5, ends its dial, or leaves it alone.           *)

LEMMA FatalInv == ASSUME Fatal PROVE SocksInv'
BY FreshInvNext DEF Fatal, ResetSocks

LEMMA EgressSocksInv == ASSUME SocksInv, [EgressNext]_egressVars PROVE SocksInv'
<1>1. ASSUME EndDial PROVE SocksInv'
  BY <1>1, FreshInvNext DEF EndDial
<1>2. ASSUME NEW a \in Attempts, DialProxy(a) PROVE SocksInv'
  <2>1. StartDial("dialer", attempt[a].transport.user)
    BY <1>2 DEF DialProxy
  <2>2. QED BY <2>1, DialInv
<1>3. ASSUME NEW a \in Attempts, Resolve(a) \/ LookUp(a) \/ Store(a) \/ SendPlain(a) PROVE SocksInv'
  BY <1>3, SocksStutter DEF Resolve, LookUp, Store, SendPlain
<1>4. ASSUME NEW a \in Attempts, DialDone(a) PROVE SocksInv'
  BY <1>1, <1>4 DEF DialDone
<1>5. ASSUME NEW u \in Users, BeginProbe(u) PROVE SocksInv'
  <2>1. StartDial("probe", u)
    BY <1>5 DEF BeginProbe
  <2>2. QED BY <2>1, DialInv
<1>6. CASE EndProbe
  BY <1>1, <1>6 DEF EndProbe
<1>7. CASE Handshaking
  BY <1>7, ClientInv, ServerInv DEF Handshaking
<1>8. CASE (\E entry \in Entries \cup {Direct} : Rebind(entry)) \/ \E ok \in BOOLEAN : ProbeHTTP(ok)
  BY <1>8, SocksStutter DEF Rebind, ProbeHTTP
<1>9. CASE UNCHANGED egressVars
  BY <1>9, SocksStutter DEF egressVars
<1>10. QED
  BY <1>2, <1>3, <1>4, <1>5, <1>6, <1>7, <1>8, <1>9, FatalInv DEF EgressNext, AttemptStep

\* proxydial.go:113-183 and 203, as the relay uses them: attempts and probes that
\* follow one another on any proxies, cut off or not by the end of the process,
\* are handed only connections the proxy has granted, and no attempt takes a byte
\* of the handshake for the answer of the upstream.
THEOREM DialsStayInStep == EgressSpec => [](TunnelIsClean /\ HandedOverWhenGranted)
<1>1. EgressInit => SocksInv
  BY FreshInv DEF EgressInit, SocksInit
<1>2. SocksInv => TunnelIsClean /\ HandedOverWhenGranted
  BY DEF SocksInv, TunnelInv, TunnelIsClean, HandedOverWhenGranted, HandedOver
<1>3. QED BY <1>1, <1>2, EgressSocksInv, PTL DEF EgressSpec

----------------------------------------------------------------------------
(* The types of all variables.  An attempt is dialling exactly while the    *)
(* dial is its own, and somebody owns the dial exactly while there is one.  *)

OwnerInv ==
    /\ usable \in BOOLEAN /\ probed \in BOOLEAN
    /\ owner \in Attempts \cup {"none", "probe"}
    /\ \A a \in Attempts : attempt[a].pc = "dial" <=> owner = a
    /\ client = "idle" <=> owner = "none"

\* The keys of the cache are those of entries.
LEMMA CacheKeysFit == CacheInv => DOMAIN cache \subseteq {CacheKey(entry) : entry \in Entries}
<1> SUFFICES ASSUME CacheInv, NEW key \in DOMAIN cache
             PROVE  \E entry \in Entries : key = CacheKey(entry)
  OBVIOUS
<1>1. QED BY DEF CacheInv

LEMMA OwnerStepInv ==
    ASSUME SocksInv, EndpointInv, OwnerInv, [EgressNext]_egressVars
    PROVE  OwnerInv'
<1>1. "none" \notin Attempts /\ "probe" \notin Attempts
  BY EgressAssumption
<1>2. Idle \in AttemptState /\ Idle.pc = "idle"
  BY SMT DEF Idle, At, AttemptState
<1>3. ASSUME NEW a \in Attempts, Resolve(a) \/ LookUp(a) \/ Store(a) \/ SendPlain(a) PROVE OwnerInv'
  <2>1. UNCHANGED <<client, owner, usable, probed>>
    BY <1>3 DEF Resolve, LookUp, Store, SendPlain, socksVars, clientVars
  <2>2. attempt[a].pc # "dial"
    BY <1>3 DEF Resolve, LookUp, Store, SendPlain
  <2>3. \E state : Become(a, state) /\ state.pc # "dial"
    BY <1>2, <1>3, SMT DEF Resolve, LookUp, Store, SendPlain, At
  <2>4. \A b \in Attempts : attempt'[b].pc = "dial" <=> attempt[b].pc = "dial"
    BY <2>2, <2>3 DEF Become, EndpointInv
  <2>5. QED BY <2>1, <2>4 DEF OwnerInv
<1>4. ASSUME NEW a \in Attempts, DialProxy(a) PROVE OwnerInv'
  <2>1. /\ owner = "none" /\ owner' = a /\ UNCHANGED <<usable, probed>>
        /\ client' \in {"method", "failed"}
        /\ Become(a, At("dial", attempt[a].proxy, attempt[a].transport))
    BY <1>4 DEF DialProxy, StartDial
  <2>2. At("dial", attempt[a].proxy, attempt[a].transport).pc = "dial"
    BY DEF At
  <2>3. \A b \in Attempts : attempt'[b].pc = "dial" <=> b = a
    BY <1>1, <2>1, <2>2 DEF Become, EndpointInv, OwnerInv
  <2>4. QED BY <1>1, <2>1, <2>3 DEF OwnerInv
<1>5. ASSUME NEW a \in Attempts, DialDone(a) PROVE OwnerInv'
  <2>1. /\ owner = a /\ owner' = "none" /\ client' = "idle" /\ UNCHANGED <<usable, probed>>
        /\ Become(a, Idle)
    BY <1>5 DEF DialDone, EndDial
  <2>2. \A b \in Attempts : attempt'[b].pc # "dial"
    BY <1>1, <1>2, <2>1 DEF Become, EndpointInv, OwnerInv
  <2>3. QED BY <1>1, <2>1, <2>2 DEF OwnerInv
<1>6. CASE Fatal
  <2>1. /\ \A b \in Attempts : attempt'[b].pc = "idle"
        /\ client' = "idle" /\ owner' = "none" /\ probed' = FALSE /\ usable' = usable
    BY <1>2, <1>6 DEF Fatal, ResetSocks
  <2>2. QED BY <1>1, <2>1 DEF OwnerInv
<1>7. ASSUME NEW entry \in Entries \cup {Direct}, Rebind(entry) PROVE OwnerInv'
  BY <1>7 DEF Rebind, OwnerInv, socksVars, clientVars
<1>8. ASSUME NEW u \in Users, BeginProbe(u) PROVE OwnerInv'
  <2>1. /\ owner = "none" /\ owner' = "probe" /\ UNCHANGED <<usable, attempt>> /\ probed' \in BOOLEAN
        /\ client' \in {"method", "failed"}
    BY <1>8 DEF BeginProbe, StartDial
  <2>2. QED BY <1>1, <2>1 DEF OwnerInv
<1>9. CASE EndProbe
  <2>1. /\ owner = "probe" /\ owner' = "none" /\ UNCHANGED attempt /\ client' = "idle"
        /\ probed' = FALSE
    BY <1>9 DEF EndProbe, EndDial
  <2>2. usable' \in BOOLEAN
    BY <1>9 DEF EndProbe, OwnerInv
  <2>3. QED BY <1>1, <2>1, <2>2 DEF OwnerInv
<1>10. ASSUME NEW ok \in BOOLEAN, ProbeHTTP(ok) PROVE OwnerInv'
  BY <1>10 DEF ProbeHTTP, OwnerInv, socksVars, clientVars
<1>11. CASE Handshaking
  <2>1. UNCHANGED <<usable, attempt, owner, probed>>
    BY <1>11 DEF Handshaking
  <2>2. client' = "idle" <=> client = "idle"
    <3>1. CASE ServerStep
      BY <3>1 DEF ServerStep, HangUp, Answer, BreakOff, clientVars
    <3>2. CASE ClientStep
      <4>1. client # "idle"
        BY <3>2 DEF ClientStep, ReadMethod, ReadAuth, ReadReply, ReadDomainLength, SkipAddress,
           ReadFails, UseTunnel, ReadTunnel
      <4>2. client' # "idle"
        BY <3>2, Zenon DEF ClientStep, ReadMethod, ReadAuth, ReadReply, ReadDomainLength, SkipAddress,
           ReadFails, UseTunnel, ReadTunnel, Proceed, Fail
      <4>3. QED BY <4>1, <4>2
    <3>3. QED BY <1>11, <3>1, <3>2 DEF Handshaking
  <2>3. QED BY <2>1, <2>2 DEF OwnerInv
<1>12. CASE UNCHANGED egressVars
  BY <1>12 DEF egressVars, socksVars, clientVars, OwnerInv
<1>13. QED
  BY <1>3, <1>4, <1>5, <1>6, <1>7, <1>8, <1>9, <1>10, <1>11, <1>12 DEF EgressNext, AttemptStep

\* The types of the connection through the steps of attempts, pool and process.
LEMMA EgressSocksTypes ==
    ASSUME SocksInv, EndTypes, ProxyTypes, EndpointInv, [EgressNext]_egressVars
    PROVE  EndTypes' /\ ProxyTypes'
<1>1. ASSUME NEW k \in {"dialer", "probe"}, NEW u \in Users \cup {0}, StartDial(k, u)
      PROVE  EndTypes' /\ ProxyTypes'
  BY <1>1, StartTypes DEF StartDial, ProxyTypes
<1>2. ASSUME EndDial PROVE EndTypes' /\ ProxyTypes'
  BY <1>2, FreshTypes DEF EndDial
<1>3. ASSUME NEW a \in Attempts, DialProxy(a) PROVE EndTypes' /\ ProxyTypes'
  <2>1. attempt[a].transport \in Entries \cup {Direct}
    BY DEF EndpointInv, AttemptState
  <2>2. attempt[a].transport.user \in Users \cup {0}
    <3>1. CASE attempt[a].transport \in Entries
      BY <3>1, EgressAssumption
    <3>2. CASE attempt[a].transport = Direct
      <4>1. Direct.user = 0
        BY DEF Direct
      <4>2. QED BY <3>2, <4>1
    <3>3. QED BY <2>1, <3>1, <3>2
  <2>3. StartDial("dialer", attempt[a].transport.user)
    BY <1>3 DEF DialProxy
  <2>4. QED BY <1>1, <2>2, <2>3
<1>4. ASSUME NEW a \in Attempts, Resolve(a) \/ LookUp(a) \/ Store(a) \/ SendPlain(a)
      PROVE  EndTypes' /\ ProxyTypes'
  BY <1>4, StutterTypes DEF Resolve, LookUp, Store, SendPlain
<1>5. ASSUME NEW a \in Attempts, DialDone(a) PROVE EndTypes' /\ ProxyTypes'
  BY <1>2, <1>5 DEF DialDone
<1>6. CASE Fatal
  BY <1>6, FreshTypes DEF Fatal, ResetSocks
<1>7. ASSUME NEW u \in Users, BeginProbe(u) PROVE EndTypes' /\ ProxyTypes'
  <2>1. StartDial("probe", u)
    BY <1>7 DEF BeginProbe
  <2>2. QED BY <1>1, <2>1
<1>8. CASE EndProbe
  BY <1>2, <1>8 DEF EndProbe
<1>9. CASE (\E entry \in Entries \cup {Direct} : Rebind(entry)) \/ \E ok \in BOOLEAN : ProbeHTTP(ok)
  BY <1>9, StutterTypes DEF Rebind, ProbeHTTP
<1>10. CASE Handshaking
  BY <1>10, ClientTypes, ServerTypes DEF Handshaking
<1>11. CASE UNCHANGED egressVars
  BY <1>11, StutterTypes DEF egressVars
<1>12. QED
  BY <1>3, <1>4, <1>5, <1>6, <1>7, <1>8, <1>9, <1>10, <1>11 DEF EgressNext, AttemptStep

\* The types of attempts, cache, pool and connection.  However attempts, probes and
\* the end of the process interleave, a dial has one owner and an owner one dial.
THEOREM EgressTypesHold == EgressSpec => []EgressTypeOK
<1> DEFINE Types == SocksInv /\ EndTypes /\ ProxyTypes /\ EndpointInv /\ OwnerInv
<1>1. EgressInit => Types
  <2>1. SUFFICES ASSUME EgressInit PROVE SocksInv /\ EndTypes /\ ProxyTypes /\ EndpointInv /\ OwnerInv
    OBVIOUS
  <2>2. SocksInv /\ EndTypes /\ ProxyTypes
    BY <2>1, FreshInv, InitTypes DEF EgressInit, SocksInit
  <2>3. OwnerInv
    BY <2>1, EgressAssumption DEF EgressInit, SocksInit, OwnerInv, Idle, At
  <2>4. QED BY <2>1, <2>2, <2>3, EndpointInitInv
<1>2. Types /\ [EgressNext]_egressVars => Types'
  BY EgressSocksInv, EgressSocksTypes, EndpointStepInv, OwnerStepInv
<1>3. Types => EgressTypeOK
  BY TypesTogether, CacheKeysFit DEF EndpointInv, CacheInv, OwnerInv, EgressTypeOK
<1> HIDE DEF Types
<1>4. QED BY <1>1, <1>2, <1>3, PTL DEF EgressSpec
=============================================================================
