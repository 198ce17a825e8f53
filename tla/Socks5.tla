------------------------------- MODULE Socks5 -------------------------------
(***************************************************************************)
(* One connection through a SOCKS5 proxy (RFC 1928): dialSOCKS5 of         *)
(* internal/relayproxy/proxydial.go, its copy dialSOCKS5Probe of           *)
(* internal/pool/pool.go, and the proxy they talk to.                      *)
(*                                                                         *)
(* Client and proxy are two processes over a byte stream.  The client      *)
(* always reads a known number of bytes and waits for all of them, so how  *)
(* TCP cuts the stream into segments cannot be seen and the proxy sends a  *)
(* message in one step; it may also break off inside one and close.        *)
(***************************************************************************)
EXTENDS Naturals, Sequences

CONSTANTS
    Users,          \* the lengths of the user names in this instance; 0 is no user
    MaxCredential,  \* 255: what the length byte of a credential can say
    Methods,        \* the methods a proxy may choose
    Codes,          \* the status codes a proxy may reply
    DomainLengths   \* the lengths of the domain names in its replies

Version == 5
NoAuth == 0
UserPass == 2
Granted == 0
IPv4 == 1
Domain == 3
IPv6 == 4

ASSUME SocksAssumption ==
    /\ Users \subseteq Nat
    /\ MaxCredential \in Nat \ {0}
    /\ Methods \subseteq Nat /\ Codes \subseteq Nat /\ DomainLengths \subseteq Nat

VARIABLES
    client, \* what the client does next, or how its dial ended
    kind,   \* who dials: the relay's dialer or a probe of the pool
    user,   \* the length of the user name and of the password, until it is used
    rest,   \* how many bytes of the bound address the client still skips
    conn,   \* the client's end of the connection
    first,  \* whose bytes the first read after the handshake gave
    server, \* the message the proxy expects next
    inbox,  \* the message under way to the proxy
    stream, \* the bytes under way to the client
    eof,    \* whether the proxy has closed its end
    granted \* history: the proxy has agreed to connect to the target

clientVars == <<client, kind, user, rest, conn, first>>
serverVars == <<server, inbox, stream, eof, granted>>
socksVars == <<clientVars, serverVars>>

Handshake == {"method", "auth", "reply", "domain", "address"}
HandedOver == {"connected", "waiting", "done"}

\* Two bytes whose value nobody in the handshake looks at.
Filler == 7          \* inside an address
TargetData == 1000   \* from the target, through the tunnel: no byte of the proxy's own

SocksInit ==
    /\ client = "idle" /\ kind = "dialer" /\ user = 0 /\ rest = 0
    /\ conn = "none" /\ first = "none"
    /\ server = "greeting" /\ inbox = "none" /\ stream = <<>>
    /\ eof = FALSE /\ granted = FALSE

----------------------------------------------------------------------------
(* The client. *)

\* io.ReadFull waits for n bytes, or for an end of the stream before them.
CanRead(n) == Len(stream) >= n
CutShort(n) == eof /\ Len(stream) < n
Consume(n) == stream' = SubSeq(stream, n + 1, Len(stream))

FailLeavingOpen ==   \* mutant
    client' = "failed" /\ inbox' = "none" /\ stream' = <<>> /\ UNCHANGED <<rest, conn>>

\* Nothing under way matters any more.
Fail ==
    /\ client' = "failed" /\ conn' = "closed"
    /\ inbox' = "none" /\ stream' = <<>> /\ UNCHANGED rest

\* After reading n bytes the client sends a message, unless the proxy has gone
\* and the write fails, or the name or port of the target does not fit into the request.
Proceed(n, message, next) ==
    \/ /\ client' = next /\ inbox' = message /\ Consume(n)
       /\ UNCHANGED <<rest, conn>>
    \/ eof /\ Fail
    \/ message = "connect" /\ Fail

\* A TCP connection is made and the greeting written, or neither.
StartDial(k, u) ==
    /\ client = "idle"
    /\ kind' = k /\ user' = u
    /\ \/ client' = "method" /\ conn' = "open" /\ inbox' = "greeting"
       \/ client' = "failed" /\ UNCHANGED <<conn, inbox>>
    /\ UNCHANGED <<rest, first, server, stream, eof, granted>>

ReadMethod ==
    /\ client = "method" /\ CanRead(2)
    /\ LET chosen(method) == SubSeq(stream, 1, 2) = <<Version, method>>
           login == chosen(UserPass) /\ user \in 1..MaxCredential
       IN  \/ chosen(NoAuth) /\ Proceed(2, "connect", "reply")
           \/ login /\ Proceed(2, "auth", "auth")
           \/ ~chosen(NoAuth) /\ ~login /\ Fail
    /\ user' = 0
    /\ UNCHANGED <<kind, first, server, eof, granted>>

ReadAuth ==
    /\ client = "auth" /\ CanRead(2)
    /\ \/ stream[2] = Granted /\ Proceed(2, "connect", "reply")
       \/ stream[2] # Granted /\ Fail
    /\ UNCHANGED <<kind, user, first, server, eof, granted>>

\* Mutant: the byte behind the code is checked.
ReadReplyReserved ==
    /\ client = "reply" /\ CanRead(4)
    /\ LET atyp == stream[4]
           goOn(next, n) == client' = next /\ rest' = n /\ Consume(4) /\ UNCHANGED <<conn, inbox>>
           good == stream[3] = Granted
       IN  \/ good /\ kind = "probe" /\ goOn("connected", 0)
           \/ good /\ kind = "dialer" /\ atyp = IPv4 /\ goOn("address", 6)
           \/ good /\ kind = "dialer" /\ atyp = IPv6 /\ goOn("address", 18)
           \/ good /\ kind = "dialer" /\ atyp = Domain /\ goOn("domain", 0)
           \/ ~good /\ Fail
           \/ good /\ kind = "dialer" /\ atyp \notin {IPv4, IPv6, Domain} /\ Fail
    /\ UNCHANGED <<kind, user, first, server, eof, granted>>

\* The first four bytes of the reply.  The dialer goes on with the bound address;
\* the probe hands the connection over.
ReadReply ==
    /\ client = "reply" /\ CanRead(4)
    /\ LET atyp == stream[4]
           goOn(next, n) == client' = next /\ rest' = n /\ Consume(4) /\ UNCHANGED <<conn, inbox>>
           good == stream[2] = Granted
       IN  \/ good /\ kind = "probe" /\ goOn("connected", 0)
           \/ good /\ kind = "dialer" /\ atyp = IPv4 /\ goOn("address", 6)
           \/ good /\ kind = "dialer" /\ atyp = IPv6 /\ goOn("address", 18)
           \/ good /\ kind = "dialer" /\ atyp = Domain /\ goOn("domain", 0)
           \/ ~good /\ Fail
           \/ good /\ kind = "dialer" /\ atyp \notin {IPv4, IPv6, Domain} /\ Fail
    /\ UNCHANGED <<kind, user, first, server, eof, granted>>

\* Mutants: the port behind the name is forgotten, or counted twice.
ReadNameLength ==
    /\ client = "domain" /\ CanRead(1)
    /\ client' = "address" /\ rest' = stream[1] /\ Consume(1)
    /\ UNCHANGED <<kind, user, conn, first, server, inbox, eof, granted>>

ReadDomainLengthTwice ==
    /\ client = "domain" /\ CanRead(1)
    /\ client' = "address" /\ rest' = stream[1] + 4 /\ Consume(1)
    /\ UNCHANGED <<kind, user, conn, first, server, inbox, eof, granted>>

ReadDomainLength ==
    /\ client = "domain" /\ CanRead(1)
    /\ client' = "address" /\ rest' = stream[1] + 2 /\ Consume(1)
    /\ UNCHANGED <<kind, user, conn, first, server, inbox, eof, granted>>

\* io.CopyN's error is ignored: at the end of the stream it skips what there is.
SkipAddress ==
    /\ client = "address"
    /\ CanRead(rest) \/ CutShort(rest)
    /\ client' = "connected" /\ rest' = 0 /\ Consume(rest)
    /\ UNCHANGED <<kind, user, conn, first, server, inbox, eof, granted>>

ReadFails ==
    /\ \/ client \in {"method", "auth"} /\ CutShort(2)
       \/ client = "reply" /\ CutShort(4)
       \/ client = "domain" /\ CutShort(1)
    /\ Fail
    /\ UNCHANGED <<kind, user, first, server, eof, granted>>

\* The dial has returned; net/http speaks to the target first (TLS) and reads
\* the answer.
UseTunnel ==
    /\ client = "connected"
    /\ client' = "waiting" /\ inbox' = "data"
    /\ UNCHANGED <<kind, user, rest, conn, first, server, stream, eof, granted>>

ReadTunnel ==
    /\ client = "waiting"
    /\ stream # <<>> \/ eof
    /\ client' = "done"
    /\ first' = IF stream = <<>> THEN "nobody"
                ELSE IF stream[1] = TargetData THEN "target" ELSE "proxy"
    /\ stream' = <<>> /\ inbox' = "none"
    /\ UNCHANGED <<kind, user, rest, conn, server, eof, granted>>

----------------------------------------------------------------------------
(* The proxy.  Its messages are well-formed unless it breaks off.           *)

Fill(n) == [i \in 1..n |-> Filler]

Address(atyp) ==
    CASE atyp = IPv4   -> {Fill(4 + 2)}
      [] atyp = IPv6   -> {Fill(16 + 2)}
      [] atyp = Domain -> {<<n>> \o Fill(n + 2) : n \in DomainLengths}
      [] OTHER         -> {<<>>}

\* The messages of each stage, each with the stage that follows it.
MethodReplies ==
    {[bytes |-> <<version, method>>,
      next |-> CASE method = NoAuth /\ version = Version -> "connect"
                 [] method = UserPass /\ version = Version -> "auth"
                 [] OTHER -> "closed"] :
        version \in {Version, 4}, method \in Methods}

AuthReplies ==
    {[bytes |-> <<1, code>>, next |-> IF code = Granted THEN "connect" ELSE "closed"] : code \in Codes}

ConnectReply(code, atyp, address) ==
    [bytes |-> <<Version, code, 0, atyp>> \o address,
     next |-> IF code = Granted THEN "tunnel" ELSE "closed"]

ConnectReplies ==
    UNION {{ConnectReply(code, atyp, address) : address \in Address(atyp)} :
           code \in Codes, atyp \in {0, IPv4, Domain, IPv6}}

Replies(stage) ==
    CASE stage = "greeting" -> MethodReplies
      [] stage = "auth"     -> AuthReplies
      [] stage = "connect"  -> ConnectReplies
      [] OTHER              -> {[bytes |-> <<TargetData>>, next |-> "tunnel"]}

Expected(stage) == IF stage = "tunnel" THEN "data" ELSE stage

Answer(stage) ==
    /\ server = stage /\ inbox = Expected(stage)
    /\ \E reply \in Replies(stage) :
          /\ stream' = stream \o reply.bytes
          /\ server' = reply.next
          /\ eof' = (reply.next = "closed")
          /\ granted' = (granted \/ reply.next = "tunnel")
    /\ inbox' = "none"
    /\ UNCHANGED clientVars

BreakOff(stage) ==
    /\ server = stage /\ inbox = Expected(stage)
    /\ \E reply \in Replies(stage) : \E n \in 0..(Len(reply.bytes) - 1) :
          /\ stream' = stream \o SubSeq(reply.bytes, 1, n)
          /\ granted' = (granted \/ reply.next = "tunnel")
    /\ server' = "closed" /\ eof' = TRUE /\ inbox' = "none"
    /\ UNCHANGED clientVars

Stages == {"greeting", "auth", "connect", "tunnel"}

\* A proxy may go at any time, and goes when it does not understand a message.
HangUp ==
    /\ server \in Stages
    /\ client \in Handshake \cup {"connected", "waiting"}
    /\ server' = "closed" /\ eof' = TRUE /\ inbox' = "none"
    /\ UNCHANGED <<clientVars, stream, granted>>

----------------------------------------------------------------------------
(* The goroutine that dialled takes the result; the connection is closed or *)
(* kept by net/http, and the next dial uses a new one.                      *)
EndDial ==
    /\ client \in {"done", "failed"}
    /\ client' = "idle" /\ kind' = "dialer" /\ user' = 0 /\ rest' = 0
    /\ conn' = "none" /\ first' = "none"
    /\ server' = "greeting" /\ inbox' = "none" /\ stream' = <<>>
    /\ eof' = FALSE /\ granted' = FALSE

ClientStep ==
    \/ ReadMethod \/ ReadAuth \/ ReadReply \/ ReadDomainLength \/ SkipAddress
    \/ ReadFails
    \/ UseTunnel \/ ReadTunnel

ServerStep == HangUp \/ \E stage \in Stages : Answer(stage) \/ BreakOff(stage)

SocksNext ==
    \/ \E k \in {"dialer", "probe"}, u \in Users : StartDial(k, u)
    \/ ClientStep \/ ServerStep
    \/ EndDial

SocksSpec == SocksInit /\ [][SocksNext]_socksVars

(***************************************************************************)
(* Neither end has a deadline once TCP is connected.  That a dial ends is  *)
(* a claim about the proxy: one that has a message answers it or closes.   *)
(***************************************************************************)
ServerResponds == inbox # "none" /\ ServerStep
SocksFairness == WF_socksVars(ClientStep) /\ WF_socksVars(ServerResponds)

FairSocksSpec == SocksSpec /\ SocksFairness

----------------------------------------------------------------------------
(* Properties. *)

\* No way out of a dial leaves the connection open or unfinished work behind: it
\* is open exactly while the handshake runs or after it was handed over.
SocksTypeOK ==
    /\ client \in {"idle", "failed"} \cup Handshake \cup HandedOver
    /\ kind \in {"dialer", "probe"} /\ user \in Users \cup {0}
    /\ rest \in Nat
    /\ conn \in {"none", "open", "closed"}
    /\ conn = "open" <=> client \in Handshake \cup HandedOver
    /\ rest > 0 => client = "address"
    /\ first \in {"none", "target", "proxy", "nobody"}
    /\ server \in Stages \cup {"closed"}
    /\ inbox \in {"none", "greeting", "auth", "connect", "data"}
    /\ stream \in Seq(Nat)
    /\ eof <=> server = "closed"
    /\ granted \in BOOLEAN

\* proxydial.go:203: whatever form of address the proxy replies, and wherever it
\* breaks off, nothing of the handshake is taken for the answer of the target.
TunnelIsClean == kind = "dialer" => first \in {"none", "target", "nobody"}

\* A connection is handed over only when the proxy has granted the whole of it:
\* no client comes out of step with the proxy it speaks to, whatever it replies.
HandedOverWhenGranted == client \in HandedOver => granted

\* Every dial ends, whether the proxy answers, refuses or goes: the client never
\* waits for more bytes than the proxy sends before it waits for the client.
DialEnds == client = "method" ~> client \in {"done", "failed", "idle"}

----------------------------------------------------------------------------
(* What a comment says and the code does not do. *)

\* pool.go:242 and 274: a probe tests whether the proxy can carry a request, and
\* any answer proves it.  Here: a probe that comes through reads the target.
ProbeReachesTarget == kind = "probe" => first \in {"none", "target", "nobody"}

=============================================================================
