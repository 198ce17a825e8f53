---------------------------- MODULE Socks5Proofs ----------------------------
(***************************************************************************)
(* Theorems about Socks5: client and proxy stay in step for every proxy    *)
(* that sends well-formed messages and may break off after any byte.       *)
(***************************************************************************)
EXTENDS Socks5, SequenceTheorems, TLAPS

\* How long a reply is that begins with these bytes.
ReplyFits(bytes) ==
    Len(bytes) >= 4 =>
        /\ bytes[4] = IPv4 => Len(bytes) <= 10
        /\ bytes[4] = IPv6 => Len(bytes) <= 22
        /\ bytes[4] = Domain /\ Len(bytes) >= 5 => Len(bytes) <= bytes[5] + 7

(***************************************************************************)
(* The inductive invariant: what is under way in either direction at each  *)
(* point of the client.  The proxy speaks only when it was spoken to, and  *)
(* never sends more than the client will read before it speaks again.      *)
(***************************************************************************)
BytesInv ==
    /\ stream \in Seq(Nat)
    /\ inbox \in {"greeting", "auth", "connect"} => stream = <<>>

HandshakeInv ==
    /\ client \in {"idle", "failed"} => inbox = "none" /\ stream = <<>>
    /\ client = "method" => inbox \in {"none", "greeting"} /\ Len(stream) <= 2
    /\ client = "auth" => inbox \in {"none", "auth"} /\ Len(stream) <= 2
    /\ client = "reply" =>
          /\ inbox \in {"none", "connect"}
          /\ Len(stream) >= 4 /\ stream[2] = Granted => granted
          /\ ReplyFits(stream)
    /\ client = "domain" =>
          /\ inbox = "none" /\ granted /\ kind = "dialer"
          /\ Len(stream) >= 1 => Len(stream) <= stream[1] + 3
    /\ client = "address" =>
          inbox = "none" /\ granted /\ kind = "dialer" /\ rest \in Nat /\ Len(stream) <= rest

TunnelInv ==
    /\ client = "connected" => inbox = "none" /\ granted /\ (kind = "dialer" => stream = <<>>)
    /\ client = "waiting" =>
          /\ inbox \in {"none", "data"} /\ granted
          /\ kind = "dialer" => \A i \in 1..Len(stream) : stream[i] = TargetData
    /\ client = "done" => inbox = "none" /\ granted
    /\ client = "idle" => first = "none"
    /\ kind = "dialer" => first \in {"none", "target", "nobody"}

ClientStates == {"idle", "failed", "done", "method", "auth", "reply", "domain", "address",
                 "connected", "waiting"}

SocksInv == client \in ClientStates /\ BytesInv /\ HandshakeInv /\ TunnelInv

----------------------------------------------------------------------------
(* The messages of the proxy. *)

LEMMA AddressFacts ==
    ASSUME NEW atyp \in {0, IPv4, Domain, IPv6}, NEW address \in Address(atyp)
    PROVE  /\ address \in Seq(Nat)
           /\ atyp = IPv4 => Len(address) = 6
           /\ atyp = IPv6 => Len(address) = 18
           /\ atyp = Domain => Len(address) >= 1 /\ Len(address) = address[1] + 3
<1>1. \A n \in Nat : Fill(n) \in Seq(Nat) /\ Len(Fill(n)) = n
  BY SMT DEF Fill, Filler
<1>2. CASE atyp = IPv4
  <2>1. address = Fill(6)
    BY <1>2, SMT DEF Address, IPv4, IPv6, Domain
  <2>2. Fill(6) \in Seq(Nat) /\ Len(Fill(6)) = 6
    BY <1>1
  <2>3. atyp # IPv6 /\ atyp # Domain
    BY <1>2 DEF IPv4, IPv6, Domain
  <2>4. QED BY <1>2, <2>1, <2>2, <2>3
<1>3. CASE atyp = IPv6
  <2>1. address = Fill(18)
    BY <1>3, SMT DEF Address, IPv4, IPv6, Domain
  <2>2. Fill(18) \in Seq(Nat) /\ Len(Fill(18)) = 18
    BY <1>1
  <2>3. atyp # IPv4 /\ atyp # Domain
    BY <1>3 DEF IPv4, IPv6, Domain
  <2>4. QED BY <1>3, <2>1, <2>2, <2>3
<1>4. CASE atyp = Domain
  <2>1. PICK n \in DomainLengths : address = <<n>> \o Fill(n + 2)
    <3>1. Domain # IPv4 /\ Domain # IPv6
      BY DEF IPv4, IPv6, Domain
    <3>2. Address(Domain) = {<<n>> \o Fill(n + 2) : n \in DomainLengths}
      BY <3>1, Zenon DEF Address
    <3>3. QED BY <1>4, <3>2, Zenon
  <2>2. n \in Nat
    BY SocksAssumption
  <2> DEFINE m == n + 2
  <2> m \in Nat BY <2>2
  <2> HIDE DEF m
  <2>3. Fill(m) \in Seq(Nat) /\ Len(Fill(m)) = m
    BY <1>1
  <2>4. <<n>> \in Seq(Nat) /\ Len(<<n>>) = 1 /\ <<n>>[1] = n
    BY <2>2, SMT
  <2>5. address = <<n>> \o Fill(m)
    BY <2>1 DEF m
  <2>6. /\ address \in Seq(Nat)
        /\ Len(address) = Len(<<n>>) + Len(Fill(m))
        /\ \A i \in 1..(Len(<<n>>) + Len(Fill(m))) :
              address[i] = IF i <= Len(<<n>>) THEN <<n>>[i] ELSE Fill(m)[i - Len(<<n>>)]
    BY <2>3, <2>4, <2>5, ConcatProperties
  <2>7. Len(address) = n + 3 /\ address[1] = n
    BY <2>2, <2>3, <2>4, <2>6 DEF m
  <2>8. atyp # IPv4 /\ atyp # IPv6
    BY <1>4 DEF IPv4, IPv6, Domain
  <2>9. QED BY <1>4, <2>2, <2>6, <2>7, <2>8
<1>5. CASE atyp = 0
  <2>1. address = <<>>
    BY <1>5, SMT DEF Address, IPv4, IPv6, Domain
  <2>2. QED BY <1>5, <2>1, SMT DEF IPv4, IPv6, Domain
<1>6. QED BY <1>2, <1>3, <1>4, <1>5

\* What the client relies on, of each stage's messages.
LEMMA ReplyFacts ==
    ASSUME NEW stage \in Stages, NEW reply \in Replies(stage)
    PROVE  /\ reply.bytes \in Seq(Nat)
           /\ stage \in {"greeting", "auth"} => Len(reply.bytes) = 2
           /\ stage = "connect" =>
                 /\ Len(reply.bytes) >= 4
                 /\ reply.bytes[2] = Granted => reply.next = "tunnel"
                 /\ ReplyFits(reply.bytes)
                 /\ reply.bytes[4] = Domain => Len(reply.bytes) >= 5
           /\ stage = "tunnel" => Len(reply.bytes) = 1 /\ reply.bytes[1] = TargetData
<1>1. CASE stage = "greeting"
  <2>1. PICK version \in {Version, 4}, method \in Methods : reply.bytes = <<version, method>>
    BY <1>1, SMT DEF Replies, MethodReplies
  <2>2. version \in Nat /\ method \in Nat
    BY SocksAssumption, SMT DEF Version
  <2>3. QED BY <1>1, <2>1, <2>2, SMT
<1>2. CASE stage = "auth"
  <2>1. PICK code \in Codes : reply.bytes = <<1, code>>
    BY <1>2, SMT DEF Replies, AuthReplies
  <2>2. code \in Nat
    BY SocksAssumption
  <2>3. QED BY <1>2, <2>1, <2>2, SMT
<1>3. CASE stage = "connect"
  <2>1. PICK code \in Codes, atyp \in {0, IPv4, Domain, IPv6} :
           \E address \in Address(atyp) : reply = ConnectReply(code, atyp, address)
    <3>1. reply \in ConnectReplies
      BY <1>3 DEF Replies
    <3>2. QED BY <3>1, SMT DEF ConnectReplies
  <2>2. PICK address \in Address(atyp) : reply = ConnectReply(code, atyp, address)
    BY <2>1
  <2>3. code \in Nat /\ atyp \in Nat
    BY SocksAssumption, SMT DEF IPv4, IPv6, Domain
  <2> DEFINE head == <<Version, code, 0, atyp>>
  <2>4. head \in Seq(Nat) /\ Len(head) = 4 /\ head[2] = code /\ head[4] = atyp
    BY <2>3, SMT DEF Version
  <2>5. reply.bytes = head \o address /\ (code = Granted => reply.next = "tunnel")
    BY <2>2 DEF ConnectReply
  <2> HIDE DEF head
  <2>6. /\ address \in Seq(Nat)
        /\ atyp = IPv4 => Len(address) = 6
        /\ atyp = IPv6 => Len(address) = 18
        /\ atyp = Domain => Len(address) >= 1 /\ Len(address) = address[1] + 3
    BY AddressFacts
  <2> DEFINE bytes == reply.bytes
  <2>7. /\ bytes \in Seq(Nat) /\ Len(bytes) = 4 + Len(address)
        /\ \A i \in 1..(4 + Len(address)) :
              bytes[i] = IF i <= 4 THEN head[i] ELSE address[i - 4]
    <3>1. /\ head \o address \in Seq(Nat) /\ Len(head \o address) = Len(head) + Len(address)
          /\ \A i \in 1..(Len(head) + Len(address)) :
                (head \o address)[i] = IF i <= Len(head) THEN head[i] ELSE address[i - Len(head)]
      BY <2>4, <2>6, ConcatProperties
    <3>2. bytes = head \o address
      BY <2>5
    <3> HIDE DEF bytes
    <3>3. QED BY <2>4, <3>1, <3>2
  <2>8. Len(address) \in Nat
    BY <2>6, LenProperties
  <2> HIDE DEF bytes
  <2>9. bytes[2] = code /\ bytes[4] = atyp
    BY <2>4, <2>7, <2>8
  <2>10. Len(address) >= 1 => bytes[5] = address[1] /\ address[1] \in Nat
    BY <2>6, <2>7, <2>8, ElementOfSeq
  <2>11. /\ bytes[4] = IPv4 => Len(bytes) = 10
         /\ bytes[4] = IPv6 => Len(bytes) = 22
         /\ bytes[4] = Domain => Len(bytes) >= 5 /\ Len(bytes) = bytes[5] + 7
    <3>1. Len(bytes) = 4 + Len(address)
      BY <2>7
    <3>2. CASE atyp = Domain
      <4>1. Len(address) >= 1 /\ Len(address) = address[1] + 3
        BY <2>6, <3>2
      <4>2. bytes[5] = address[1] /\ address[1] \in Nat
        BY <2>10, <4>1
      <4>3. Len(bytes) >= 5 /\ Len(bytes) = bytes[5] + 7
        BY <2>8, <3>1, <4>1, <4>2
      <4>4. bytes[4] # IPv4 /\ bytes[4] # IPv6
        BY <2>9, <3>2 DEF IPv4, IPv6, Domain
      <4>5. QED BY <4>3, <4>4
    <3>3. CASE atyp # Domain
      <4>1. bytes[4] # Domain
        BY <2>9, <3>3
      <4>2. (atyp = IPv4 => Len(address) = 6) /\ (atyp = IPv6 => Len(address) = 18)
        BY <2>6, Zenon
      <4>3. 4 + 6 = 10 /\ 4 + 18 = 22
        OBVIOUS
      <4>4. (bytes[4] = IPv4 => Len(bytes) = 10) /\ (bytes[4] = IPv6 => Len(bytes) = 22)
        BY <2>9, <3>1, <4>2, <4>3, Zenon
      <4>5. QED BY <4>1, <4>4
    <3>4. QED BY <3>2, <3>3
  <2>12. ReplyFits(bytes) /\ Len(bytes) >= 4 /\ (bytes[4] = Domain => Len(bytes) >= 5)
    BY <2>7, <2>8, <2>11 DEF ReplyFits
  <2>13. QED BY <1>3, <2>5, <2>7, <2>9, <2>12 DEF bytes
<1>4. CASE stage = "tunnel"
  <2>1. reply.bytes = <<TargetData>>
    BY <1>4, SMT DEF Replies
  <2>2. QED BY <1>4, <2>1, SMT DEF TargetData
<1>5. QED BY <1>1, <1>2, <1>3, <1>4 DEF Stages

----------------------------------------------------------------------------
(* Beginnings and ends of a sequence of bytes. *)

LEMMA PrefixFacts ==
    ASSUME NEW s \in Seq(Nat), NEW n \in 0..Len(s)
    PROVE  /\ SubSeq(s, 1, n) \in Seq(Nat) /\ Len(SubSeq(s, 1, n)) = n
           /\ \A i \in 1..n : SubSeq(s, 1, n)[i] = s[i]
<1>1. Len(s) \in Nat
  BY LenProperties
<1>2. \A i \in 1..n : s[i] \in Nat
  BY <1>1, ElementOfSeq
<1>3. /\ SubSeq(s, 1, n) \in Seq(Nat)
      /\ Len(SubSeq(s, 1, n)) = IF 1 <= n THEN n - 1 + 1 ELSE 0
      /\ \A i \in 1..(n - 1 + 1) : SubSeq(s, 1, n)[i] = s[1 + i - 1]
  BY <1>1, <1>2, SubSeqProperties
<1>4. QED BY <1>1, <1>3

LEMMA RestFacts ==
    ASSUME NEW s \in Seq(Nat), NEW n \in 0..Len(s)
    PROVE  /\ SubSeq(s, n + 1, Len(s)) \in Seq(Nat)
           /\ Len(SubSeq(s, n + 1, Len(s))) = Len(s) - n
           /\ \A i \in 1..(Len(s) - n) : SubSeq(s, n + 1, Len(s))[i] = s[n + i]
<1>1. Len(s) \in Nat
  BY LenProperties
<1>2. \A i \in (n + 1)..Len(s) : s[i] \in Nat
  BY <1>1, ElementOfSeq
<1> DEFINE m == n + 1
<1>3. m \in Int
  BY <1>1
<1>4. \A i \in m..Len(s) : s[i] \in Nat
  BY <1>2
<1> HIDE DEF m
<1>5. /\ SubSeq(s, m, Len(s)) \in Seq(Nat)
      /\ Len(SubSeq(s, m, Len(s))) = IF m <= Len(s) THEN Len(s) - m + 1 ELSE 0
      /\ \A i \in 1..(Len(s) - m + 1) : SubSeq(s, m, Len(s))[i] = s[m + i - 1]
  BY <1>1, <1>3, <1>4, SubSeqProperties
<1>6. QED BY <1>1, <1>5 DEF m

LEMMA NothingLeft ==
    ASSUME NEW s \in Seq(Nat), NEW n \in Nat, Len(s) <= n
    PROVE  SubSeq(s, n + 1, Len(s)) = <<>>
<1>1. Len(s) \in Nat
  BY LenProperties
<1>2. n + 1 \in Int /\ Len(s) \in Int /\ Len(s) < n + 1
  BY <1>1
<1>3. QED BY <1>2, SubSeqEmpty

----------------------------------------------------------------------------
(* The proxy. *)

\* A message, or the beginning of one, arrives.
LEMMA ServerSends ==
    ASSUME SocksInv, NEW stage \in Stages, inbox = Expected(stage),
           NEW reply \in Replies(stage), NEW n \in 0..Len(reply.bytes),
           stream' = stream \o SubSeq(reply.bytes, 1, n),
           granted' = (granted \/ reply.next = "tunnel"),
           inbox' = "none", UNCHANGED clientVars
    PROVE  SocksInv'
<1> DEFINE bytes == reply.bytes
           sent == SubSeq(bytes, 1, n)
<1>1. /\ bytes \in Seq(Nat)
      /\ stage \in {"greeting", "auth"} => Len(bytes) = 2
      /\ stage = "connect" =>
            /\ Len(bytes) >= 4
            /\ bytes[2] = Granted => reply.next = "tunnel"
            /\ ReplyFits(bytes)
            /\ bytes[4] = Domain => Len(bytes) >= 5
      /\ stage = "tunnel" => Len(bytes) = 1 /\ bytes[1] = TargetData
  BY ReplyFacts
<1>2. sent \in Seq(Nat) /\ Len(sent) = n /\ \A i \in 1..n : sent[i] = bytes[i]
  BY <1>1, PrefixFacts
<1>n. n \in Nat /\ Len(bytes) \in Nat /\ n <= Len(bytes)
  BY <1>1, LenProperties
<1>g. granted' = (granted \/ reply.next = "tunnel")
  OBVIOUS
<1>3. stream' = stream \o sent
  OBVIOUS
<1> HIDE DEF sent, bytes
<1>4. stream \in Seq(Nat) /\ stream' \in Seq(Nat)
  BY <1>2, <1>3, ConcatProperties DEF SocksInv, BytesInv
<1>5. BytesInv'
  BY <1>4 DEF BytesInv
<1>6. CASE stage = "tunnel"
  <2>1. client = "waiting" /\ client' = "waiting" /\ first' = first /\ kind' = kind
    BY <1>6 DEF Expected, SocksInv, HandshakeInv, TunnelInv, ClientStates, clientVars
  <2>2. \A i \in 1..Len(sent) : sent[i] = TargetData
    <3>1. Len(bytes) = 1 /\ bytes[1] = TargetData
      BY <1>1, <1>6, Zenon
    <3>2. QED BY <1>2, <1>n, <3>1
  <2>3. kind = "dialer" => \A i \in 1..Len(stream) : stream[i] = TargetData
    BY <2>1 DEF SocksInv, TunnelInv
  <2>4. /\ Len(stream \o sent) = Len(stream) + Len(sent)
        /\ \A i \in 1..(Len(stream) + Len(sent)) :
              (stream \o sent)[i] = IF i <= Len(stream) THEN stream[i] ELSE sent[i - Len(stream)]
    BY <1>2, <1>4, ConcatProperties
  <2>5. Len(stream) \in Nat /\ Len(sent) \in Nat
    BY <1>2, <1>4, LenProperties
  <2>6. kind = "dialer" => \A i \in 1..Len(stream') : stream'[i] = TargetData
    BY <1>3, <2>2, <2>3, <2>4, <2>5
  <2>7. granted /\ granted'
    BY <2>1 DEF SocksInv, TunnelInv
  <2>8. QED BY <1>5, <2>1, <2>6, <2>7 DEF SocksInv, HandshakeInv, TunnelInv, ClientStates
<1>7. CASE stage # "tunnel"
  <2>1. inbox = stage /\ stage \in {"greeting", "auth", "connect"}
    BY <1>7 DEF Expected, Stages
  <2>2. stream' = sent
    BY <1>2, <1>3, <2>1, ConcatEmptySeq DEF SocksInv, BytesInv
  <2>3. client' = client /\ kind' = kind /\ first' = first /\ rest' = rest
    BY DEF clientVars
  <2>4. CASE stage \in {"greeting", "auth"}
    <3>1. client \in {"method", "auth"}
      BY <2>1, <2>4 DEF SocksInv, HandshakeInv, TunnelInv, ClientStates
    <3>2. Len(stream') <= 2
      <4>1. Len(bytes) = 2
        BY <1>1, <2>4, Zenon
      <4>2. QED BY <1>2, <1>n, <2>2, <4>1
    <3>3. HandshakeInv'
      BY <2>3, <3>1, <3>2 DEF HandshakeInv
    <3>4. TunnelInv'
      BY <2>3, <3>1 DEF SocksInv, TunnelInv
    <3>5. QED BY <1>5, <2>3, <3>1, <3>3, <3>4 DEF SocksInv, ClientStates
  <2>5. CASE stage = "connect"
    <3>1. client = "reply"
      BY <2>1, <2>5 DEF SocksInv, HandshakeInv, TunnelInv, ClientStates
    <3>6. bytes[2] = Granted => reply.next = "tunnel"
      BY <1>1, <2>5, Zenon
    <3>7. ReplyFits(bytes)
      BY <1>1, <2>5, Zenon
    <3>8. Len(bytes) >= 4 /\ (bytes[4] = Domain => Len(bytes) >= 5)
      BY <1>1, <2>5, Zenon
    <3>9. n >= 4 => sent[2] = bytes[2] /\ sent[4] = bytes[4]
      BY <1>2, <1>n
    <3>2. Len(stream') >= 4 /\ stream'[2] = Granted => granted'
      BY <1>2, <1>g, <2>2, <3>6, <3>9
    <3>3. ReplyFits(stream')
      <4>1. ReplyFits(sent)
        <5> SUFFICES ASSUME n >= 4
                     PROVE  /\ sent[4] = IPv4 => n <= 10
                            /\ sent[4] = IPv6 => n <= 22
                            /\ sent[4] = Domain /\ n >= 5 => n <= sent[5] + 7
          BY <1>2, Zenon DEF ReplyFits
        <5>1. bytes[4] = IPv4 => Len(bytes) <= 10
          BY <3>7, <3>8 DEF ReplyFits
        <5>2. bytes[4] = IPv6 => Len(bytes) <= 22
          BY <3>7, <3>8 DEF ReplyFits
        <5>3. bytes[4] = Domain => Len(bytes) <= bytes[5] + 7
          BY <3>7, <3>8 DEF ReplyFits
        <5>4. n >= 5 => sent[5] = bytes[5]
          BY <1>2, <1>n
        <5>5. Len(bytes) >= 5 => bytes[5] \in Nat
          BY <1>1, <1>n, ElementOfSeq
        <5>6. sent[4] = IPv4 => n <= 10
          BY <1>n, <3>9, <5>1
        <5>7. sent[4] = IPv6 => n <= 22
          BY <1>n, <3>9, <5>2
        <5>8. ASSUME sent[4] = Domain, n >= 5 PROVE n <= sent[5] + 7
          <6>1. Len(bytes) <= bytes[5] + 7 /\ bytes[5] \in Nat
            BY <1>n, <3>8, <3>9, <5>3, <5>5, <5>8
          <6>2. QED BY <1>n, <5>4, <5>8, <6>1
        <5>9. QED BY <5>6, <5>7, <5>8
      <4>2. QED BY <2>2, <4>1, Zenon DEF ReplyFits
    <3>4. HandshakeInv'
      BY <2>3, <3>1, <3>2, <3>3 DEF HandshakeInv, ReplyFits
    <3>5. TunnelInv'
      BY <2>3, <3>1 DEF SocksInv, TunnelInv
    <3>10. QED BY <1>5, <2>3, <3>1, <3>4, <3>5 DEF SocksInv, ClientStates
  <2>6. QED BY <2>1, <2>4, <2>5
<1>8. QED BY <1>6, <1>7

LEMMA ServerInv == ASSUME SocksInv, ServerStep PROVE SocksInv'
<1>1. CASE HangUp
  <2>1. UNCHANGED <<clientVars, stream, granted>> /\ inbox' = "none"
    BY <1>1 DEF HangUp
  <2>2. QED BY <2>1 DEF SocksInv, BytesInv, HandshakeInv, TunnelInv, clientVars, ReplyFits
<1>2. ASSUME NEW stage \in Stages, Answer(stage) PROVE SocksInv'
  <2>1. PICK reply \in Replies(stage) :
           stream' = stream \o reply.bytes /\ granted' = (granted \/ reply.next = "tunnel")
    BY <1>2 DEF Answer
  <2>2. inbox = Expected(stage) /\ inbox' = "none" /\ UNCHANGED clientVars
    BY <1>2 DEF Answer
  <2>3. reply.bytes \in Seq(Nat)
    BY ReplyFacts
  <2>4. reply.bytes = SubSeq(reply.bytes, 1, Len(reply.bytes)) /\ Len(reply.bytes) \in 0..Len(reply.bytes)
    BY <2>3, SubSeqFull, LenProperties
  <2>5. QED BY <2>1, <2>2, <2>4, ServerSends
<1>3. ASSUME NEW stage \in Stages, BreakOff(stage) PROVE SocksInv'
  <2>a. PICK reply \in Replies(stage) :
           \E n \in 0..(Len(reply.bytes) - 1) :
              /\ stream' = stream \o SubSeq(reply.bytes, 1, n)
              /\ granted' = (granted \/ reply.next = "tunnel")
    BY <1>3 DEF BreakOff
  <2>1. PICK n \in 0..(Len(reply.bytes) - 1) :
           /\ stream' = stream \o SubSeq(reply.bytes, 1, n)
           /\ granted' = (granted \/ reply.next = "tunnel")
    BY <2>a
  <2>2. inbox = Expected(stage) /\ inbox' = "none" /\ UNCHANGED clientVars
    BY <1>3 DEF BreakOff
  <2>3. Len(reply.bytes) \in Nat
    BY ReplyFacts, LenProperties
  <2>4. n \in 0..Len(reply.bytes)
    BY <2>3
  <2>5. QED BY <2>1, <2>2, <2>4, ServerSends
<1>4. QED BY <1>1, <1>2, <1>3 DEF ServerStep

----------------------------------------------------------------------------
(* The client. *)

\* A dial that has failed leaves nothing under way.
LEMMA FailInv == ASSUME SocksInv, Fail, UNCHANGED <<kind, first>> PROVE SocksInv'
<1>1. client' = "failed" /\ inbox' = "none" /\ stream' = <<>>
  BY DEF Fail
<1>2. <<>> \in Seq(Nat)
  BY EmptySeq
<1>3. QED BY <1>1, <1>2 DEF SocksInv, ClientStates, BytesInv, HandshakeInv, TunnelInv

\* After an answer of at most two bytes the client speaks, or the dial has failed.
LEMMA SpeakInv ==
    ASSUME SocksInv, Len(stream) <= 2,
           NEW message, NEW next, <<message, next>> \in {<<"connect", "reply">>, <<"auth", "auth">>},
           Proceed(2, message, next), UNCHANGED <<kind, first, granted>>
    PROVE  SocksInv'
<1>1. CASE Fail
  BY <1>1, FailInv
<1>2. CASE client' = next /\ inbox' = message /\ Consume(2)
  <2>1. stream' = <<>>
    BY <1>2, NothingLeft DEF Consume, SocksInv, BytesInv
  <2>2. stream' \in Seq(Nat) /\ Len(stream') = 0
    BY <2>1, EmptySeq
  <2>3. QED BY <1>2, <2>1, <2>2 DEF SocksInv, ClientStates, BytesInv, HandshakeInv, TunnelInv, ReplyFits
<1>3. QED BY <1>1, <1>2 DEF Proceed

\* The client reads on without speaking.
LEMMA StreamAfter ==
    ASSUME SocksInv, NEW n \in Nat, CanRead(n), Consume(n)
    PROVE  /\ stream' \in Seq(Nat) /\ Len(stream') = Len(stream) - n
           /\ \A i \in 1..(Len(stream) - n) : stream'[i] = stream[n + i]
           /\ Len(stream) \in Nat
           /\ n >= 1 => inbox \notin {"greeting", "auth", "connect"}
<1>1. stream \in Seq(Nat) /\ Len(stream) \in Nat
  BY LenProperties DEF SocksInv, BytesInv
<1>2. n \in 0..Len(stream)
  BY <1>1 DEF CanRead
<1>3. stream' = SubSeq(stream, n + 1, Len(stream))
  BY DEF Consume
<1>4. /\ SubSeq(stream, n + 1, Len(stream)) \in Seq(Nat)
      /\ Len(SubSeq(stream, n + 1, Len(stream))) = Len(stream) - n
      /\ \A i \in 1..(Len(stream) - n) : SubSeq(stream, n + 1, Len(stream))[i] = stream[n + i]
  BY <1>1, <1>2, RestFacts
<1>5. n >= 1 => stream # <<>>
  BY <1>1, <1>2, EmptySeq
<1>6. QED BY <1>1, <1>3, <1>4, <1>5 DEF SocksInv, BytesInv

LEMMA DialInv ==
    ASSUME SocksInv, NEW k \in {"dialer", "probe"}, NEW u, StartDial(k, u)
    PROVE  SocksInv'
<1>1. /\ client = "idle" /\ client' \in {"method", "failed"} /\ stream' = stream /\ first' = first
      /\ client' = "method" => inbox' = "greeting"
      /\ client' = "failed" => inbox' = inbox
  BY DEF StartDial
<1>2. inbox = "none" /\ stream = <<>> /\ first = "none" /\ stream \in Seq(Nat)
  BY <1>1 DEF SocksInv, BytesInv, HandshakeInv, TunnelInv
<1>3. Len(stream) = 0
  BY <1>2, EmptySeq
<1>4. QED BY <1>1, <1>2, <1>3 DEF SocksInv, ClientStates, BytesInv, HandshakeInv, TunnelInv

LEMMA ReadMethodInv == ASSUME SocksInv, ReadMethod PROVE SocksInv'
<1>1. client = "method" /\ UNCHANGED <<kind, first, granted>>
  BY DEF ReadMethod
<1>2. Len(stream) <= 2
  BY <1>1 DEF SocksInv, HandshakeInv
<1>3. Proceed(2, "connect", "reply") \/ Proceed(2, "auth", "auth") \/ Fail
  BY Zenon DEF ReadMethod
<1>4. QED BY <1>1, <1>2, <1>3, FailInv, SpeakInv

LEMMA ReadAuthInv == ASSUME SocksInv, ReadAuth PROVE SocksInv'
<1>1. client = "auth" /\ UNCHANGED <<kind, first, granted>>
  BY DEF ReadAuth
<1>2. Len(stream) <= 2
  BY <1>1 DEF SocksInv, HandshakeInv
<1>3. Proceed(2, "connect", "reply") \/ Fail
  BY Zenon DEF ReadAuth
<1>4. QED BY <1>1, <1>2, <1>3, FailInv, SpeakInv

LEMMA ReadReplyInv == ASSUME SocksInv, ReadReply PROVE SocksInv'
<1> DEFINE GoOn(next, n) ==
      stream[2] = Granted /\ client' = next /\ rest' = n /\ Consume(4) /\ inbox' = inbox
<1>1. client = "reply" /\ CanRead(4) /\ UNCHANGED <<kind, first, granted>>
  BY DEF ReadReply
<1>2. \/ kind = "probe" /\ GoOn("connected", 0)
      \/ kind = "dialer" /\ stream[4] = IPv4 /\ GoOn("address", 6)
      \/ kind = "dialer" /\ stream[4] = IPv6 /\ GoOn("address", 18)
      \/ kind = "dialer" /\ stream[4] = Domain /\ GoOn("domain", 0)
      \/ Fail
  BY Zenon DEF ReadReply
<1>3. CASE Fail
  BY <1>1, <1>3, FailInv
<1>4. CASE ~Fail
  <2>1. stream[2] = Granted /\ Consume(4) /\ inbox' = inbox
    BY <1>2, <1>4, Zenon
  <2>2. /\ stream' \in Seq(Nat) /\ Len(stream') = Len(stream) - 4 /\ Len(stream) \in Nat
        /\ \A i \in 1..(Len(stream) - 4) : stream'[i] = stream[4 + i]
        /\ 4 >= 1 => inbox \notin {"greeting", "auth", "connect"}
    BY <1>1, <2>1, StreamAfter
  <2>3. inbox = "none" /\ inbox' = "none"
    BY <1>1, <2>1, <2>2 DEF SocksInv, HandshakeInv
  <2>4. Len(stream) >= 4
    BY <1>1 DEF CanRead
  <2>5. granted /\ granted'
    BY <1>1, <2>1, <2>4 DEF SocksInv, HandshakeInv
  <2>6. /\ stream[4] = IPv4 => Len(stream) <= 10
        /\ stream[4] = IPv6 => Len(stream) <= 22
        /\ stream[4] = Domain /\ Len(stream) >= 5 => Len(stream) <= stream[5] + 7
    BY <1>1, <2>4 DEF SocksInv, HandshakeInv, ReplyFits
  <2>7. BytesInv'
    BY <2>2, <2>3 DEF BytesInv
  <2>8. kind' = kind /\ first' = first /\ (kind = "dialer" => first \in {"none", "target", "nobody"})
    BY <1>1 DEF SocksInv, TunnelInv
  <2>9. CASE kind = "probe" /\ client' = "connected"
    BY <2>3, <2>5, <2>7, <2>8, <2>9 DEF SocksInv, ClientStates, HandshakeInv, TunnelInv
  <2>10. ASSUME kind = "dialer", client' = "address", rest' \in Nat, Len(stream') <= rest' PROVE SocksInv'
    BY <2>3, <2>5, <2>7, <2>8, <2>10 DEF SocksInv, ClientStates, HandshakeInv, TunnelInv
  <2>11. CASE kind = "dialer" /\ stream[4] = IPv4 /\ GoOn("address", 6)
    <3>1. client' = "address" /\ rest' = 6 /\ Len(stream) <= 10
      BY <2>6, <2>11, Zenon
    <3>2. QED BY <2>2, <2>10, <2>11, <3>1
  <2>12. CASE kind = "dialer" /\ stream[4] = IPv6 /\ GoOn("address", 18)
    <3>1. client' = "address" /\ rest' = 18 /\ Len(stream) <= 22
      BY <2>6, <2>12, Zenon
    <3>2. QED BY <2>2, <2>10, <2>12, <3>1
  <2>13. CASE kind = "dialer" /\ stream[4] = Domain /\ GoOn("domain", 0)
    <3>1. client' = "domain"
      BY <2>13
    <3>2. Len(stream') >= 1 => Len(stream') <= stream'[1] + 3
      <4>1. SUFFICES ASSUME Len(stream) - 4 >= 1 PROVE Len(stream) - 4 <= stream[5] + 3
        BY <2>2
      <4>2. stream[5] \in Nat
        BY <2>2, <4>1, ElementOfSeq DEF SocksInv, BytesInv
      <4>3. Len(stream) <= stream[5] + 7
        BY <2>2, <2>6, <2>13, <4>1
      <4>4. QED BY <2>2, <4>2, <4>3
    <3>3. QED BY <2>3, <2>5, <2>7, <2>8, <2>13, <3>1, <3>2 DEF SocksInv, ClientStates, HandshakeInv, TunnelInv
  <2>14. QED BY <1>2, <1>4, <2>9, <2>11, <2>12, <2>13
<1>5. QED BY <1>3, <1>4

LEMMA ReadDomainLengthInv == ASSUME SocksInv, ReadDomainLength PROVE SocksInv'
<1>1. /\ client = "domain" /\ CanRead(1) /\ Consume(1)
      /\ client' = "address" /\ rest' = stream[1] + 2
      /\ UNCHANGED <<kind, first, inbox, granted>>
  BY DEF ReadDomainLength
<1>2. /\ stream' \in Seq(Nat) /\ Len(stream') = Len(stream) - 1 /\ Len(stream) \in Nat
  BY <1>1, StreamAfter
<1>3. Len(stream) >= 1
  BY <1>1 DEF CanRead
<1>4. stream[1] \in Nat
  BY <1>2, <1>3, ElementOfSeq DEF SocksInv, BytesInv
<1>5. inbox = "none" /\ granted /\ kind = "dialer" /\ Len(stream) <= stream[1] + 3
  BY <1>1, <1>3 DEF SocksInv, HandshakeInv
<1>6. rest' \in Nat /\ Len(stream') <= rest'
  BY <1>1, <1>2, <1>4, <1>5
<1>7. first \in {"none", "target", "nobody"}
  BY <1>5 DEF SocksInv, TunnelInv
<1>8. QED BY <1>1, <1>2, <1>5, <1>6, <1>7 DEF SocksInv, ClientStates, BytesInv, HandshakeInv, TunnelInv

LEMMA SkipAddressInv == ASSUME SocksInv, SkipAddress PROVE SocksInv'
<1>1. /\ client = "address" /\ Consume(rest) /\ client' = "connected"
      /\ UNCHANGED <<kind, first, inbox, granted>>
  BY DEF SkipAddress
<1>2. inbox = "none" /\ granted /\ kind = "dialer" /\ rest \in Nat /\ Len(stream) <= rest
  BY <1>1 DEF SocksInv, HandshakeInv
<1>3. stream' = <<>>
  BY <1>1, <1>2, NothingLeft DEF Consume, SocksInv, BytesInv
<1>4. stream' \in Seq(Nat)
  BY <1>3, EmptySeq
<1>5. first \in {"none", "target", "nobody"}
  BY <1>2 DEF SocksInv, TunnelInv
<1>6. QED BY <1>1, <1>2, <1>3, <1>4, <1>5 DEF SocksInv, ClientStates, BytesInv, HandshakeInv, TunnelInv

LEMMA TunnelStepInv == ASSUME SocksInv, UseTunnel \/ ReadTunnel PROVE SocksInv'
<1>1. CASE UseTunnel
  <2>1. /\ client = "connected" /\ client' = "waiting" /\ inbox' = "data"
        /\ UNCHANGED <<kind, first, stream, granted>>
    BY <1>1 DEF UseTunnel
  <2>2. granted /\ stream \in Seq(Nat) /\ (kind = "dialer" => stream = <<>> /\ first \in {"none", "target", "nobody"})
    BY <2>1 DEF SocksInv, BytesInv, TunnelInv
  <2>3. kind = "dialer" => \A i \in 1..Len(stream) : stream[i] = TargetData
    BY <2>2, EmptySeq
  <2>4. QED BY <2>1, <2>2, <2>3 DEF SocksInv, ClientStates, BytesInv, HandshakeInv, TunnelInv
<1>2. CASE ReadTunnel
  <2>1. /\ client = "waiting" /\ client' = "done" /\ inbox' = "none" /\ stream' = <<>>
        /\ UNCHANGED <<kind, granted>>
        /\ first' = IF stream = <<>> THEN "nobody"
                    ELSE IF stream[1] = TargetData THEN "target" ELSE "proxy"
    BY <1>2 DEF ReadTunnel
  <2>2. granted /\ stream \in Seq(Nat) /\ (kind = "dialer" => \A i \in 1..Len(stream) : stream[i] = TargetData)
    BY <2>1 DEF SocksInv, BytesInv, TunnelInv
  <2>3. stream # <<>> => 1 \in 1..Len(stream)
    BY <2>2, EmptySeq, LenProperties
  <2>4. kind = "dialer" => first' \in {"target", "nobody"}
    BY <2>1, <2>2, <2>3
  <2>5. stream' \in Seq(Nat)
    BY <2>1, EmptySeq
  <2>6. QED BY <2>1, <2>2, <2>4, <2>5 DEF SocksInv, ClientStates, BytesInv, HandshakeInv, TunnelInv
<1>3. QED BY <1>1, <1>2

LEMMA ClientInv == ASSUME SocksInv, ClientStep PROVE SocksInv'
<1>1. ASSUME ReadFails PROVE SocksInv'
  <2>1. Fail /\ UNCHANGED <<kind, first>>
    BY <1>1 DEF ReadFails
  <2>2. QED BY <2>1, FailInv
<1>2. QED
  BY <1>1, ReadMethodInv, ReadAuthInv, ReadReplyInv, ReadDomainLengthInv, SkipAddressInv,
     TunnelStepInv DEF ClientStep

----------------------------------------------------------------------------
(* A dial before it starts, and the whole of the specification. *)

LEMMA FreshInv ==
    ASSUME client = "idle", kind = "dialer", first = "none", inbox = "none", stream = <<>>
    PROVE  SocksInv
<1>1. <<>> \in Seq(Nat)
  BY EmptySeq
<1>2. QED BY <1>1 DEF SocksInv, ClientStates, BytesInv, HandshakeInv, TunnelInv

LEMMA FreshInvNext ==
    ASSUME client' = "idle", kind' = "dialer", first' = "none", inbox' = "none", stream' = <<>>
    PROVE  SocksInv'
<1>1. <<>> \in Seq(Nat)
  BY EmptySeq
<1>2. QED BY <1>1 DEF SocksInv, ClientStates, BytesInv, HandshakeInv, TunnelInv

LEMMA SocksStutter == ASSUME SocksInv, UNCHANGED socksVars PROVE SocksInv'
BY DEF SocksInv, ClientStates, BytesInv, HandshakeInv, TunnelInv, ReplyFits, socksVars,
       clientVars, serverVars

LEMMA SocksStepInv == ASSUME SocksInv, [SocksNext]_socksVars PROVE SocksInv'
<1>1. CASE EndDial
  BY <1>1, FreshInvNext DEF EndDial
<1>2. QED
  BY <1>1, DialInv, ClientInv, ServerInv, SocksStutter DEF SocksNext

\* proxydial.go:203: for any methods, codes and lengths of names a proxy replies
\* with, and wherever it breaks off, a dial of the relay never takes a byte of the
\* handshake for the answer of the target: the first byte it reads is the target's.
THEOREM HandshakeStaysOut == SocksSpec => []TunnelIsClean
<1>1. SocksInit => SocksInv
  BY FreshInv DEF SocksInit
<1>2. SocksInv => TunnelIsClean
  BY DEF SocksInv, TunnelInv, TunnelIsClean
<1>3. QED BY <1>1, <1>2, SocksStepInv, PTL DEF SocksSpec

\* proxydial.go:113-183 and pool.go:303-371: for any proxy, neither the dialer nor
\* the probe hands over a connection the proxy has not granted: no answer to an
\* earlier message is ever read as the answer to a later one.
THEOREM NeverOutOfStep == SocksSpec => []HandedOverWhenGranted
<1>1. SocksInit => SocksInv
  BY FreshInv DEF SocksInit
<1>2. SocksInv => HandedOverWhenGranted
  BY DEF SocksInv, TunnelInv, HandedOverWhenGranted, HandedOver
<1>3. QED BY <1>1, <1>2, SocksStepInv, PTL DEF SocksSpec

----------------------------------------------------------------------------
(* The types of all variables.  A connection is open exactly while the dial *)
(* that made it runs or has handed it over.                                 *)

EndTypes ==
    /\ kind \in {"dialer", "probe"} /\ user \in Users \cup {0}
    /\ rest \in Nat /\ (rest > 0 => client = "address")
    /\ conn \in {"none", "open", "closed"}
    /\ conn = "open" <=> client \in Handshake \cup HandedOver
    /\ first \in {"none", "target", "proxy", "nobody"}

ProxyTypes ==
    /\ server \in Stages \cup {"closed"}
    /\ eof \in BOOLEAN /\ (eof <=> server = "closed")
    /\ granted \in BOOLEAN

LEMMA TypesTogether == SocksInv /\ EndTypes /\ ProxyTypes => SocksTypeOK
<1> SUFFICES ASSUME SocksInv, EndTypes, ProxyTypes PROVE SocksTypeOK
  OBVIOUS
<1>1. client \in {"idle", "failed"} \cup Handshake \cup HandedOver
  BY DEF SocksInv, ClientStates, Handshake, HandedOver
<1>2. inbox \in {"none", "greeting", "auth", "connect", "data"}
  BY DEF SocksInv, ClientStates, HandshakeInv, TunnelInv
<1>3. stream \in Seq(Nat)
  BY DEF SocksInv, BytesInv
<1>4. QED BY <1>1, <1>2, <1>3 DEF EndTypes, ProxyTypes, SocksTypeOK

\* The proxy's end.
LEMMA RepliesLead ==
    ASSUME NEW stage \in Stages, NEW reply \in Replies(stage)
    PROVE  reply.next \in Stages \cup {"closed"}
<1>1. CASE stage = "greeting"
  BY <1>1, SMT DEF Replies, MethodReplies, Stages
<1>2. CASE stage = "auth"
  BY <1>2, SMT DEF Replies, AuthReplies, Stages
<1>3. CASE stage = "connect"
  <2>1. reply \in ConnectReplies
    BY <1>3 DEF Replies
  <2>2. \E code \in Codes, atyp \in {0, IPv4, Domain, IPv6} : \E address \in Address(atyp) :
           reply = ConnectReply(code, atyp, address)
    BY <2>1, SMT DEF ConnectReplies
  <2>3. reply.next \in {"tunnel", "closed"}
    BY <2>2 DEF ConnectReply
  <2>4. QED BY <2>3 DEF Stages
<1>4. CASE stage = "tunnel"
  BY <1>4, SMT DEF Replies, Stages
<1>5. QED BY <1>1, <1>2, <1>3, <1>4 DEF Stages

LEMMA ServerTypes ==
    ASSUME EndTypes, ProxyTypes, ServerStep
    PROVE  EndTypes' /\ ProxyTypes'
<1>1. ASSUME UNCHANGED clientVars PROVE EndTypes'
  BY <1>1 DEF EndTypes, clientVars
<1>2. CASE HangUp
  <2>1. UNCHANGED <<clientVars, granted>> /\ server' = "closed" /\ eof' = TRUE
    BY <1>2 DEF HangUp
  <2>2. QED BY <1>1, <2>1 DEF ProxyTypes
<1>3. ASSUME NEW stage \in Stages, Answer(stage) PROVE EndTypes' /\ ProxyTypes'
  <2>1. PICK reply \in Replies(stage) :
           /\ server' = reply.next /\ eof' = (reply.next = "closed")
           /\ granted' = (granted \/ reply.next = "tunnel")
    BY <1>3 DEF Answer
  <2>2. UNCHANGED clientVars
    BY <1>3 DEF Answer
  <2>3. QED BY <1>1, <2>1, <2>2, RepliesLead DEF ProxyTypes
<1>4. ASSUME NEW stage \in Stages, BreakOff(stage) PROVE EndTypes' /\ ProxyTypes'
  <2>1. UNCHANGED clientVars /\ server' = "closed" /\ eof' = TRUE /\ granted' \in BOOLEAN
    BY <1>4 DEF BreakOff, ProxyTypes
  <2>2. QED BY <1>1, <2>1 DEF ProxyTypes
<1>5. QED BY <1>2, <1>3, <1>4 DEF ServerStep

\* The client's end.  Wherever a dial gives up, it closes its connection.
LEMMA FailTypes ==
    ASSUME EndTypes, Fail, client # "address", UNCHANGED <<kind, first>>, user' \in Users \cup {0}
    PROVE  EndTypes'
<1>1. client' = "failed" /\ conn' = "closed" /\ rest' = rest /\ rest = 0
  BY DEF Fail, EndTypes
<1>2. QED BY <1>1 DEF EndTypes, Handshake, HandedOver

\* From one point of the handshake to the next the connection stays open.
LEMMA StepTypes ==
    ASSUME EndTypes, client \in Handshake \cup HandedOver, client' \in Handshake \cup HandedOver,
           UNCHANGED <<kind, conn>>, first' \in {"none", "target", "proxy", "nobody"},
           user' \in Users \cup {0}, rest' \in Nat, rest' > 0 => client' = "address"
    PROVE  EndTypes'
BY DEF EndTypes

LEMMA StartTypes ==
    ASSUME EndTypes, NEW k \in {"dialer", "probe"}, NEW u \in Users \cup {0}, StartDial(k, u)
    PROVE  EndTypes'
<1>1. /\ client = "idle" /\ kind' = k /\ user' = u /\ UNCHANGED <<rest, first>>
      /\ \/ client' = "method" /\ conn' = "open"
         \/ client' = "failed" /\ conn' = conn
  BY DEF StartDial
<1>2. rest = 0 /\ conn # "open"
  BY <1>1 DEF EndTypes, Handshake, HandedOver
<1>3. QED BY <1>1, <1>2 DEF EndTypes, Handshake, HandedOver

LEMMA ReadTypes ==
    ASSUME EndTypes, ReadMethod \/ ReadAuth \/ ReadReply \/ ReadFails
    PROVE  EndTypes'
<1>1. /\ client \in {"method", "auth", "reply", "domain"} /\ UNCHANGED <<kind, first>>
      /\ user' \in Users \cup {0}
  BY DEF ReadMethod, ReadAuth, ReadReply, ReadFails, EndTypes
<1>2. CASE Fail
  BY <1>1, <1>2, FailTypes
<1>3. CASE ~Fail
  <2>1. /\ client' \in {"reply", "auth", "connected", "address", "domain"} /\ conn' = conn
        /\ rest' \in Nat /\ (rest' > 0 => client' = "address")
    <3>1. client # "address" /\ rest \in Nat /\ ~(rest > 0)
      BY <1>1 DEF EndTypes
    <3>2. CASE ReadMethod \/ ReadAuth
      <4>1. \/ Proceed(2, "connect", "reply") \/ Proceed(2, "auth", "auth")
        BY <1>3, <3>2, Zenon DEF ReadMethod, ReadAuth
      <4>2. client' \in {"reply", "auth"} /\ UNCHANGED <<rest, conn>>
        BY <1>3, <4>1, Zenon DEF Proceed
      <4>3. QED BY <3>1, <4>2
    <3>3. CASE ReadReply
      <4>1. /\ conn' = conn
            /\ \/ client' = "connected" /\ rest' = 0
               \/ client' = "address" /\ rest' = 6
               \/ client' = "address" /\ rest' = 18
               \/ client' = "domain" /\ rest' = 0
        BY <1>3, <3>3, Zenon DEF ReadReply
      <4>2. QED BY <4>1
    <3>4. CASE ReadFails
      BY <1>3, <3>4 DEF ReadFails
    <3>5. QED BY <3>2, <3>3, <3>4
  <2>2. first' \in {"none", "target", "proxy", "nobody"}
    BY <1>1 DEF EndTypes
  <2>3. QED BY <1>1, <2>1, <2>2, StepTypes DEF Handshake, HandedOver
<1>4. QED BY <1>2, <1>3

LEMMA ClientTypes ==
    ASSUME SocksInv, EndTypes, ProxyTypes, ClientStep
    PROVE  EndTypes' /\ ProxyTypes'
<1>1. ProxyTypes'
  BY DEF ProxyTypes, ClientStep, ReadMethod, ReadAuth, ReadReply, ReadDomainLength, SkipAddress,
     ReadFails, UseTunnel, ReadTunnel
<1>2. CASE ReadDomainLength
  <2>1. /\ client = "domain" /\ client' = "address" /\ rest' = stream[1] + 2 /\ Len(stream) >= 1
        /\ UNCHANGED <<kind, user, conn, first>>
    BY <1>2 DEF ReadDomainLength, CanRead
  <2>2. stream \in Seq(Nat) /\ Len(stream) \in Nat
    BY LenProperties DEF SocksInv, BytesInv
  <2>3. stream[1] \in Nat
    BY <2>1, <2>2, ElementOfSeq
  <2>4. rest' \in Nat
    BY <2>1, <2>3
  <2>5. QED BY <1>1, <2>1, <2>4, StepTypes DEF EndTypes, Handshake, HandedOver
<1>3. CASE SkipAddress
  <2>1. /\ client = "address" /\ client' = "connected" /\ rest' = 0
        /\ UNCHANGED <<kind, user, conn, first>>
    BY <1>3 DEF SkipAddress
  <2>2. QED BY <1>1, <2>1, StepTypes DEF EndTypes, Handshake, HandedOver
<1>4. CASE UseTunnel \/ ReadTunnel
  <2>1. /\ client \in {"connected", "waiting"} /\ client' \in {"waiting", "done"}
        /\ UNCHANGED <<kind, user, rest, conn>>
        /\ first' \in {first, "target", "proxy", "nobody"}
    BY <1>4 DEF UseTunnel, ReadTunnel
  <2>2. rest \in Nat /\ ~(rest > 0)
    BY <2>1 DEF EndTypes
  <2>3. QED BY <1>1, <2>1, <2>2, StepTypes DEF EndTypes, Handshake, HandedOver
<1>5. QED BY <1>1, <1>2, <1>3, <1>4, ReadTypes DEF ClientStep

\* A dial's end forgets everything.
LEMMA FreshTypes ==
    ASSUME client' = "idle", kind' = "dialer", user' = 0, rest' = 0, conn' = "none", first' = "none",
           server' = "greeting", eof' = FALSE, granted' = FALSE
    PROVE  EndTypes' /\ ProxyTypes'
<1>1. "idle" \notin Handshake \cup HandedOver
  BY DEF Handshake, HandedOver
<1>2. EndTypes'
  BY <1>1 DEF EndTypes
<1>3. ProxyTypes'
  BY DEF ProxyTypes, Stages
<1>4. QED BY <1>2, <1>3

LEMMA InitTypes == ASSUME SocksInit PROVE EndTypes /\ ProxyTypes
<1>1. "idle" \notin Handshake \cup HandedOver
  BY DEF Handshake, HandedOver
<1>2. EndTypes
  BY <1>1 DEF SocksInit, EndTypes
<1>3. ProxyTypes
  BY DEF SocksInit, ProxyTypes, Stages
<1>4. QED BY <1>2, <1>3

LEMMA StutterTypes ==
    ASSUME EndTypes, ProxyTypes, UNCHANGED socksVars PROVE EndTypes' /\ ProxyTypes'
BY DEF EndTypes, ProxyTypes, socksVars, clientVars, serverVars

\* No way out of a dial leaves its connection open, for any proxy: it is open
\* exactly while the handshake runs or after it was handed over.
THEOREM DialsLeaveNothingOpen == SocksSpec => []SocksTypeOK
<1> DEFINE Types == SocksInv /\ EndTypes /\ ProxyTypes
<1>1. SocksInit => Types
  BY FreshInv, InitTypes DEF SocksInit
<1>2. Types /\ [SocksNext]_socksVars => Types'
  <2>1. SUFFICES ASSUME Types, [SocksNext]_socksVars PROVE EndTypes' /\ ProxyTypes'
    BY SocksStepInv
  <2>2. ASSUME NEW k \in {"dialer", "probe"}, NEW u \in Users, StartDial(k, u)
        PROVE  EndTypes' /\ ProxyTypes'
    BY <2>1, <2>2, StartTypes DEF StartDial, ProxyTypes
  <2>3. CASE EndDial
    BY <2>3, FreshTypes DEF EndDial
  <2>4. QED BY <2>1, <2>2, <2>3, ClientTypes, ServerTypes, StutterTypes DEF SocksNext
<1>3. Types => SocksTypeOK
  BY TypesTogether
<1> HIDE DEF Types
<1>4. QED BY <1>1, <1>2, <1>3, PTL DEF SocksSpec
=============================================================================
