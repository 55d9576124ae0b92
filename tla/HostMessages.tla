----------------------------- MODULE HostMessages ----------------------------
(***************************************************************************)
(* How hosts describe themselves to each other: the messages of the control *)
(* plane (control/message.cc) and the text form of a host (base/hostinfo.cc,*)
(* base/nicinfo.cc, base/endpoint.cc).  A message is serialized, may reach  *)
(* the other end with a field missing or different, because its sender is   *)
(* another version of the program, and is accepted or refused there.  A     *)
(* text is a sequence of tokens <<kind, number>>.  A conversion that may    *)
(* fail is the set of its result, empty on failure; an optional field is a  *)
(* sequence of at most one element.                                         *)
(***************************************************************************)
EXTENDS Integers, Sequences, FiniteSets, SequencesExt

CONSTANTS
    HostInfos,    \* hosts, valid or not
    RequestLists, \* lists of requests, valid or not
    PspTokens,    \* PSP tokens, valid or not
    IpAddrs,      \* IP addresses
    kPspKeyLen

VARIABLES
    sending,   \* what is sent and the form it is sent in
    message,   \* the proto or the text on its way, {} when it was refused
    altered,   \* whether it arrives as something else
    accepted,  \* what the other end makes of it
    exchange   \* where the exchange is

messageVars == <<sending, message, altered, accepted, exchange>>

kInvalid == 0
kIP == 1
kRDMA == 2
kReadOp == 1
kWriteOp == 2
MaxPort == 65535
NoIp == [v6 |-> FALSE, mapped |-> FALSE, n |-> 0]
NoEndpoint == [ip |-> NoIp, port |-> 0]

----------------------------------------------------------------------------
(* Validity *)

IsZero(ip) == ip.n = 0 /\ ~ip.mapped

HasNonzeroIpPort(e) == e.port # 0 /\ ~IsZero(e.ip)

IsValidNic(nic) ==
    /\ nic.name # <<>> /\ nic.type # kInvalid /\ nic.endpoints # <<>>
    /\ \A k \in DOMAIN nic.endpoints :
         HasNonzeroIpPort(nic.endpoints[k]) /\ (nic.type # kRDMA \/ nic.endpoints[k].ip.v6)

DataEndpoints(host) == FlattenSeq([k \in DOMAIN host.nics |-> host.nics[k].endpoints])

\* Counts the elements of two sets against the elements put into them.
IsDataPlaneValid(host) ==
    /\ ~IsZero(host.control.ip)
    /\ host.nics # <<>> /\ \A k \in DOMAIN host.nics : IsValidNic(host.nics[k])
    /\ Cardinality({host.control} \cup ToSet(DataEndpoints(host))) = 1 + Len(DataEndpoints(host))
    /\ Cardinality({host.nics[k].name : k \in DOMAIN host.nics}) = Len(host.nics)

IsValidHost(host) == HasNonzeroIpPort(host.control) /\ IsDataPlaneValid(host)

IsValidReq(r) == r.laddr # 0 /\ 1 <= r.len

IsValidList(reqs) == reqs # <<>> /\ \A k \in DOMAIN reqs : IsValidReq(reqs[k])

IsValidToken(token) == token.spi # 0

----------------------------------------------------------------------------
(* Text *)

Sep(char) == <<char, 0>>

\* inet_ntop: "10.0.0.1", "::1", "::" or "::ffff:10.0.0.1".
IpText(ip) ==
    IF ~ip.v6 THEN <<<<"v4", ip.n>>>>
    ELSE IF ip.mapped THEN <<Sep(":"), Sep(":"), <<"hex", 65535>>, Sep(":"), <<"v4", ip.n>>>>
    ELSE <<Sep(":"), Sep(":")>> \o (IF ip.n = 0 THEN <<>> ELSE <<<<"hex", ip.n>>>>)

\* inet_pton
ParseIpAddr(text, v6) == {ip \in IpAddrs : ip.v6 = v6 /\ IpText(ip) = text}

EndpointText(e) ==
    IF ~e.ip.v6 THEN IpText(e.ip) \o <<Sep(":"), <<"num", e.port>>>>
    ELSE <<Sep("[")>> \o IpText(e.ip) \o <<Sep("]"), Sep(":"), <<"num", e.port>>>>

LooksLikeIPv6(text) == Len(text) >= 1 /\ Head(text) = Sep("[") /\ Last(text) = Sep("]")

\* The port follows the last colon; what fails is the zero endpoint.
CreateEndpoint(text) ==
    LET colons == {k \in DOMAIN text : text[k] = Sep(":")}
        pos == CHOOSE k \in colons : \A j \in colons : j <= k
        a == SubSeq(text, 1, pos - 1)
        p == SubSeq(text, pos + 1, Len(text))
        ips == IF LooksLikeIPv6(a) THEN ParseIpAddr(SubSeq(a, 2, Len(a) - 1), TRUE)
               ELSE ParseIpAddr(a, FALSE)
    IN IF colons = {} \/ Len(p) # 1 THEN NoEndpoint
       ELSE IF p[1][1] # "num" \/ p[1][2] > MaxPort \/ ips = {} THEN NoEndpoint
       ELSE [ip |-> CHOOSE ip \in ips : TRUE, port |-> p[1][2]]

Join(texts, sep) ==
    FoldLeft(LAMBDA line, text : IF line = <<>> THEN text ELSE line \o <<sep>> \o text, <<>>, texts)

\* absl::StrSplit with at most `max` cuts; empty pieces are skipped.
Split(text, sep, max) ==
    LET Put(acc, token) ==
          IF token = sep /\ acc.cuts < max
          THEN [pieces |-> Append(acc.pieces, <<>>), cuts |-> acc.cuts + 1]
          ELSE [acc EXCEPT !.pieces[Len(acc.pieces)] = Append(@, token)]
    IN SelectSeq(FoldLeft(Put, [pieces |-> <<<<>>>>, cuts |-> 0], text).pieces,
                 LAMBDA piece : piece # <<>>)

NicText(nic) ==
    nic.name \o <<Sep("/"), <<"type", nic.type>>, Sep("/")>>
    \o Join([k \in DOMAIN nic.endpoints |-> EndpointText(nic.endpoints[k])], Sep(","))

CreateNic(text) ==
    LET p == Split(text, Sep("/"), 2)
        es == Split(p[3], Sep(","), Len(p[3]))
        nic == [name |-> p[1],
                type |-> IF Len(p[2]) = 1 /\ p[2][1][1] = "type" THEN p[2][1][2] ELSE kInvalid,
                endpoints |-> [k \in DOMAIN es |-> CreateEndpoint(es[k])]]
    IN IF Len(p) # 3 THEN {} ELSE {n \in {nic} : IsValidNic(n)}

HostText(host) ==
    Join(<<EndpointText(host.control)>> \o [k \in DOMAIN host.nics |-> NicText(host.nics[k])], Sep(";"))

CreateHost(text) ==
    LET parts == Split(text, Sep(";"), Len(text))
        nics == [k \in 1 .. Len(parts) - 1 |-> CreateNic(parts[k + 1])]
        host == [control |-> CreateEndpoint(parts[1]),
                 nics |-> [k \in DOMAIN nics |-> CHOOSE nic \in nics[k] : TRUE]]
    IN IF parts = <<>> \/ {} \in ToSet(nics) THEN {} ELSE {h \in {host} : IsValidHost(h)}

----------------------------------------------------------------------------
(* Message::Serialize *)

AllOf(sets) == {[k \in DOMAIN sets |-> CHOOSE x \in sets[k] : TRUE] : s \in {t \in {sets} : {} \notin ToSet(t)}}

serializeEndpoint(e) == {[ip_port |-> <<EndpointText(x)>>] : x \in {y \in {e} : HasNonzeroIpPort(y)}}

serializeNic(nic) ==
    {[name |-> <<nic.name>>, type |-> <<nic.type>>, endpoints |-> es] :
       es \in {t \in AllOf([k \in DOMAIN nic.endpoints |-> serializeEndpoint(nic.endpoints[k])]) : IsValidNic(nic)}}

SerializeHost(host) ==
    {[control |-> <<pc>>, nics |-> pns] :
       pc \in {e \in serializeEndpoint(host.control) : IsValidHost(host)},
       pns \in AllOf([k \in DOMAIN host.nics |-> serializeNic(host.nics[k])])}

\* The metadata of a request is not part of the message.
serializeReq(r) ==
    {[op |-> x.op, laddr |-> x.laddr, raddr |-> x.raddr, len |-> x.len, rkey |-> x.rkey] :
       x \in {y \in {r} : IsValidReq(y)}}

SerializeRequests(host, reqs) ==
    {[peer |-> <<pp>>, reqs |-> prs] :
       pp \in {h \in SerializeHost(host) : IsValidList(reqs)},
       prs \in AllOf([k \in DOMAIN reqs |-> serializeReq(reqs[k])])}

serializeToken(token) ==
    {[spi |-> <<t.spi>>, gen |-> <<t.gen>>, key |-> <<t.key>>] : t \in {u \in {token} : IsValidToken(u)}}

SerializePspReq(token, target) ==
    {[psp |-> <<psp>>, target |-> <<pe>>] : psp \in serializeToken(token), pe \in serializeEndpoint(target)}

SerializePspResp(token) == {[psp |-> <<psp>>] : psp \in serializeToken(token)}

----------------------------------------------------------------------------
(* Message::Deserialize *)

deserializeEndpoint(pe) ==
    {e \in {CreateEndpoint(text) : text \in ToSet(pe.ip_port)} : HasNonzeroIpPort(e)}

deserializeNic_appends(pn, nic) ==
    {n \in {[name |-> name, type |-> type, endpoints |-> nic.endpoints \o es] :
              name \in ToSet(pn.name), type \in ToSet(pn.type) \cap {kIP, kRDMA},
              es \in AllOf([k \in DOMAIN pn.endpoints |-> deserializeEndpoint(pn.endpoints[k])])} : IsValidNic(n)}
\* `nic` is what the caller's variable holds from the NIC before.
deserializeNic(pn, nic) ==
    {n \in {[name |-> name, type |-> type, endpoints |-> es] :
              name \in ToSet(pn.name), type \in ToSet(pn.type) \cap {kIP, kRDMA},
              es \in AllOf([k \in DOMAIN pn.endpoints |-> deserializeEndpoint(pn.endpoints[k])])} : IsValidNic(n)}

\* The NICs one after the other into one variable, of which copies are kept.
DeserializeHost(ph) ==
    LET NoNic == [name |-> <<>>, type |-> kInvalid, endpoints |-> <<>>]
        Add(hosts, pn) ==
          UNION {{[h EXCEPT !.nics = Append(@, n)] :
                    n \in deserializeNic(pn, IF h.nics = <<>> THEN NoNic ELSE Last(h.nics))} : h \in hosts}
        controls == UNION {deserializeEndpoint(pc) : pc \in ToSet(ph.control)}
    IN {h \in FoldLeft(Add, {[control |-> e, nics |-> <<>>] : e \in controls}, ph.nics) : IsValidHost(h)}

deserializeReq(pr) == {r \in {pr} : r.op \in {kReadOp, kWriteOp} /\ IsValidReq(r)}

DeserializeRequests(msg) ==
    {[host |-> host, reqs |-> reqs] :
       host \in UNION {DeserializeHost(pp) : pp \in ToSet(msg.peer)},
       reqs \in {rs \in AllOf([k \in DOMAIN msg.reqs |-> deserializeReq(msg.reqs[k])]) : IsValidList(rs)}}

deserializeToken(psp) ==
    {t \in {[spi |-> spi, gen |-> gen, key |-> key] :
              spi \in ToSet(psp.spi), gen \in ToSet(psp.gen), key \in ToSet(psp.key)} :
       Len(t.key) = kPspKeyLen /\ IsValidToken(t)}

DeserializePspReq(p) ==
    {[token |-> token, target |-> target] :
       token \in UNION {deserializeToken(psp) : psp \in ToSet(p.psp)},
       target \in UNION {deserializeEndpoint(pe) : pe \in ToSet(p.target)}}

DeserializePspResp(p) == UNION {deserializeToken(psp) : psp \in ToSet(p.psp)}

----------------------------------------------------------------------------
(* An exchange *)

Forms == {"host", "requests", "psp request", "psp response", "text"}

MessageInit ==
    /\ sending \in [form : Forms, host : HostInfos, reqs : RequestLists, token : PspTokens]
    /\ sending.form # "requests" => sending.reqs = <<>>
    /\ sending.form \in {"host", "requests", "text"} => sending.token = CHOOSE t \in PspTokens : TRUE
    /\ message = {} /\ altered = FALSE /\ accepted = {} /\ exchange = "start"

\* The callers of Control send nothing when this fails.
SendMessage ==
    /\ exchange = "start" /\ exchange' = "sent"
    /\ message' = CASE sending.form = "host" -> SerializeHost(sending.host)
                    [] sending.form = "requests" -> SerializeRequests(sending.host, sending.reqs)
                    [] sending.form = "psp request" -> SerializePspReq(sending.token, sending.host.control)
                    [] sending.form = "psp response" -> SerializePspResp(sending.token)
                    [] sending.form = "text" -> {HostText(sending.host)}
    /\ UNCHANGED <<sending, altered, accepted>>

\* What another version of the program might have sent instead.
OtherTexts(text) == {RemoveAt(text, k) : k \in DOMAIN text}
OtherEndpoints(pe) == {[ip_port |-> <<>>]} \cup {[ip_port |-> <<t>>] : t \in OtherTexts(pe.ip_port[1])}
OtherNics(pn) ==
    {[pn EXCEPT !.name = <<>>], [pn EXCEPT !.name = <<<<>>>>], [pn EXCEPT !.type = <<>>],
     [pn EXCEPT !.type = <<kInvalid>>], [pn EXCEPT !.type = <<kRDMA>>],
     [pn EXCEPT !.endpoints = <<>>], [pn EXCEPT !.endpoints = @ \o @]}
    \cup {[pn EXCEPT !.endpoints[1] = pe] : pe \in OtherEndpoints(pn.endpoints[1])}
OtherHosts(ph) ==
    {[ph EXCEPT !.control = <<>>], [ph EXCEPT !.nics = <<>>], [ph EXCEPT !.nics = @ \o @],
     [ph EXCEPT !.control = <<ph.nics[1].endpoints[1]>>],
     [ph EXCEPT !.nics = @ \o [k \in DOMAIN @ |-> [@[k] EXCEPT !.name = <<<<<<"name", 9>>>>>>]]]}
    \cup {[ph EXCEPT !.nics[k] = pn] : <<k, pn>> \in UNION {{k} \X OtherNics(ph.nics[k]) : k \in DOMAIN ph.nics}}
OtherRequests(pr) == {[pr EXCEPT !.op = 0], [pr EXCEPT !.op = 3], [pr EXCEPT !.laddr = 0], [pr EXCEPT !.len = 0]}
OtherTokens(psp) ==
    {[psp EXCEPT !.spi = <<>>], [psp EXCEPT !.spi = <<0>>], [psp EXCEPT !.gen = <<>>],
     [psp EXCEPT !.key = <<>>], [psp EXCEPT !.key = <<Tail(@[1])>>]}

Others(form, msg) ==
    CASE form = "host" -> OtherHosts(msg)
      [] form = "requests" ->
           {[msg EXCEPT !.peer = <<>>], [msg EXCEPT !.reqs = <<>>]}
           \cup {[msg EXCEPT !.peer = <<h>>] : h \in OtherHosts(msg.peer[1])}
           \cup {[msg EXCEPT !.reqs[1] = r] : r \in OtherRequests(msg.reqs[1])}
      [] form = "psp request" ->
           {[msg EXCEPT !.psp = <<>>], [msg EXCEPT !.target = <<>>]}
           \cup {[msg EXCEPT !.psp = <<t>>] : t \in OtherTokens(msg.psp[1])}
           \cup {[msg EXCEPT !.target = <<e>>] : e \in OtherEndpoints(msg.target[1])}
      [] form = "psp response" ->
           {[msg EXCEPT !.psp = <<>>]} \cup {[msg EXCEPT !.psp = <<t>>] : t \in OtherTokens(msg.psp[1])}
      [] form = "text" -> OtherTexts(msg)

AlterMessage ==
    /\ exchange = "sent" /\ ~altered /\ altered' = TRUE
    /\ \E msg \in message : \E other \in Others(sending.form, msg) : message' = {other}
    /\ UNCHANGED <<sending, accepted, exchange>>

ReceiveMessage ==
    /\ exchange = "sent" /\ message # {} /\ exchange' = "received"
    /\ \E msg \in message :
         accepted' = CASE sending.form = "host" -> DeserializeHost(msg)
                       [] sending.form = "requests" -> DeserializeRequests(msg)
                       [] sending.form = "psp request" -> DeserializePspReq(msg)
                       [] sending.form = "psp response" -> DeserializePspResp(msg)
                       [] sending.form = "text" -> CreateHost(msg)
    /\ UNCHANGED <<sending, message, altered>>

MessageNext == SendMessage \/ AlterMessage \/ ReceiveMessage

----------------------------------------------------------------------------
\* What `sending` says, to the one that accepts it.
Meant ==
    LET Plain(r) == [op |-> r.op, laddr |-> r.laddr, raddr |-> r.raddr, len |-> r.len, rkey |-> r.rkey]
    IN CASE sending.form \in {"host", "text"} -> {h \in {sending.host} : IsValidHost(h)}
         [] sending.form = "requests" ->
              {[host |-> h, reqs |-> [k \in DOMAIN sending.reqs |-> Plain(sending.reqs[k])]] :
                 h \in {h \in {sending.host} : IsValidHost(h) /\ IsValidList(sending.reqs)}}
         [] sending.form = "psp request" ->
              {[token |-> sending.token, target |-> e] :
                 e \in {e \in {sending.host.control} : IsValidToken(sending.token) /\ HasNonzeroIpPort(e)}}
         [] sending.form = "psp response" -> {t \in {sending.token} : IsValidToken(t)}

\* A message or a text that arrives as it was sent is accepted as exactly what was meant,
\* and only what is valid is sent or accepted: both ends of Control agree on what a host is.
AcceptedAsMeant ==
    /\ exchange = "sent" /\ ~altered /\ sending.form # "text" => (message = {} <=> Meant = {})
    /\ exchange = "received" /\ ~altered => accepted = Meant

=============================================================================
