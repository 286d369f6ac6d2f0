------------------------- MODULE SubscriptionContent -------------------------
(***************************************************************************)
(* What a subscription's body turns into: the parsers of                    *)
(* internal/subscription/service.go, the validation of                      *)
(* internal/config/proxy_outbound.go and the two API handlers that show a   *)
(* parsed body to the user.                                                 *)
(*                                                                         *)
(* A body is a sequence of entries, the proxies of a Clash file or the      *)
(* lines of a list of links, perhaps in base64.  An entry is a record of    *)
(* the fields the parsers look at; "" is an absent one.  Texts stand for    *)
(* themselves: two texts are told apart or they are not.                    *)
(***************************************************************************)
EXTENDS Integers, Sequences

CONSTANTS
    Bodies,     \* the bodies that are posted or fetched
    Outbounds   \* the outbounds a fetch may go through: name -> enabled

\* What the parsers look at in an item or a line.
Entries ==
    [scheme : STRING, name : STRING, server : STRING, port : Int, user : STRING, pass : STRING,
     decodes : BOOLEAN, sec : STRING, tls : STRING, net : STRING, path : STRING, service : STRING,
     sni : STRING, pbk : STRING, sid : STRING, insecure : BOOLEAN, cert : STRING,
     alpn : STRING, fp : STRING, cipher : STRING, flow : STRING, obfs : STRING, idle : Int,
     host : STRING, mode : STRING, authority : STRING]

\* A body is one or the other kind of list.
ASSUME ContentAssumption ==
    \A b \in Bodies : b \in [form : {"yaml", "links"}, base64 : BOOLEAN, entries : Seq(Entries)]

VARIABLES
    body,       \* the body of the request being answered
    reply       \* what the handler answered

contentVars == <<body, reply>>

\* The text of a field that is not there.
Absent == ""

\* The last port.
MaxPort == 65535

\* The first text that is not empty (firstNonEmpty, queryFirst, the getString
\* chains over the aliases of a field).
FirstNonEmpty(a, b) == IF a # Absent THEN a ELSE b

-----------------------------------------------------------------------------
(* proxy_outbound.go: what makes an outbound storable. *)

SSMethods == {"aes-256-gcm"}

ValidateTransport(o) ==
    /\ o.net \in {Absent, "tcp", "ws", "httpupgrade", "http-upgrade", "xhttp", "grpc"}
    /\ o.net = "grpc" => o.service # Absent

ValidateReality(o) == o.reality => o.pbk # Absent

Validate(o) ==
    /\ o.server # Absent
    /\ o.port \in 1 .. MaxPort
    /\ CASE o.type = "shadowsocks" -> o.method \in SSMethods /\ o.pass # Absent
         [] o.type = "vmess"       -> o.uuid # Absent
         [] o.type = "trojan"      -> o.pass # Absent
         [] o.type = "vless"       -> o.uuid # Absent /\ ValidateReality(o) /\ ValidateTransport(o)
         [] o.type \in {"socks5", "http"} -> o.pass # Absent => o.user # Absent
         [] o.type = "hysteria2"   -> o.pass # Absent
         [] o.type = "anytls"      -> o.pass # Absent /\ o.tls /\ ValidateReality(o) /\ o.idle >= 0
         [] OTHER -> FALSE

\* The fields of an outbound that the parsers fill.  Some that are always read together are
\* one here: cipher is the alter id and the cipher of vmess, obfs the obfuscation, its
\* password and the hopping ports of hysteria2, idle the three idle session settings of
\* anytls.
Blank == [type |-> Absent, server |-> Absent, port |-> 0, user |-> Absent, pass |-> Absent,
          method |-> Absent, uuid |-> Absent, tls |-> FALSE, sni |-> Absent, insecure |-> FALSE,
          reality |-> FALSE, pbk |-> Absent, net |-> Absent, path |-> Absent, service |-> Absent,
          cert |-> Absent, sid |-> Absent, alpn |-> Absent, fp |-> Absent, cipher |-> Absent,
          flow |-> Absent, obfs |-> Absent, idle |-> 0, host |-> Absent, mode |-> Absent,
          authority |-> Absent]

\* The hash of the connection: all of these but the pinned certificate.  A hash is told
\* apart exactly when what it hashes is.
ComputeSourceKey(o) == [f \in DOMAIN Blank \ {"cert"} |-> o[f]]

FallbackName(e) == IF e.name # Absent THEN e.name ELSE "host:port"

\* ParsedOutbound{}, false: the zero value.
Dropped == [outbound |-> Blank, key |-> ComputeSourceKey(Blank), base |-> Absent]

KeptUnchecked(e, o) ==
    [outbound |-> o, key |-> ComputeSourceKey(o), base |-> FallbackName(e)]

\* A parser's last lines: an outbound that does not validate is dropped, any
\* other carries its key and the name it would like.
Kept(e, o) ==
    IF Validate(o)
      THEN [outbound |-> o, key |-> ComputeSourceKey(o), base |-> FallbackName(e)]
      ELSE Dropped

-----------------------------------------------------------------------------
(* The parsers of links. *)

Host(e, o) == [o EXCEPT !.server = e.server, !.port = e.port]

\* The transport a link's type selects; any other value is ignored.  The path
\* of a link defaults to "/".
LinkTransport(e, o) ==
    CASE e.net = "ws" ->
           [o EXCEPT !.net = "ws", !.path = FirstNonEmpty(e.path, "/"), !.host = e.host]
      [] e.net \in {"httpupgrade", "http-upgrade"} ->
           [o EXCEPT !.net = "httpupgrade", !.path = FirstNonEmpty(e.path, "/"), !.host = e.host]
      [] e.net = "xhttp" ->
           [o EXCEPT !.net = "xhttp", !.path = FirstNonEmpty(e.path, "/"), !.host = e.host,
                     !.mode = e.mode]
      [] e.net = "grpc" ->
           [o EXCEPT !.net = "grpc", !.service = e.service, !.authority = e.authority]
      [] OTHER -> o

\* A vmess link may say them in its path and host.
VmessTransport(e, o) ==
    IF e.net = "grpc"
      THEN [o EXCEPT !.net = "grpc", !.service = FirstNonEmpty(e.service, e.path),
                     !.authority = FirstNonEmpty(e.authority, e.host)]
      ELSE LinkTransport(e, o)

LinkReality(e, o) ==
    IF e.sec = "reality"
      THEN [o EXCEPT !.reality = TRUE, !.insecure = TRUE, !.pbk = e.pbk, !.sid = e.sid]
      ELSE o

ParseVmess(e) ==
    IF ~e.decodes \/ e.server = Absent \/ e.port <= 0
      THEN Dropped
      ELSE Kept(e, VmessTransport(e, Host(e,
             [Blank EXCEPT !.type = "vmess", !.uuid = e.user,
                           !.cipher = FirstNonEmpty(e.cipher, "auto"), !.tls = (e.sec = "tls"),
                           !.sni = e.sni, !.fp = e.fp, !.insecure = e.insecure])))

\* What follows a "?" of an ss link (a plugin) is thrown away.
ParseShadowsocks(e) ==
    IF ~e.decodes \/ e.user = Absent \/ e.server = Absent \/ e.port <= 0
      THEN Dropped
      ELSE Kept(e, Host(e, [Blank EXCEPT !.type = "shadowsocks", !.method = e.user,
                                         !.pass = e.pass]))

\* parseCustomLinkParts: nothing without a user before the "@" and a host with
\* a port after it.
CustomLinkParts(e) == e.user # Absent /\ e.server # Absent /\ e.port > 0

ParseTrojan(e) ==
    IF ~CustomLinkParts(e)
      THEN Dropped
      ELSE Kept(e, LinkTransport(e, Host(e,
             [Blank EXCEPT !.type = "trojan", !.pass = e.user, !.tls = (e.sec # "none"),
                           !.alpn = e.alpn, !.fp = e.fp,
                           !.sni = FirstNonEmpty(e.sni, e.server), !.insecure = e.insecure])))

ParseVLESS(e) ==
    IF ~CustomLinkParts(e)
      THEN Dropped
      ELSE Kept(e, LinkTransport(e, LinkReality(e, Host(e,
             [Blank EXCEPT !.type = "vless", !.uuid = e.user, !.flow = e.flow,
                           !.alpn = e.alpn, !.fp = e.fp,
                           !.tls = (e.sec \in {"tls", "reality"}),
                           !.sni = FirstNonEmpty(e.sni, e.server), !.insecure = e.insecure]))))

ParseAnyTLS(e) ==
    IF e.server = Absent \/ e.port <= 0
      THEN Dropped
      ELSE Kept(e, LinkReality(e, Host(e,
             [Blank EXCEPT !.type = "anytls", !.pass = e.user, !.tls = TRUE,
                           !.alpn = e.alpn, !.fp = e.fp, !.idle = e.idle,
                           !.sni = FirstNonEmpty(e.sni, e.server), !.insecure = e.insecure])))

ParseHysteria2(e) ==
    IF e.server = Absent \/ e.port <= 0
      THEN Dropped
      ELSE Kept(e, Host(e,
             [Blank EXCEPT !.type = "hysteria2", !.pass = e.user, !.tls = TRUE, !.cert = e.cert,
                           !.alpn = e.alpn, !.obfs = e.obfs,
                           !.sni = FirstNonEmpty(e.sni, e.server), !.insecure = e.insecure]))

\* socks and http links have a default port and no default SNI; a path makes
\* them an ordinary web address.
PlainProxy(e, type, port, tls) ==
    IF e.server = Absent \/ e.path \notin {Absent, "/"}
      THEN Dropped
      ELSE Kept(e, [Blank EXCEPT !.type = type, !.server = e.server,
                                 !.port = (IF e.port > 0 THEN e.port ELSE port),
                                 !.user = e.user, !.pass = e.pass, !.tls = tls,
                                 !.alpn = e.alpn, !.fp = e.fp,
                                 !.sni = e.sni, !.insecure = e.insecure])

ParseSOCKS5(e) == PlainProxy(e, "socks5", 1080, e.sec = "tls" \/ e.tls = "true")

ParseHTTP(e) ==
    PlainProxy(e, "http", IF e.scheme = "https" THEN 443 ELSE 80,
               IF e.tls # Absent THEN e.tls = "true" ELSE e.scheme = "https" \/ e.sec = "tls")

ParseLink(e) ==
    CASE e.scheme = "vmess"  -> ParseVmess(e)
      [] e.scheme = "ss"     -> ParseShadowsocks(e)
      [] e.scheme = "trojan" -> ParseTrojan(e)
      [] e.scheme = "anytls" -> ParseAnyTLS(e)
      [] e.scheme = "vless"  -> ParseVLESS(e)
      [] e.scheme \in {"hysteria2", "hy2"} -> ParseHysteria2(e)
      [] e.scheme \in {"socks", "socks5", "socks5h"} -> ParseSOCKS5(e)
      [] e.scheme \in {"http", "https"} -> ParseHTTP(e)
      [] OTHER -> Dropped

-----------------------------------------------------------------------------
(* The parser of a Clash file's proxies. *)

NormalizeProtocol(scheme) ==
    CASE scheme = "ss" -> "shadowsocks"
      [] scheme \in {"socks", "socks5", "socks5h"} -> "socks5"
      [] scheme \in {"http", "https"} -> "http"
      [] scheme \in {"hy2", "hysteria2"} -> "hysteria2"
      [] OTHER -> scheme

\* The fields of the protocol; a type outside this list is dropped.
ClashProtocol(e, o) ==
    CASE o.type = "shadowsocks" -> [o EXCEPT !.method = e.user, !.pass = e.pass]
      [] o.type = "vmess" ->
           [o EXCEPT !.uuid = e.user, !.cipher = FirstNonEmpty(e.cipher, "auto")]
      [] o.type = "vless" -> [o EXCEPT !.uuid = e.user, !.flow = e.flow]
      [] o.type \in {"socks5", "http"} -> [o EXCEPT !.user = e.user, !.pass = e.pass]
      [] o.type \in {"trojan", "anytls"} -> [o EXCEPT !.pass = e.user, !.tls = TRUE]
      [] o.type = "hysteria2" -> [o EXCEPT !.pass = e.user, !.tls = TRUE, !.obfs = e.obfs]
      [] OTHER -> [o EXCEPT !.type = Absent]

\* ws-opts, xhttp-opts and grpc-opts name the network when the item does not.
ClashTransport(e, o) ==
    CASE e.net = "ws" -> [o EXCEPT !.net = "ws", !.path = e.path, !.host = e.host]
      [] e.net \in {"httpupgrade", "http-upgrade"} ->
           [o EXCEPT !.net = "httpupgrade", !.path = e.path, !.host = e.host]
      [] e.net = "xhttp" ->
           [o EXCEPT !.net = "xhttp", !.path = e.path, !.host = e.host, !.mode = e.mode]
      [] e.net = "grpc" ->
           [o EXCEPT !.net = "grpc", !.service = e.service, !.authority = e.authority]
      [] OTHER -> [o EXCEPT !.net = e.net]

ClashRealityChecked(e, o) ==
    IF e.sec = "reality"
      THEN [o EXCEPT !.reality = TRUE, !.tls = TRUE, !.pbk = e.pbk, !.sid = e.sid]
      ELSE o

ClashReality(e, o) ==
    IF e.sec = "reality"
      THEN [o EXCEPT !.reality = TRUE, !.tls = TRUE, !.insecure = TRUE, !.pbk = e.pbk,
                     !.sid = e.sid]
      ELSE o

\* getBoolDefault: an item may switch TLS on or off, whatever its type.
ClashTLS(e, fallback) == IF e.tls = Absent THEN fallback ELSE e.tls = "true"

ParseClashProxy(e) ==
    IF e.scheme = Absent \/ e.server = Absent \/ e.port <= 0
      THEN Dropped
      ELSE LET bare == Host(e, [Blank EXCEPT !.type = NormalizeProtocol(e.scheme),
                                             !.tls = (e.scheme = "https")])
               o == ClashProtocol(e, bare)
               t == [o EXCEPT !.tls = ClashTLS(e, o.tls),
                              !.insecure = e.insecure, !.alpn = e.alpn, !.fp = e.fp,
                              !.sni = (IF o.type = "hysteria2"
                                         THEN FirstNonEmpty(e.sni, e.server) ELSE e.sni)]
           IN  IF o.type = Absent THEN Dropped ELSE Kept(e, ClashReality(e, ClashTransport(e, t)))

-----------------------------------------------------------------------------
(* A whole body. *)

\* The loop over the entries: what was parsed is appended, the rest skipped.
KeptUpTo(parsed) ==
    LET kept[i \in 0 .. Len(parsed)] ==
          IF i = 0 THEN <<>>
          ELSE IF parsed[i] = Dropped THEN kept[i - 1] ELSE Append(kept[i - 1], parsed[i])
    IN  kept

WithoutDropped(parsed) == KeptUpTo(parsed)[Len(parsed)]

ParseClashLikeYAML(b) ==
    IF b.form = "yaml"
    THEN WithoutDropped([i \in DOMAIN b.entries |-> ParseClashProxy(b.entries[i])])
    ELSE <<>>

\* maybeDecodeBase64Content: a body without "://" or "proxies:" is decoded.
MaybeDecodeBase64Content(b) == [b EXCEPT !.base64 = FALSE]

Error == [ok |-> FALSE, items |-> <<>>]

Result(items) == IF items = <<>> THEN Error ELSE [ok |-> TRUE, items |-> items]

\* Clash first, then decoded, then line by line; a file whose proxies are all
\* dropped is read as links too, and none of its lines is one.
ParseSubscriptionContent(b) ==
    LET text == MaybeDecodeBase64Content(b)
        yaml == ParseClashLikeYAML(text)
    IN  IF b.entries = <<>> THEN Error
        ELSE IF yaml # <<>> THEN Result(yaml)
        ELSE IF text.form = "yaml" THEN Error
        ELSE Result(WithoutDropped([i \in DOMAIN text.entries |-> ParseLink(text.entries[i])]))

NoReply == [op |-> "none", ok |-> FALSE, items |-> <<>>]

\* ParseImportContent: nothing is stored, the items go back to the browser.
ParseImportContent ==
    /\ reply = NoReply
    /\ LET r == ParseSubscriptionContent(body)
       IN  reply' = [op |-> "import", ok |-> r.ok, items |-> r.items]
    /\ UNCHANGED body

\* FetchContent and the handler FetchSubscription: through an outbound that
\* exists and is enabled, or directly; the answer is the body as it came.
FetchSubscription(through) ==
    /\ reply = NoReply
    /\ \E served \in BOOLEAN :
         LET reached == through = Absent \/ (through \in DOMAIN Outbounds /\ Outbounds[through])
         IN  reply' = [op |-> "fetch", ok |-> served /\ reached,
                       items |-> IF served /\ reached THEN body.entries ELSE <<>>]
    /\ UNCHANGED body

ContentInit ==
    /\ body \in Bodies
    /\ reply = NoReply

ContentNext ==
    \/ ParseImportContent
    \/ \E through \in DOMAIN Outbounds \cup {Absent, "missing"} : FetchSubscription(through)

ContentSpec == ContentInit /\ [][ContentNext]_contentVars

-----------------------------------------------------------------------------
(* Properties. *)

\* An entry that describes a proxy both forms can: a host with a port, the security and
\* the transports its protocol knows, settings in their range (no link is called
\* "shadowsocks", as an item may be).
Described(d) ==
    /\ d.scheme # "shadowsocks"
    /\ d.decodes /\ d.server # Absent /\ d.port > 0 /\ d.user # Absent
    /\ d.tls = Absent
    /\ d.sec = "reality" => d.scheme \in {"vless", "anytls"}
    /\ d.idle >= 0
    /\ d.net \in (IF d.scheme \in {"vmess", "trojan", "vless"}
                   THEN {Absent, "ws", "httpupgrade", "http-upgrade", "xhttp", "grpc"} ELSE {Absent})
    /\ d.net = Absent => d.path = Absent

\* The same proxy as an item of a Clash file: what a link says with "security"
\* is the item's "tls" where TLS is optional.
AsClash(d) ==
    IF d.scheme \notin {"vmess", "vless", "trojan", "socks", "socks5", "socks5h", "http"} THEN d
    ELSE [d EXCEPT !.tls = IF d.sec \in {"tls", "reality"} \/ (d.scheme = "trojan" /\ d.sec # "none")
                             THEN "true" ELSE "false"]

\* Where the parsers differ.  Those of links give the server's name for an SNI and "/" for
\* a path that is not there; no vmess or ss link has an ALPN, no ss or hysteria2 link a
\* fingerprint and no ss link TLS settings, while an item of any type has; idle session
\* settings are read from anytls links only; a vmess link may say what gRPC needs in its
\* path and host.
FormsDiffer(d) ==
    \/ d.scheme \in {"trojan", "vless", "anytls"} /\ d.sni = Absent
    \/ d.net \notin {Absent, "grpc"} /\ d.path = Absent
    \/ d.scheme \in {"vmess", "ss"} /\ d.alpn # Absent
    \/ d.scheme \in {"ss", "hysteria2", "hy2"} /\ d.fp # Absent
    \/ d.scheme = "ss" /\ (d.sni # Absent \/ d.insecure)
    \/ d.scheme = "anytls" /\ d.idle # 0
    \/ /\ d.scheme = "vmess" /\ d.net = "grpc"
       /\ \/ d.service = Absent /\ d.path # Absent
          \/ d.authority = Absent /\ d.host # Absent

\* Whether the provider serves links or a Clash file, a proxy is kept or dropped alike, and
\* it has the same source key (computeSourceKey, service.go:1088) but for the fields above,
\* and there it has not.  A provider that changes the form it serves makes exactly those
\* nodes look removed and added: of the others, names, test results and the references of
\* servers are kept.
FormsAgree ==
    \A i \in DOMAIN body.entries :
        LET d == body.entries[i]
            link == ParseLink(d)
            clash == ParseClashProxy(AsClash(d))
        IN  Described(d) =>
                /\ (link = Dropped) <=> (clash = Dropped)
                /\ link # Dropped => ((link.key = clash.key) <=> ~FormsDiffer(d))

\* What the parsers hand over can be stored: ReplaceSubscriptionOutbounds
\* validates every node again and refuses the whole update for one that fails
\* (proxy_outbound_manager.go:177), so a single bad entry that got through would
\* stop all updates of the subscription.
OneBadEntryIsDropped ==
    reply.op = "import" => \A i \in DOMAIN reply.items : Validate(reply.items[i].outbound)

\* A node is read alike from a link and from a Clash list, and what is handed over can be
\* stored.
ParsersInv == FormsAgree /\ OneBadEntryIsDropped
=============================================================================
