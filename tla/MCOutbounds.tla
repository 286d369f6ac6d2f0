----------------------------- MODULE MCOutbounds -----------------------------
(* Where outbounds come from and what becomes of them: the requests of a plan, *)
(* one body that is parsed, or dials and the cleanup of idle instances.  The   *)
(* three share no state; a behaviour is one of one of them.                    *)
EXTENDS Subscriptions, SubscriptionContent, OutboundCache

Schemes == {"vmess", "ss", "trojan", "anytls", "vless", "hysteria2", "hy2", "socks", "socks5",
            "http", "https", "shadowsocks", "wireguard", ""}

Entry == [scheme |-> "trojan", name |-> "a", server |-> "h", port |-> 443, user |-> "u",
          pass |-> "", decodes |-> TRUE, sec |-> "none", tls |-> "", net |-> "", path |-> "",
          service |-> "", sni |-> "", pbk |-> "", sid |-> "", insecure |-> FALSE, cert |-> "",
          alpn |-> "", fp |-> "", cipher |-> "", flow |-> "", obfs |-> "", idle |-> 0,
          host |-> "", mode |-> "", authority |-> ""]

\* Every security, transport and SNI of every protocol.
Shapes ==
    { [Entry EXCEPT !.scheme = c, !.sec = s, !.net = n, !.path = p, !.service = v, !.sni = i,
                    !.pbk = k, !.user = IF c = "ss" THEN "aes-256-gcm" ELSE "u",
                    !.pass = IF c = "ss" THEN "p" ELSE ""] :
        c \in Schemes, s \in {"", "none", "tls", "reality"},
        n \in {"", "ws", "http-upgrade", "grpc", "kcp"}, p \in {"", "/x"},
        v \in {"", "g"}, i \in {"", "s"}, k \in {"", "k"} }

\* The settings that some forms of some protocols do not have.
Settings ==
    { [Entry EXCEPT !.scheme = c, !.net = n, !.path = p, !.service = v, !.host = h,
                    !.authority = a, !.alpn = l, !.fp = f, !.idle = t, !.sni = "s", !.cipher = f,
                    !.flow = l, !.obfs = l, !.mode = h, !.user = IF c = "ss" THEN "aes-256-gcm" ELSE "u",
                    !.pass = IF c = "ss" THEN "p" ELSE ""] :
        c \in {"vmess", "ss", "trojan", "anytls", "vless", "hy2", "http"},
        n \in {"", "ws", "xhttp", "grpc"}, p \in {"", "/x"}, v \in {"", "g"}, h \in {"", "w"},
        a \in {"", "w"}, l \in {"", "l"}, f \in {"", "f"}, t \in {-1, 0, 30} }

\* Entries with something missing or out of range.
Broken ==
    { [Entry EXCEPT !.scheme = c, !.port = q, !.user = u, !.pass = w, !.server = h, !.name = n,
                    !.decodes = d, !.tls = t, !.insecure = t = "true"] :
        c \in Schemes, q \in {0, 443, 70000}, u \in {"", "u"}, w \in {"", "p"}, h \in {"", "h"},
        n \in {"", "a"}, d \in BOOLEAN, t \in {"", "false", "true"} }

MCBodies ==
    { [form |-> f, base64 |-> FALSE, entries |-> <<e>>] :
        f \in {"yaml", "links"}, e \in Shapes \cup Settings \cup Broken }
    \cup { [form |-> f, base64 |-> b, entries |-> q] :
        f \in {"yaml", "links"}, b \in BOOLEAN,
        q \in {<<>>, <<Entry, [Entry EXCEPT !.user = ""], [Entry EXCEPT !.scheme = "vless"]>>} }

MCOutbounds == [up |-> TRUE, down |-> FALSE]

-----------------------------------------------------------------------------

MCSubs == {"s1", "s2"}

MCEndings == <<"2", "3">>

MCContents ==
    LET k1a == [key |-> "k1", base |-> "a"]
        k2a == [key |-> "k2", base |-> "a"]
        k3b == [key |-> "k3", base |-> "b"]
    IN  {<<>>, <<k2a, k1a, [key |-> "k1", base |-> "b"]>>, <<k3b, k2a>>}

N(base, tag) == <<base, tag>>

FromSub(s, k) == [sub |-> s, key |-> k, tested |-> FALSE, blocked |-> FALSE]

BaseConf ==
    [n \in OutNames |-> CASE n = N("a", "s1") -> FromSub("s1", "k1")
                       [] n = N("b", Nothing) -> Manual("own")
                       [] OTHER -> NoNode]

Entry1(mode) == [rev |-> 1, on |-> TRUE, mode |-> mode, last |-> 1, err |-> FALSE]

OnNode(op, n) == [Request(op, Nothing) EXCEPT !.name = n]

\* The requests that are put side by side, two at a time, in no order: the two jobs
\* are alike.
Requests == <<
    Request("now", "s1"),
    Request("delete", "s1"),
    [Request("edit", "s1") EXCEPT !.to = "s2"],
    OnNode("add", N("a", "")),
    OnNode("remove", N("a", "s1")),
    OnNode("remove", N("b", "")),
    [OnNode("change", N("a", "s1")) EXCEPT !.as = N("a", "s1")],
    [OnNode("change", N("a", "s1")) EXCEPT !.as = N("b", "")],
    OnNode("block", N("a", "s1")),
    OnNode("test", N("a", "s1")),
    OnNode("pick", N("a", "s1")),
    OnNode("reload", N("b", "")),
    OnNode("reload", N("a", "s1")),
    Request("all", "") >>

Servers == {[kind |-> "nodes", names |-> {N("a", "s1"), N("b", "")}, group |-> ""],
            [kind |-> "group", names |-> {}, group |-> "s1"]}

Plan == [jobs |-> <<Idle, Idle>>, subs |-> [s1 |-> Entry1("off"), s2 |-> NoSub],
         conf |-> BaseConf, server |-> Direct, auto |-> "done", now |-> 1, toggles |-> 0,
         faults |-> 0]

Pairs ==
    { [Plan EXCEPT !.jobs = <<Requests[p[1]], Requests[p[2]]>>, !.server = v, !.now = MaxTime] :
        p \in {q \in (DOMAIN Requests) \X (DOMAIN Requests) : q[1] <= q[2]}, v \in Servers }

Faulty ==
    { [Plan EXCEPT !.jobs = <<Requests[i], Requests[12]>>, !.faults = 1, !.now = MaxTime] :
        i \in DOMAIN Requests }

\* The scheduler beside a request, the clock running.
Scheduled ==
    { [Plan EXCEPT !.jobs = <<r, Idle>>, !.auto = "ready", !.toggles = t,
                   !.subs = [s1 |-> Entry1(m), s2 |-> IF r.op \in {"none", "delete"} THEN Entry1("daily") ELSE NoSub]] :
        m \in {"daily", "interval"}, t \in {0, 1},
        r \in {Idle, Request("now", "s1"), Request("delete", "s1"),
               [Request("create", "s2") EXCEPT !.mode = "daily"],
               [Request("edit", "s1") EXCEPT !.mode = "daily"]} }

\* ... and one of which the mark of the attempt is not saved, or an update of all is
\* under way.
Unmarked ==
    { [Plan EXCEPT !.jobs = <<r, Idle>>, !.auto = "ready", !.faults = IF r = Idle THEN 1 ELSE 0,
                   !.subs = [s1 |-> Entry1("daily"), s2 |-> NoSub]] :
        r \in {Idle, Request("all", "")} }

MCPlans == Unmarked \cup Pairs \cup Faulty \cup Scheduled

NoPlan == Plan

NoBody == [form |-> "links", base64 |-> FALSE, entries |-> <<>>]

SubRests ==
    /\ subs = NoPlan.subs /\ conf = BaseConf /\ file = BaseConf /\ rt = BaseConf
    /\ server = Direct /\ jobs = [j \in JobIds |-> Idle]
    /\ now = MaxTime /\ sessions = FALSE /\ toggles = 0 /\ faults = 0
    /\ astray = FALSE /\ strayed = FALSE /\ disturbed = {} /\ split = {} /\ loose = {} /\ tried = [s \in Subs |-> 0]

ContentRests == body = NoBody /\ reply = [NoReply EXCEPT !.op = "off"]

-----------------------------------------------------------------------------
(* A part that is not chosen stays where none of its fair actions is enabled.  *)

VARIABLE which

OutboundsInit ==
    /\ which \in {"subs", "content", "cache"}
    /\ Init
    /\ IF which = "subs" THEN SubInit ELSE SubRests
    /\ IF which = "content" THEN ContentInit ELSE ContentRests

OutboundsNext ==
    /\ UNCHANGED which
    /\ \/ which = "subs" /\ SubNext /\ UNCHANGED <<contentVars, vars>>
       \/ which = "content" /\ ContentNext /\ UNCHANGED <<subVars, vars>>
       \/ which = "cache" /\ Next /\ UNCHANGED <<subVars, contentVars>>

OutboundsSpec ==
    /\ OutboundsInit
    /\ [][OutboundsNext]_<<which, subVars, contentVars, vars>>
    /\ SubFairness /\ Fairness
=============================================================================
