------------------------------ MODULE MCAccess ------------------------------
EXTENDS AccessControl, Authentication, APIAccess

\* The parts share no state; a behaviour is one of one of them.
VARIABLE which

-----------------------------------------------------------------------------
(* AccessControl. *)

Kinds1 == [s1 |-> "raw", s2 |-> "passthrough"]
Kinds2 == [s1 |-> "mitm", s2 |-> "raknet"]

Q(op, s) == [NoRequest EXCEPT !.op = op, !.name = "ann", !.scope = s]

Ban(s, t) == [Q("ban", s) EXCEPT !.on = TRUE, !.till = t]
Set(op, s, b) == [Q(op, s) EXCEPT !.on = b]
Rule(s, b, w) == [Q("settings", s) EXCEPT !.name = "", !.on = b, !.white = w]

BanRequests ==
    UNION {{Ban(s, Forever), Ban(s, 2), [Q("ban", s) EXCEPT !.till = Forever],
            Set("setBan", s, TRUE), Set("setBan", s, FALSE), Q("unban", s)} : s \in {"", "s1"}}

AllowRequests ==
    UNION {{[Q("allow", s) EXCEPT !.on = TRUE, !.till = t] : t \in {Forever, 2}}
           \cup {Set("setAllow", s, b) : b \in BOOLEAN}
           \cup {Q("unallow", s)} : s \in {"", "s1"}}

Rules == {Rule(s, b, w) : s \in {"", "s1"}, b \in BOOLEAN, w \in BOOLEAN}

Padded == [Ban("", Forever) EXCEPT !.padded = TRUE]
Lists == [Q("list", "") EXCEPT !.name = ""]
IdleAccess == [kind |-> Kinds1, local |-> 0, requests |-> {}, faults |-> 0, ticks |-> 0]

Pairs(X, Y) == {{x, y} : x \in X, y \in Y}

MCAccessPlans ==
    [kind : {Kinds1}, local : {0}, requests : Pairs(BanRequests, BanRequests \cup {Padded, Lists}),
     faults : {0}, ticks : {1}]
    \cup [kind : {Kinds2}, local : {0}, requests : Pairs({Ban("", Forever), Ban("s1", 2)}, Rules \cup {Padded}),
           faults : {1}, ticks : {1}]
    \cup [kind : {Kinds1, Kinds2}, local : {0},
           requests : {{x, Rule(s, TRUE, TRUE)} : x \in AllowRequests, s \in {"", "s1"}},
           faults : {1}, ticks : {1}]
    \cup [kind : {Kinds2}, local : {0}, requests : {p \cup {Rule("", TRUE, TRUE)} : p \in Pairs(AllowRequests, AllowRequests)},
           faults : {0}, ticks : {1}]
    \cup [kind : {Kinds1}, local : {0},
           requests : {{Ban("", 2), q, r} : q \in {Set("setBan", "", FALSE), Ban("", Forever)},
                                            r \in {Set("setBan", "", TRUE), Q("unban", "")}},
           faults : {0}, ticks : {2}]
    \cup [kind : {Kinds1}, local : {0}, requests : {{Q("kick", ""), Ban("s1", Forever)}}, faults : {0}, ticks : {0}]
    \cup [kind : {Kinds1}, local : {1}, faults : {0}, ticks : {1},
           requests : {{[Ban("s1", 3) EXCEPT !.zone = z], [Q("allow", "") EXCEPT !.on = TRUE, !.till = 2], q} :
                         z \in 0..2, q \in {Q("unban", "s1"), Lists}}]
    \cup {IdleAccess}

-----------------------------------------------------------------------------
(* Authentication. *)

IdleAuth == [ticks |-> 0, turns |-> 0, calls |-> 0, tokens |-> 0, revokes |-> 0, dials |-> 0,
             faults |-> 0, restarts |-> 0]

MCAuthPlans ==
    {IdleAuth,
     [IdleAuth EXCEPT !.ticks = 3, !.turns = 1, !.calls = 3],
     [IdleAuth EXCEPT !.ticks = 2, !.turns = 2, !.calls = 2, !.faults = 1],
     [IdleAuth EXCEPT !.tokens = 3, !.revokes = 2, !.dials = 3, !.faults = 1, !.restarts = 1]}

-----------------------------------------------------------------------------
(* APIAccess. *)

Send(k, op, t) == [key |-> k, op |-> op, target |-> t, set |-> NoSet, id |-> 0]
Get(k, n) == [Send(k, "get", 0) EXCEPT !.id = n]
Edit(op, s) == [Send(Nothing, op, 0) EXCEPT !.set = s]

One(f, v) == [x \in {f} |-> v]
Two(f, v, g, w) == [x \in {f, g} |-> IF x = f THEN v ELSE w]

Edits ==
    {Edit("config", Two("render", 4, "storage", 5)), Edit("config", Two("render", 2, "storage", 1)),
     Edit("config", One("render", 3)), Edit("config", One("storage", 0)), Edit("config", One("storage", 1)),
     Edit("config", Two("max", 2, "ports", 0)), Edit("entry", One("entry", 2)),
     Edit("max", One("max", 3)), Edit("max", One("max", 0))}

IdleAPI == [secret |-> FALSE, keys |-> 0, todo |-> {}, faults |-> 0, restarts |-> 0, falls |-> 0]

MCAPIPlans ==
    {IdleAPI}
    \cup [secret : {FALSE}, keys : {1}, faults : {1}, restarts : {0}, falls : {0},
           todo : {{Send(1, "create", 0), Send(1, "delete", 1), Get(2, 1), Get(1, 1), Get(Nothing, 1)}}]
    \cup [secret : {TRUE}, keys : {1}, faults : {1}, restarts : {0}, falls : {0},
           todo : {{Send(Secret, "delete", 1), Get(Unknown, 1), Get(1, 1), Send(Nothing, "create", 0)}}]
    \cup [secret : {FALSE}, keys : {1}, faults : {1}, restarts : {1}, falls : {0},
           todo : {{Get(1, n) : n \in 1..4}}]
    \cup [secret : {FALSE}, keys : {1}, faults : {0}, restarts : {0}, falls : {2},
           todo : {{Get(1, n) : n \in 1..4}}]
    \cup [secret : {FALSE}, keys : {0}, faults : {1}, restarts : {1}, falls : {0}, todo : Pairs(Edits, Edits)]

-----------------------------------------------------------------------------
Init ==
    /\ which \in {"lists", "auth", "api"}
    /\ AccessInit /\ AuthInit /\ APIInit
    /\ which # "lists" => plan = IdleAccess
    /\ which # "auth" => ahead = IdleAuth
    /\ which # "api" => plans = IdleAPI

Next ==
    /\ UNCHANGED which
    /\ \/ which = "lists" /\ AccessNext /\ UNCHANGED <<authVars, apiVars>>
       \/ which = "auth" /\ AuthNext /\ UNCHANGED <<accessVars, apiVars>>
       \/ which = "api" /\ APINext /\ UNCHANGED <<accessVars, authVars>>

Spec == Init /\ [][Next]_<<which, accessVars, authVars, apiVars>>
=============================================================================
