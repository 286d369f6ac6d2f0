-------------------------- MODULE ForwardingProofs --------------------------
(***************************************************************************)
(* What is proved of the proxies that forward the players' traffic.        *)
(*                                                                         *)
(* The raw UDP proxy, for any number of clients, of fragments and of       *)
(* datagrams, whatever the goroutines do between each other's steps: the   *)
(* table of clients, their sockets and goroutines agree and no byte is     *)
(* credited twice (RawInv), and a refused player gets no complete Login    *)
(* through (DeniedWithheld).  The invariant speaks of one client at a time *)
(* (SoundClient, Tended, Released) and of what the Listen loop relies on   *)
(* (LoopFits).  A step replaces one client; what it makes of the record is *)
(* a lemma of its own.                                                     *)
(*                                                                         *)
(* The other listeners, for any number of connections, clients and         *)
(* datagrams: PlainInv of the plain UDP proxy and StreamInv of the         *)
(* listeners with a handler per connection.  The sessions table is keyed   *)
(* by address and handlers come and go; that a session in it is never      *)
(* forgotten rests on each place where a handler still holds one (Holding, *)
(* Witnessed), and that a refused player of the RakNet proxy is closed on  *)
(* who may have taken its entry of activeConns (Rival).                    *)
(***************************************************************************)
EXTENDS RawUDPClients, StreamProxies, PlainUDPClients, TLAPS

-----------------------------------------------------------------------------
(* RawUDPClients.                                                          *)

\* What a client is like wherever it is.  Bytes: what is credited is what is synced,
\* and no more than came in.  Fragments: what went to the target without a Login found
\* is kept in split as long as the socket is open and nothing was lost of it, so
\* the one fragment that completes the Login is never among it.
SoundClient(p) ==
    /\ p \in RawClients
    /\ p.credit = p.synced /\ p.synced <= p.up
    /\ p.denied => p.kicked /\ p.login
    /\ ~p.login => p.split # Frags
    /\ ~p.login /\ ~p.lost => ~(Frags \subseteq p.sent)
    /\ ~p.login /\ ~p.lost /\ p.sock = "open" => p.sent \subseteq p.split
    /\ p.denied /\ ~p.lost => ~(Frags \subseteq p.sent)

\* The client in the table of a proxy that runs; kc is "done" only once the delayed
\* removal has taken it out.
Tended(p) ==
    /\ p.sock = "open"
    /\ p.fin = "no"
    /\ p.kc # "done"
    /\ p.fwd \in {"run", "exit"} \/ (p.kicked /\ p.kc = "due")

\* A client that is not in the table.
Released(p) == p.sock = "open" => p.fin = "close"

\* The Listen loop, in state l, works for a client.
Busy == {"sess", "sync", "cas", "login", "check", "publish", "write"}

\* What it relies on: nobody but the loop itself refuses the client; the bytes it has
\* read are still there; the fragment it is about to send is kept.
LoopFits(l, p) ==
    /\ l.pc # "publish" => ~p.denied
    /\ l.pc = "cas" => l.tot <= p.up
    /\ l.pc = "check" => p.login
    /\ l.pc = "check" /\ ~p.lost => ~(Frags \subseteq p.sent)
    /\ l.pc = "write" /\ l.kind \in Frags /\ ~p.login /\ ~p.lost /\ p.sock = "open"
         => l.kind \in p.split

ClientsFit ==
    /\ \A g \in Gens : SoundClient(cl[g])
    /\ tab # 0 /\ ~closed => Tended(cl[tab])
    /\ \A g \in Gens : tab # g => Released(cl[g])

LoopFit ==
    /\ lp.pc \in Busy => lp.g \in Gens /\ LoopFits(lp, cl[lp.g])
    /\ lp.pc \in {"dial", "open"} => tab = 0

RawIInv ==
    /\ RawTypeOK
    /\ ClientsFit
    /\ LoopFit
    /\ kp.pc = "keep" => kp.g \in Gens

\* The types of everything but the clients.
RawRest ==
    /\ tab \in 0 .. MaxClients
    /\ made \in 0 .. MaxClients
    /\ lp \in LoopStates
    /\ kp \in [pc : {"wait", "remove", "keep", "off"}, g : 0 .. MaxClients]
    /\ api \in 0 .. MaxClients
    /\ stop \in {"no", "range", "drop", "wait", "done"}
    /\ sess \in {"none", "anon", "named"}
    /\ recent \in BOOLEAN
    /\ quota \in Loads
    /\ got \in 0 .. quota.packets
    /\ outside \in 0 .. quota.outside
    /\ kp.pc = "keep" => kp.g \in Gens

LEMMA RawTypes == RawTypeOK /\ (kp.pc = "keep" => kp.g \in Gens)
                    <=> RawRest /\ cl \in [Gens -> RawClients]
  BY DEF RawTypeOK, RawRest

-----------------------------------------------------------------------------
(* Clients: what an update leaves alone.                                   *)

SameBytes(p, q) == q.up = p.up /\ q.synced = p.synced /\ q.credit = p.credit

SameLogin(p, q) ==
    /\ q.login = p.login /\ q.split = p.split /\ q.lost = p.lost
    /\ q.sent = p.sent /\ q.denied = p.denied

SameLife(p, q) ==
    /\ q.sock = p.sock /\ q.fin = p.fin /\ q.fwd = p.fwd /\ q.kc = p.kc
    /\ q.kicked = p.kicked

\* What the Listen loop can rely on when another goroutine makes q of its client p.
Later(p, q) ==
    /\ q.login = p.login /\ q.sent = p.sent /\ q.denied = p.denied
    /\ p.up <= q.up
    /\ ~q.lost => ~p.lost
    /\ q.sock = "open" /\ ~q.lost => p.sock = "open" /\ q.split = p.split

LEMMA LoopStaysFit ==
  ASSUME NEW l \in LoopStates, NEW p, NEW q, LoopFits(l, p), Later(p, q),
         p.up \in Nat, q.up \in Nat
  PROVE  LoopFits(l, q)
  BY DEF LoopFits, Later, LoopStates

LEMMA ZeroAge == 0 \in 0 .. Silence
  BY RawConstants

LEMMA ZeroTab == 0 \in 0 .. MaxClients
  BY RawConstants

LEMMA ClientFields ==
  ASSUME NEW p \in RawClients
  PROVE  /\ p.up \in Nat /\ p.synced \in Nat /\ p.credit \in Nat
         /\ p.split \subseteq Frags /\ p.sent \subseteq Frags
         /\ p.login \in BOOLEAN /\ p.lost \in BOOLEAN /\ p.denied \in BOOLEAN
         /\ p.kicked \in BOOLEAN
  BY DEF RawClients

LEMMA StaysSound ==
  ASSUME NEW p, NEW q \in RawClients, SoundClient(p), SameBytes(p, q), SameLogin(p, q),
         p.kicked => q.kicked, q.sock = "open" => p.sock = "open"
  PROVE  SoundClient(q) /\ Later(p, q)
  <1>1. p.up <= q.up
    BY ClientFields DEF SoundClient, SameBytes
  <1> QED
    BY <1>1 DEF SoundClient, Later, SameBytes, SameLogin

LEMMA StaysPlaced ==
  ASSUME NEW p, NEW q, SameLife(p, q)
  PROVE  (Tended(p) => Tended(q)) /\ (Released(p) => Released(q))
  BY DEF SameLife, Tended, Released

LEMMA DoBegin ==
  ASSUME NEW p \in RawClients, NEW w \in {"L", "K", "F", "C"}
  PROVE  LET q == [p EXCEPT !.fin = "close", !.by = w]
         IN  /\ q \in RawClients /\ SameBytes(p, q) /\ SameLogin(p, q)
             /\ q.sock = p.sock /\ q.kicked = p.kicked /\ q.fin = "close"
  BY DEF RawClients, SameBytes, SameLogin, SameLife

LEMMA DoClose ==
  ASSUME NEW p \in RawClients
  PROVE  LET q == [p EXCEPT !.sock = "closed", !.split = {}, !.older = 0, !.newer = 0,
                            !.age = 0, !.fin = "credit"]
         IN  /\ q \in RawClients /\ SameBytes(p, q)
             /\ q.login = p.login /\ q.split = {} /\ q.lost = p.lost /\ q.sent = p.sent
             /\ q.denied = p.denied /\ q.kicked = p.kicked /\ q.sock = "closed"
  BY ZeroAge DEF RawClients, SameBytes, SameLogin, SameLife

LEMMA DoFin ==
  ASSUME NEW p \in RawClients, NEW f \in {"drop", "done"}, NEW w \in {"", "L", "K", "F", "C"}
  PROVE  LET q == [p EXCEPT !.fin = f, !.by = w]
         IN  /\ q \in RawClients /\ SameBytes(p, q) /\ SameLogin(p, q)
             /\ q.sock = p.sock /\ q.kicked = p.kicked
  BY DEF RawClients, SameBytes, SameLogin, SameLife

LEMMA DoFinOnly ==
  ASSUME NEW p \in RawClients
  PROVE  LET q == [p EXCEPT !.fin = "drop"]
         IN  /\ q \in RawClients /\ SameBytes(p, q) /\ SameLogin(p, q)
             /\ q.sock = p.sock /\ q.kicked = p.kicked
  BY DEF RawClients, SameBytes, SameLogin, SameLife

LEMMA DoCredit ==
  ASSUME NEW p \in RawClients, NEW n \in Nat
  PROVE  LET q == [p EXCEPT !.fin = "drop", !.synced = p.up, !.credit = n]
         IN  /\ q \in RawClients /\ SameLogin(p, q) /\ q.sock = p.sock /\ q.kicked = p.kicked
             /\ q.up = p.up /\ q.synced = p.up /\ q.credit = n
  BY DEF RawClients, SameBytes, SameLogin, SameLife

LEMMA DoPacket ==
  ASSUME NEW p \in RawClients, NEW n \in Nat
  PROVE  LET q == [p EXCEPT !.age = 0, !.up = n]
         IN  /\ q \in RawClients /\ SameLogin(p, q) /\ SameLife(p, q)
             /\ q.up = n /\ q.synced = p.synced /\ q.credit = p.credit
  BY ZeroAge DEF RawClients, SameBytes, SameLogin, SameLife

LEMMA DoMade ==
  ASSUME NEW p \in RawClients
  PROVE  LET q == [p EXCEPT !.made = TRUE]
         IN  /\ q \in RawClients /\ SameBytes(p, q) /\ SameLogin(p, q)
             /\ SameLife(p, q)
  BY DEF RawClients, SameBytes, SameLogin, SameLife

\* The upkeep of the buffers makes q of p: the Login's fragments stay, or are lost.
Alike(p, q) ==
    /\ q \in RawClients /\ SameBytes(p, q) /\ SameLife(p, q)
    /\ q.login = p.login /\ q.sent = p.sent /\ q.denied = p.denied

Shifts(p, q) ==
    /\ Alike(p, q)
    /\ (q.split = p.split /\ q.lost = p.lost) \/ (q.split = {} /\ q.lost = TRUE)

\* q is p with other buffers: x of the Login, a before it and b since.
Rebuffered(p, q, x, l, a, b) ==
    q = [p EXCEPT !.split = x, !.lost = l, !.older = a, !.newer = b]

LEMMA DoBuffers ==
  ASSUME NEW p \in RawClients, NEW x \in SUBSET Frags, NEW a \in Nat, NEW b \in Nat,
         NEW l \in BOOLEAN, NEW q, Rebuffered(p, q, x, l, a, b)
  PROVE  Alike(p, q) /\ q.split = x /\ q.lost = l
  BY DEF Rebuffered, RawClients, SameBytes, SameLife, Alike

LEMMA DoOlder ==
  ASSUME NEW p \in RawClients, NEW a \in Nat
  PROVE  LET q == [p EXCEPT !.older = a] IN Alike(p, q) /\ q.split = p.split /\ q.lost = p.lost
  BY DEF RawClients, SameBytes, SameLife, Alike

LEMMA DoNewer ==
  ASSUME NEW p \in RawClients, NEW a \in Nat
  PROVE  LET q == [p EXCEPT !.newer = a] IN Alike(p, q) /\ q.split = p.split /\ q.lost = p.lost
  BY DEF RawClients, SameBytes, SameLife, Alike

LEMMA DoSplit ==
  ASSUME NEW p \in RawClients, NEW x \in SUBSET Frags
  PROVE  LET q == [p EXCEPT !.split = x] IN Alike(p, q) /\ q.split = x /\ q.lost = p.lost
  BY DEF RawClients, SameBytes, SameLife, Alike

LEMMA DoLose ==
  ASSUME NEW p \in RawClients
  PROVE  LET q == [p EXCEPT !.lost = TRUE] IN Alike(p, q) /\ q.split = p.split /\ q.lost = TRUE
  BY DEF RawClients, SameBytes, SameLife, Alike

LEMMA AlikeAlike ==
  ASSUME NEW p, NEW q, NEW u, Alike(p, q), Alike(q, u)
  PROVE  Alike(p, u)
  BY DEF Alike, SameBytes, SameLife

LEMMA CountsAreNat ==
  ASSUME NEW p \in RawClients
  PROVE  p.older \in Nat /\ p.newer \in Nat /\ Buffers(p) \in Nat /\ Buffers(p) <= p.older + p.newer + 1
  <1>1. p.older \in Nat /\ p.newer \in Nat
    BY DEF RawClients
  <1> QED
    BY <1>1 DEF Buffers

LEMMA DroppedShifts ==
  ASSUME NEW p \in RawClients, NEW n \in 0 .. Buffers(p)
  PROVE  Shifts(p, Dropped(p, n))
  <1>1. /\ p.older \in Nat /\ p.newer \in Nat /\ Buffers(p) \in Nat /\ n \in Nat
        /\ n <= p.older + p.newer + 1
    BY CountsAreNat
  <1>2. CASE n <= p.older
    <2>1. PICK a \in Nat : a = p.older - n
      BY <1>1, <1>2
    <2>2. Dropped(p, n) = [p EXCEPT !.older = a]
      BY <1>2, <2>1 DEF Dropped
    <2> QED
      BY <2>2, DoOlder DEF Shifts
  <1>3. CASE ~(n <= p.older)
    <2>1. PICK a \in Nat : a = (p.older + p.newer + 1) - n
      BY <1>1
    <2>2. PICK x \in SUBSET Frags, b \in Nat, l \in BOOLEAN : x = {} /\ b = 0 /\ l = TRUE
      OBVIOUS
    <2>3. PICK q : q = Dropped(p, n)
      OBVIOUS
    <2>4. Rebuffered(p, q, x, l, a, b)
      BY <1>3, <2>1, <2>2, <2>3 DEF Rebuffered, Dropped
    <2>5. Alike(p, q) /\ q.split = x /\ q.lost = l
      BY <2>4, DoBuffers
    <2> QED
      BY <2>2, <2>3, <2>5 DEF Shifts
  <1> QED
    BY <1>2, <1>3

LEMMA RoomShifts ==
  ASSUME NEW p \in RawClients, NEW d \in Room(p)
  PROVE  Shifts(p, d)
  <1>1. CASE d = p
    BY <1>1 DEF Shifts, Alike, SameBytes, SameLife
  <1>2. CASE d # p
    <2>1. PICK n \in 1 .. Buffers(p) : d = Dropped(p, n)
      BY <1>2 DEF Room
    <2>2. n \in 0 .. Buffers(p)
      BY <2>1, CountsAreNat
    <2> QED
      BY <2>1, <2>2, DroppedShifts
  <1> QED
    BY <1>1, <1>2

LEMMA MadeShifts ==
  ASSUME NEW p \in RawClients, NEW d \in Made(p)
  PROVE  Shifts(p, d) /\ d.split = p.split /\ (p.lost => d.lost)
  <1>1. CASE d = p
    BY <1>1 DEF Shifts, Alike, SameBytes, SameLife
  <1>2. CASE d # p
    <2>1. p.split = {} /\ d \in Room(p)
      BY <1>2 DEF Made
    <2> QED
      BY <2>1, RoomShifts DEF Shifts
  <1> QED
    BY <1>1, <1>2

\* A fragment of another packet.
LEMMA OtherShifts ==
  ASSUME NEW p \in RawClients, NEW d \in Continued(p) \cup Begun(p)
  PROVE  Shifts(p, d)
  <1>0. p.older \in Nat /\ p.newer \in Nat
    BY CountsAreNat
  <1>1. CASE d \in Room(p)
    BY <1>1, RoomShifts
  <1>2. CASE d = p
    BY <1>2 DEF Shifts, Alike, SameBytes, SameLife
  <1>3. CASE d = [p EXCEPT !.older = p.older - 1] /\ d.older >= 0
    <2>1. PICK a \in Nat : a = p.older - 1
      <3>1. d.older = p.older - 1
        BY <1>3 DEF RawClients
      <3> QED
        BY <1>0, <1>3, <3>1
    <2> QED
      BY <1>3, <2>1, DoOlder DEF Shifts
  <1>4. CASE d = [p EXCEPT !.newer = p.newer - 1] /\ d.newer >= 0
    <2>1. PICK a \in Nat : a = p.newer - 1
      <3>1. d.newer = p.newer - 1
        BY <1>4 DEF RawClients
      <3> QED
        BY <1>0, <1>4, <3>1
    <2> QED
      BY <1>4, <2>1, DoNewer DEF Shifts
  <1>5. ASSUME NEW e \in Room(p),
               d = IF e.split = {} THEN [e EXCEPT !.older = e.older + 1]
                   ELSE [e EXCEPT !.newer = e.newer + 1]
        PROVE  Shifts(p, d)
    <2>1. Shifts(p, e) /\ e \in RawClients
      BY RoomShifts DEF Shifts, Alike
    <2>2. e.older \in Nat /\ e.newer \in Nat
      BY <2>1, CountsAreNat
    <2>3. Alike(e, d) /\ d.split = e.split /\ d.lost = e.lost
      <3>1. CASE e.split = {}
        <4>1. PICK a \in Nat : a = e.older + 1
          BY <2>2
        <4>2. d = [e EXCEPT !.older = a]
          BY <1>5, <3>1, <4>1
        <4> QED
          BY <2>1, <4>2, DoOlder
      <3>2. CASE e.split # {}
        <4>1. PICK a \in Nat : a = e.newer + 1
          BY <2>2
        <4>2. d = [e EXCEPT !.newer = a]
          BY <1>5, <3>2, <4>1
        <4> QED
          BY <2>1, <4>2, DoNewer
      <3> QED
        BY <3>1, <3>2
    <2>4. Alike(p, d)
      BY <2>1, <2>3, AlikeAlike DEF Shifts
    <2> QED
      BY <2>1, <2>3, <2>4 DEF Shifts
  <1> QED
    BY <1>1, <1>2, <1>3, <1>4, <1>5 DEF Continued, Begun

\* What parsing a datagram of kind k makes of client p.
Parsed(p, q, k) ==
    /\ Alike(p, q)
    /\ p.lost => q.lost
    /\ ~q.lost => p.split \subseteq q.split /\ (k \in Frags /\ ~p.login => k \in q.split)
    /\ ~p.login => q.split # Frags

\* A fragment of the Login that does not complete it.
LEMMA KeptParsed ==
  ASSUME NEW p \in RawClients, NEW k \in Frags, NEW d \in Kept(p, k), p.split # Frags
  PROVE  Parsed(p, d, k)
  <1>0. {} # Frags /\ p.split \in SUBSET Frags
    BY RawConstants, ClientFields
  <1>1. CASE d = [p EXCEPT !.lost = TRUE]
    BY <1>1, DoLose DEF Parsed
  <1>2. ASSUME NEW e \in Made(p), d = [e EXCEPT !.split = p.split \cup {k}], d.split # Frags
        PROVE  Parsed(p, d, k)
    <2>1. Alike(p, e) /\ e \in RawClients /\ (p.lost => e.lost)
      BY MadeShifts DEF Shifts, Alike
    <2>2. PICK x \in SUBSET Frags : x = p.split \cup {k}
      BY <1>0
    <2>3. Alike(e, d) /\ d.split = x /\ d.lost = e.lost
      BY <1>2, <2>1, <2>2, DoSplit
    <2>4. Alike(p, d)
      BY <2>1, <2>3, AlikeAlike
    <2> QED
      BY <1>2, <2>1, <2>2, <2>3, <2>4 DEF Parsed
  <1>3. CASE d = [BufferGone(p) EXCEPT !.lost = TRUE]
    <2>1. p.older \in Nat /\ p.newer \in Nat
      BY CountsAreNat
    <2>2. PICK a \in Nat : a = p.older + p.newer
      BY <2>1
    <2>4. PICK x \in SUBSET Frags, b \in Nat, l \in BOOLEAN : x = {} /\ b = 0 /\ l = TRUE
      OBVIOUS
    <2>3. Rebuffered(p, d, x, l, a, b)
      BY <1>3, <2>2, <2>4 DEF Rebuffered, BufferGone, RawClients
    <2>5. Alike(p, d) /\ d.split = {} /\ d.lost = TRUE
      BY <2>2, <2>3, <2>4, DoBuffers, Zenon
    <2> QED
      BY <1>0, <2>5 DEF Parsed
  <1>4. \/ d = [p EXCEPT !.lost = TRUE] \/ d = [BufferGone(p) EXCEPT !.lost = TRUE]
        \/ \E e \in Made(p) : d = [e EXCEPT !.split = p.split \cup {k}] /\ d.split # Frags
    BY DEF Kept
  <1> QED
    BY <1>1, <1>2, <1>3, <1>4

LEMMA DoLogin ==
  ASSUME NEW p \in RawClients
  PROVE  LET q == [BufferGone(p) EXCEPT !.login = TRUE, !.made = TRUE]
         IN  /\ q \in RawClients /\ SameBytes(p, q) /\ SameLife(p, q) /\ q.split = {} /\ q.login
             /\ q.lost = p.lost /\ q.sent = p.sent /\ q.denied = p.denied
  <1>1. p.older \in Nat /\ p.newer \in Nat
    BY CountsAreNat
  <1>2. PICK a \in Nat : a = p.older + p.newer
    BY <1>1
  <1>3. PICK u \in RawClients : u = BufferGone(p) /\ Alike(p, u) /\ u.split = {} /\ u.lost = p.lost
    <2>1. PICK l \in BOOLEAN : l = p.lost
      BY ClientFields
    <2>2. PICK x \in SUBSET Frags, b \in Nat : x = {} /\ b = 0
      OBVIOUS
    <2>3. PICK w : w = BufferGone(p)
      OBVIOUS
    <2>4. Rebuffered(p, w, x, l, a, b)
      BY <1>2, <2>1, <2>2, <2>3 DEF Rebuffered, BufferGone, RawClients
    <2>5. Alike(p, w) /\ w.split = x /\ w.lost = l
      BY <2>4, DoBuffers
    <2> QED
      BY <2>1, <2>2, <2>3, <2>5 DEF Alike
  <1>4. LET q == [u EXCEPT !.login = TRUE, !.made = TRUE]
        IN  /\ q \in RawClients /\ SameBytes(u, q) /\ SameLife(u, q) /\ q.split = u.split /\ q.login
            /\ q.lost = u.lost /\ q.sent = u.sent /\ q.denied = u.denied
    BY DEF RawClients, SameBytes, SameLife
  <1> QED
    BY <1>3, <1>4 DEF Alike, SameBytes, SameLife

LEMMA DoRefuse ==
  ASSUME NEW p \in RawClients
  PROVE  LET q == [p EXCEPT !.kicked = TRUE, !.denied = TRUE]
         IN  /\ q \in RawClients /\ SameBytes(p, q) /\ q.kicked /\ q.denied
             /\ q.login = p.login /\ q.split = p.split /\ q.lost = p.lost
             /\ q.sent = p.sent /\ q.sock = p.sock /\ q.fin = p.fin /\ q.fwd = p.fwd
             /\ q.kc = p.kc
  BY DEF RawClients, SameBytes, SameLogin, SameLife

LEMMA DoKick ==
  ASSUME NEW p \in RawClients
  PROVE  LET q == [p EXCEPT !.kicked = TRUE]
         IN  /\ q \in RawClients /\ SameBytes(p, q) /\ SameLogin(p, q)
             /\ q.kicked /\ q.sock = p.sock /\ q.fin = p.fin /\ q.fwd = p.fwd
             /\ q.kc = p.kc
  BY DEF RawClients, SameBytes, SameLogin, SameLife

LEMMA DoSchedule ==
  ASSUME NEW p \in RawClients, NEW k \in {"no", "due", "done"}
  PROVE  LET q == [p EXCEPT !.kc = k]
         IN  /\ q \in RawClients /\ SameBytes(p, q) /\ SameLogin(p, q)
             /\ q.kicked = p.kicked /\ q.sock = p.sock /\ q.fin = p.fin /\ q.fwd = p.fwd
             /\ q.kc = k
  BY DEF RawClients, SameBytes, SameLogin, SameLife

LEMMA DoSend ==
  ASSUME NEW p \in RawClients, NEW x \in SUBSET Frags
  PROVE  LET q == [p EXCEPT !.sent = x]
         IN  /\ q \in RawClients /\ SameBytes(p, q) /\ SameLife(p, q) /\ q.sent = x
             /\ q.login = p.login /\ q.lost = p.lost /\ q.split = p.split
             /\ q.denied = p.denied
  BY DEF RawClients, SameBytes, SameLogin, SameLife

LEMMA DoLeave ==
  ASSUME NEW p \in RawClients
  PROVE  LET q == [p EXCEPT !.fwd = "exit"]
         IN  /\ q \in RawClients /\ SameBytes(p, q) /\ SameLogin(p, q)
             /\ q.kicked = p.kicked /\ q.sock = p.sock /\ q.fin = p.fin
             /\ q.fwd = "exit" /\ q.kc = p.kc
  BY DEF RawClients, SameBytes, SameLogin, SameLife

LEMMA DoStop ==
  ASSUME NEW p \in RawClients
  PROVE  LET q == [p EXCEPT !.sock = "closed", !.split = {}, !.older = 0, !.newer = 0]
         IN  /\ q \in RawClients /\ SameBytes(p, q)
             /\ q.login = p.login /\ q.split = {} /\ q.lost = p.lost /\ q.sent = p.sent
             /\ q.denied = p.denied /\ q.kicked = p.kicked /\ q.sock = "closed"
  BY DEF RawClients, SameBytes, SameLogin, SameLife

-----------------------------------------------------------------------------
(* The state: one client is replaced.                                      *)

\* What a step must establish of the client it replaces, for the clients to fit
\* afterwards.
LEMMA ClientReplaced ==
  ASSUME RawIInv, NEW g \in Gens, NEW q, cl' = [cl EXCEPT ![g] = q], SoundClient(q),
         tab' = tab \/ (tab = g /\ tab' = 0) \/ (tab = 0 /\ tab' = g),
         ~(closed') => ~closed,
         tab' = g /\ ~(closed') => Tended(q),
         tab' # g => Released(q)
  PROVE  ClientsFit' /\ cl' \in [Gens -> RawClients]
  <1>1. /\ \A h \in Gens : cl'[h] = IF h = g THEN q ELSE cl[h]
        /\ DOMAIN cl' = Gens /\ cl' = [h \in Gens |-> cl'[h]]
    BY DEF RawIInv, RawTypeOK
  <1>2. \A h \in Gens : SoundClient(cl'[h])
    BY <1>1 DEF RawIInv, ClientsFit
  <1>3. cl' \in [Gens -> RawClients]
    BY <1>1, <1>2 DEF SoundClient
  <1>4. tab' # 0 /\ ~(closed') => Tended(cl'[tab'])
    <2>1. g # 0 /\ (tab # 0 => tab \in Gens)
      BY DEF RawIInv, RawTypeOK, Gens
    <2>2. CASE tab' = g
      BY <1>1, <2>2
    <2>3. CASE tab' # g
      BY <1>1, <2>1, <2>3 DEF RawIInv, ClientsFit
    <2> QED
      BY <2>2, <2>3
  <1>5. \A h \in Gens : tab' # h => Released(cl'[h])
    BY <1>1 DEF RawIInv, ClientsFit, Gens
  <1> QED
    BY <1>2, <1>3, <1>4, <1>5 DEF ClientsFit

\* A goroutine other than the Listen loop replaces a client.
LEMMA OtherStep ==
  ASSUME RawIInv, NEW g \in Gens, NEW q, cl' = [cl EXCEPT ![g] = q], SoundClient(q),
         Later(cl[g], q),
         tab' = tab \/ (tab = g /\ tab' = 0),
         ~(closed') => ~closed,
         tab' = g /\ ~(closed') => Tended(q),
         tab' # g => Released(q),
         lp' = lp, RawRest'
  PROVE  RawIInv'
  <1>1. ClientsFit' /\ cl' \in [Gens -> RawClients]
    BY ClientReplaced
  <1>2. ASSUME lp.pc \in Busy PROVE LoopFits(lp, cl'[lp.g])
    <2>1. lp.g \in Gens /\ LoopFits(lp, cl[lp.g]) /\ lp \in LoopStates
      BY <1>2 DEF RawIInv, LoopFit, RawTypeOK
    <2>2. CASE lp.g = g
      <3>1. cl'[g] = q /\ cl[g].up \in Nat /\ q.up \in Nat
        BY ClientFields DEF RawIInv, RawTypeOK, SoundClient
      <3> QED
        BY <2>1, <2>2, <3>1, LoopStaysFit
    <2>3. CASE lp.g # g
      BY <2>1, <2>3 DEF RawIInv, RawTypeOK
    <2> QED
      BY <2>2, <2>3
  <1>3. LoopFit'
    BY <1>2 DEF LoopFit, RawIInv
  <1> QED
    BY <1>1, <1>3, RawTypes DEF RawIInv, RawTypeOK, RawRest

\* A step that replaces no client.
LEMMA NoClientStep ==
  ASSUME RawIInv, cl' = cl, tab' = tab, ~(closed') => ~closed, RawRest', LoopFit'
  PROVE  RawIInv'
  <1>1. ClientsFit'
    BY DEF RawIInv, ClientsFit
  <1> QED
    BY <1>1 DEF RawIInv, RawTypeOK, RawRest

\* ... and leaves its place in the table as it was.
LEMMA SilentStep ==
  ASSUME RawIInv, NEW g \in Gens, NEW q, cl' = [cl EXCEPT ![g] = q], SoundClient(q),
         Later(cl[g], q), Tended(cl[g]) => Tended(q), Released(cl[g]) => Released(q),
         tab' = tab, stop' = stop, lp' = lp, RawRest'
  PROVE  RawIInv'
  <1>1. g # 0
    BY DEF Gens
  <1>2. tab' = g /\ ~(closed') => Tended(q)
    BY <1>1 DEF RawIInv, ClientsFit, closed
  <1>3. tab' # g => Released(q)
    BY DEF RawIInv, ClientsFit
  <1>4. ~(closed') => ~closed
    BY DEF closed
  <1> QED
    BY <1>2, <1>3, <1>4, OtherStep

\* The Listen loop replaces the client it works for.
LEMMA LoopStep ==
  ASSUME RawIInv, NEW g \in Gens, NEW q, cl' = [cl EXCEPT ![g] = q], SoundClient(q),
         Tended(cl[g]) => Tended(q), Released(cl[g]) => Released(q),
         tab' = tab, stop' = stop, RawRest',
         lp'.pc \in Busy => lp'.g = g /\ LoopFits(lp', q),
         lp'.pc \notin {"dial", "open"}
  PROVE  RawIInv'
  <1>1. g # 0
    BY DEF Gens
  <1>2. tab' = g /\ ~(closed') => Tended(q)
    BY <1>1 DEF RawIInv, ClientsFit, closed
  <1>3. tab' # g => Released(q)
    BY DEF RawIInv, ClientsFit
  <1>4. ~(closed') => ~closed
    BY DEF closed
  <1>5. ClientsFit' /\ cl' \in [Gens -> RawClients]
    BY <1>2, <1>3, <1>4, ClientReplaced
  <1>6. cl'[g] = q
    BY DEF RawIInv, RawTypeOK
  <1>7. LoopFit'
    BY <1>6 DEF LoopFit
  <1> QED
    BY <1>5, <1>7 DEF RawIInv, RawTypeOK, RawRest

\* What holds before every step.
LEMMA RawBefore ==
  ASSUME RawIInv
  PROVE  /\ RawRest /\ ClientsFit /\ LoopFit /\ cl \in [Gens -> RawClients]
         /\ \A g \in Gens : cl[g] \in RawClients /\ SoundClient(cl[g])
         /\ tab # 0 => tab \in Gens
  BY DEF RawIInv, RawTypeOK, RawRest, ClientsFit, Gens

-----------------------------------------------------------------------------
(* Removal.                                                                *)

LEMMA ClosedSound ==
  ASSUME NEW p, NEW q \in RawClients, SoundClient(p), SameBytes(p, q),
         q.login = p.login, q.split = {}, q.lost = p.lost, q.sent = p.sent,
         q.denied = p.denied, q.kicked = p.kicked, q.sock = "closed"
  PROVE  SoundClient(q) /\ Later(p, q) /\ Released(q)
  <1>1. p.up <= q.up
    BY ClientFields DEF SoundClient, SameBytes
  <1>2. {} # Frags
    BY RawConstants
  <1> QED
    BY <1>1, <1>2 DEF SoundClient, Later, Released, SameBytes

LEMMA CreditSound ==
  ASSUME NEW p, NEW q \in RawClients, SoundClient(p), SameLogin(p, q),
         q.sock = p.sock, q.kicked = p.kicked,
         q.up = p.up, q.synced = p.up, q.credit = p.up
  PROVE  SoundClient(q) /\ Later(p, q)
  <1>1. p.up <= q.up
    BY ClientFields DEF SoundClient
  <1> QED
    BY <1>1 DEF SoundClient, Later, SameLogin

\* Whoever wins the removal of the client in the table hands it to its finalizer; the
\* Listen loop, when it is the winner, goes back to its read.
LEMMA RemovalBegins ==
  ASSUME RawIInv, tab # 0, NEW w \in {"L", "K", "F", "C"}, Begin(tab, w),
         stop' = stop, lp' = lp \/ lp' = Reading, RawRest'
  PROVE  RawIInv'
  <1>0. /\ RawRest /\ ClientsFit /\ LoopFit /\ cl \in [Gens -> RawClients]
        /\ cl[tab] \in RawClients /\ SoundClient(cl[tab]) /\ tab \in Gens
    BY RawBefore
  <1>1. PICK g \in Gens : g = tab
    BY <1>0, SMTT(30)
  <1> DEFINE q == [cl[g] EXCEPT !.fin = "close", !.by = w]
  <1>2. /\ q \in RawClients /\ SameBytes(cl[g], q) /\ SameLogin(cl[g], q)
        /\ q.sock = cl[g].sock /\ q.kicked = cl[g].kicked /\ q.fin = "close"
    BY <1>0, <1>1, DoBegin
  <1>3. cl' = [cl EXCEPT ![g] = q] /\ tab' = 0
    BY <1>1 DEF Begin
  <1> HIDE DEF q
  <1>4. SoundClient(q) /\ Later(cl[g], q)
    BY <1>0, <1>1, <1>2, StaysSound
  <1>5. Released(q) /\ g # 0 /\ (~(closed') => ~closed)
    BY <1>2 DEF Released, Gens, closed
  <1>6. CASE lp' = lp
    BY <1>1, <1>3, <1>4, <1>5, <1>6, OtherStep
  <1>7. CASE lp' = Reading
    <2>1. ClientsFit' /\ cl' \in [Gens -> RawClients]
      BY <1>1, <1>3, <1>4, <1>5, ClientReplaced
    <2>2. LoopFit'
      BY <1>7 DEF LoopFit, Reading, Busy
    <2> QED
      BY <2>1, <2>2 DEF RawIInv, RawTypeOK, RawRest
  <1> QED
    BY <1>6, <1>7

LEMMA RemovalSteps ==
  ASSUME RawIInv, NEW g \in Gens, RawCloseClient(g) \/ CreditTail(g) \/ DropSession(g)
  PROVE  RawIInv'
  <1>0. /\ RawRest /\ ClientsFit /\ cl[g] \in RawClients /\ SoundClient(cl[g])
        /\ g # 0 /\ (tab = g /\ ~closed => cl[g].fin = "no")
        /\ (tab # g => Released(cl[g]))
    BY RawBefore DEF ClientsFit, Tended, Gens
  <1>1. stop' = stop /\ tab' = tab /\ lp' = lp /\ (~(closed') => ~closed)
    BY DEF RawCloseClient, CreditTail, DropSession, closed
  <1>2. RawRest'
    BY <1>0 DEF RawRest, RawCloseClient, CreditTail, DropSession
  <1>3. CASE RawCloseClient(g)
    <2> DEFINE q == [cl[g] EXCEPT !.sock = "closed", !.split = {}, !.older = 0, !.newer = 0,
                                  !.age = 0, !.fin = "credit"]
    <2>1. /\ q \in RawClients /\ SameBytes(cl[g], q)
          /\ q.login = cl[g].login /\ q.split = {} /\ q.lost = cl[g].lost
          /\ q.sent = cl[g].sent /\ q.denied = cl[g].denied /\ q.kicked = cl[g].kicked
          /\ q.sock = "closed"
      BY <1>0, DoClose
    <2>2. cl' = [cl EXCEPT ![g] = q]
      BY <1>3 DEF RawCloseClient
    <2> HIDE DEF q
    <2>3. SoundClient(q) /\ Later(cl[g], q) /\ Released(q)
      BY <1>0, <2>1, ClosedSound
    <2>4. ~(tab' = g /\ ~(closed'))
      BY <1>0, <1>1, <1>3 DEF RawCloseClient
    <2> QED
      BY <1>1, <1>2, <2>2, <2>3, <2>4, OtherStep
  <1>4. CASE CreditTail(g)
    <2>1. PICK q \in RawClients : /\ cl' = [cl EXCEPT ![g] = q] /\ q.sock = cl[g].sock
                                  /\ SoundClient(q) /\ Later(cl[g], q)
      <3>1. CASE sess = "none"
        <4> DEFINE q == [cl[g] EXCEPT !.fin = "drop"]
        <4>1. /\ q \in RawClients /\ SameBytes(cl[g], q) /\ SameLogin(cl[g], q)
              /\ q.sock = cl[g].sock /\ q.kicked = cl[g].kicked
          BY <1>0, DoFinOnly
        <4>2. cl' = [cl EXCEPT ![g] = q]
          BY <1>4, <3>1 DEF CreditTail
        <4> HIDE DEF q
        <4> QED
          BY <1>0, <4>1, <4>2, StaysSound
      <3>2. CASE sess # "none"
        <4>0. PICK n \in Nat : n = cl[g].up /\ n = cl[g].credit + (cl[g].up - cl[g].synced)
          BY <1>0, ClientFields DEF SoundClient
        <4> DEFINE q == [cl[g] EXCEPT !.fin = "drop", !.synced = cl[g].up, !.credit = n]
        <4>1. /\ q \in RawClients /\ SameLogin(cl[g], q)
              /\ q.sock = cl[g].sock /\ q.kicked = cl[g].kicked
              /\ q.up = cl[g].up /\ q.synced = cl[g].up /\ q.credit = n
          <5>1. cl[g] \in RawClients /\ n \in Nat
            BY <1>0, <4>0
          <5> QED
            BY <5>1, DoCredit
        <4>2. cl' = [cl EXCEPT ![g] = q]
          BY <1>4, <3>2, <4>0 DEF CreditTail
        <4> HIDE DEF q
        <4> QED
          BY <1>0, <4>0, <4>1, <4>2, CreditSound
      <3> QED
        BY <3>1, <3>2
    <2>2. cl[g].fin = "credit"
      BY <1>4 DEF CreditTail
    <2>3. tab' # g => Released(q)
      BY <1>0, <1>1, <2>1, <2>2 DEF Released
    <2>4. ~(tab' = g /\ ~(closed'))
      BY <1>0, <1>1, <2>2
    <2> QED
      BY <1>1, <1>2, <2>1, <2>3, <2>4, OtherStep
  <1>5. CASE DropSession(g)
    <2> DEFINE q == [cl[g] EXCEPT !.fin = "done", !.by = ""]
    <2>1. /\ q \in RawClients /\ SameBytes(cl[g], q) /\ SameLogin(cl[g], q)
          /\ q.sock = cl[g].sock /\ q.kicked = cl[g].kicked
      BY <1>0, DoFin
    <2>2. cl' = [cl EXCEPT ![g] = q]
      BY <1>5 DEF DropSession
    <2> HIDE DEF q
    <2>3. SoundClient(q) /\ Later(cl[g], q)
      BY <1>0, <2>1, StaysSound
    <2>4. cl[g].fin = "drop"
      BY <1>5 DEF DropSession
    <2>5. tab' # g => Released(q)
      BY <1>0, <1>1, <2>1, <2>4 DEF Released
    <2>6. ~(tab' = g /\ ~(closed'))
      BY <1>0, <1>1, <2>4
    <2> QED
      BY <1>1, <1>2, <2>2, <2>3, <2>5, <2>6, OtherStep
  <1> QED
    BY <1>3, <1>4, <1>5

-----------------------------------------------------------------------------
(* The Listen loop.                                                        *)

LEMMA LoopGoes ==
  ASSUME NEW l \in LoopStates,
         NEW pc \in {"read", "dial", "open", "sess", "sync", "cas", "login", "check",
                     "publish", "write", "off"}
  PROVE  LET m == [l EXCEPT !.pc = pc]
         IN  m \in LoopStates /\ m.pc = pc /\ m.g = l.g /\ m.kind = l.kind
  BY DEF LoopStates

LEMMA LoopDials ==
  ASSUME NEW l \in LoopStates, NEW k \in Kinds
  PROVE  LET m == [l EXCEPT !.pc = "dial", !.kind = k]
         IN  m \in LoopStates /\ m.pc = "dial"
  BY DEF LoopStates

LEMMA LoopReads == Reading \in LoopStates /\ Reading.pc = "read"
  BY RawConstants DEF Reading, LoopStates, Kinds

LEMMA LoopRest ==
  ASSUME RawRest, lp' \in LoopStates, tab' \in 0 .. MaxClients,
         sess' \in {"none", "anon", "named"}, recent' \in BOOLEAN,
         UNCHANGED <<made, kp, api, stop, quota, outside>>,
         got' = got \/ (got < quota.packets /\ got' = got + 1)
  PROVE  RawRest'
  <1>1. got' \in 0 .. quota.packets
    <2>1. quota.packets \in Nat /\ got \in 0 .. quota.packets
      BY RawConstants DEF RawRest
    <2> QED
      BY <2>1
  <1> QED
    BY <1>1 DEF RawRest

\* The loop is where it works for a client.
LEMMA LoopBusy ==
  ASSUME RawIInv, lp.pc \in Busy
  PROVE  /\ lp.g \in Gens /\ LoopFits(lp, cl[lp.g]) /\ lp \in LoopStates
         /\ cl[lp.g] \in RawClients /\ SoundClient(cl[lp.g]) /\ RawRest
  BY RawBefore DEF LoopFit, RawRest

LEMMA DisconnectStep == ASSUME RawIInv, ClientDisconnects PROVE RawIInv'
  <1>1. /\ tab # 0 /\ Begin(tab, "L") /\ lp' = lp /\ stop' = stop /\ tab' = 0
        /\ UNCHANGED <<made, kp, api, stop, sess, recent, quota, outside>>
        /\ got < quota.packets /\ got' = got + 1
    BY DEF ClientDisconnects, Arrive, Begin
  <1>2. RawRest /\ tab' \in 0 .. MaxClients
    BY <1>1, RawBefore, RawConstants
  <1>3. RawRest'
    BY <1>1, <1>2, LoopRest DEF RawRest
  <1> QED
    BY <1>1, <1>3, RemovalBegins

LEMMA KnownStep == ASSUME RawIInv, NEW k \in Kinds, Known(k) PROVE RawIInv'
  <1>0. /\ RawRest /\ ClientsFit /\ LoopFit /\ tab \in Gens
        /\ cl[tab] \in RawClients /\ SoundClient(cl[tab]) /\ tab \in 0 .. MaxClients
    BY RawBefore DEF Known, RawRest
  <1>1. /\ UNCHANGED <<tab, made, kp, api, stop, sess, recent, quota, outside>>
        /\ got < quota.packets /\ got' = got + 1 /\ (~(closed') => ~closed)
    BY DEF Known, Arrive, closed
  <1>2. CASE cl[tab].kicked
    <2>1. cl' = cl /\ lp' = lp
      BY <1>2 DEF Known
    <2>2. RawRest'
      BY <1>0, <1>1, <2>1, LoopRest DEF RawRest
    <2>3. LoopFit'
      BY <1>0, <1>1, <2>1 DEF LoopFit
    <2> QED
      BY <1>1, <2>1, <2>2, <2>3, NoClientStep
  <1>3. CASE ~cl[tab].kicked
    <2>0. PICK g \in Gens : g = tab
      BY <1>0
    <2>1. PICK n \in Nat : n = cl[g].up + 1
      BY <1>0, <2>0, ClientFields
    <2> DEFINE q == [cl[g] EXCEPT !.age = 0, !.up = n]
    <2>2. /\ q \in RawClients /\ SameLogin(cl[g], q) /\ SameLife(cl[g], q)
          /\ q.up = n /\ q.synced = cl[g].synced /\ q.credit = cl[g].credit
      <3>1. cl[g] \in RawClients /\ n \in Nat
        BY <1>0, <2>0, <2>1
      <3> QED
        BY <3>1, DoPacket
    <2>3. cl' = [cl EXCEPT ![g] = q]
      BY <1>3, <2>0, <2>1 DEF Known
    <2> HIDE DEF q
    <2>4. SoundClient(q)
      <3>1. q.credit = q.synced /\ q.synced <= q.up
        BY <1>0, <2>0, <2>1, <2>2, ClientFields DEF SoundClient
      <3> QED
        BY <1>0, <2>0, <2>2, <3>1 DEF SoundClient, SameLogin, SameLife
    <2>5. /\ lp' \in LoopStates /\ lp'.g = g /\ lp'.pc \in {"sess", "sync"}
      <3>0. PICK pc \in {"sess", "sync"} : pc = IF Reliable(k) THEN "sess" ELSE "sync"
        OBVIOUS
      <3>1. lp' = [Reading EXCEPT !.pc = pc, !.g = g, !.kind = k]
        BY <1>3, <2>0, <3>0 DEF Known
      <3>2. Reading \in LoopStates
        BY LoopReads
      <3> DEFINE m == [Reading EXCEPT !.pc = pc, !.g = g, !.kind = k]
      <3>3. m \in LoopStates /\ m.pc = pc /\ m.g = g
        <4>1. pc \in {"sess", "sync"} /\ g \in Gens
          BY <2>0, <3>0
        <4>2. g \in 0 .. MaxClients
          BY <4>1, RawConstants DEF Gens
        <4> QED
          BY <3>2, <4>1, <4>2 DEF LoopStates
      <3> HIDE DEF m
      <3> QED
        BY <3>0, <3>1, <3>3 DEF m
    <2>6. LoopFits(lp', q)
      <3>1. ~q.denied
        BY <1>0, <1>3, <2>0, <2>2 DEF SoundClient, SameLogin
      <3> QED
        BY <2>5, <3>1 DEF LoopFits
    <2>7. RawRest'
      BY <1>0, <1>1, <2>5, LoopRest DEF RawRest
    <2>8. (Tended(cl[g]) => Tended(q)) /\ (Released(cl[g]) => Released(q))
      BY <2>2, StaysPlaced
    <2>9. lp'.pc \notin {"dial", "open"}
      BY <2>5
    <2> QED
      BY <1>1, <2>3, <2>4, <2>5, <2>6, <2>7, <2>8, <2>9, LoopStep
  <1> QED
    BY <1>2, <1>3

\* The steps that only move the loop.
LEMMA LoopMoves ==
  ASSUME RawIInv,
         \/ \E k \in Kinds : Unknown(k)
         \/ SelectTarget \/ SyncRead \/ ListenReturns
  PROVE  RawIInv'
  <1>0. /\ RawRest /\ ClientsFit /\ LoopFit /\ lp \in LoopStates
        /\ lp.pc \in Busy => lp.g \in Gens /\ cl[lp.g] \in RawClients
    BY RawBefore DEF LoopFit, RawRest
  <1>1. /\ UNCHANGED <<tab, made, cl, kp, api, stop, sess, recent, quota, outside>>
        /\ got' = got \/ (got < quota.packets /\ got' = got + 1)
        /\ (~(closed') => ~closed)
    BY DEF Unknown, Arrive, SelectTarget, SyncRead, ListenReturns, closed
  <1>2. lp' \in LoopStates /\ LoopFit'
    <2>1. ASSUME NEW k \in Kinds, Unknown(k) PROVE lp' \in LoopStates /\ LoopFit'
      <3>1. CASE recent
        BY <1>0, <1>1, <2>1, <3>1 DEF Unknown, LoopFit
      <3>2. CASE ~recent
        <4>1. lp' \in LoopStates /\ lp'.pc = "dial" /\ tab = 0
          <5>1. lp' = [Reading EXCEPT !.pc = "dial", !.kind = k] /\ tab = 0
            BY <2>1, <3>2 DEF Unknown
          <5> QED
            BY <5>1, LoopReads, LoopDials
        <4> QED
          BY <1>1, <4>1 DEF LoopFit, Busy
      <3> QED
        BY <3>1, <3>2
    <2>2. CASE SelectTarget
      <3>1. CASE lp' = Reading
        BY <3>1, LoopReads DEF LoopFit, Busy
      <3>2. CASE lp' = [lp EXCEPT !.pc = "open"]
        <4>1. lp' \in LoopStates /\ lp'.pc = "open" /\ tab = 0
          BY <1>0, <2>2, <3>2, LoopGoes DEF SelectTarget, LoopFit
        <4> QED
          BY <1>1, <4>1 DEF LoopFit, Busy
      <3> QED
        BY <2>2, <3>1, <3>2 DEF SelectTarget
    <2>3. CASE SyncRead
      <3>0. lp.g \in Gens /\ LoopFits(lp, cl[lp.g]) /\ cl[lp.g] \in RawClients
            /\ lp.pc = "sync"
        BY <1>0, <2>3 DEF SyncRead, LoopFit, Busy
      <3>1. CASE sess = "none"
        <4>1. lp' \in LoopStates /\ lp'.pc = "login" /\ lp'.g = lp.g
          BY <1>0, <2>3, <3>1, LoopGoes DEF SyncRead
        <4> QED
          BY <1>1, <3>0, <4>1 DEF LoopFit, LoopFits, Busy
      <3>2. CASE sess # "none"
        <4>1. /\ lp' \in LoopStates /\ lp'.pc = "cas" /\ lp'.g = lp.g
              /\ lp'.tot = cl[lp.g].up
          BY <1>0, <2>3, <3>0, <3>2, ClientFields DEF SyncRead, Here, LoopStates
        <4>2. lp'.tot <= cl[lp.g].up
          BY <3>0, <4>1, ClientFields
        <4> QED
          BY <1>1, <3>0, <4>1, <4>2 DEF LoopFit, LoopFits, Busy
      <3> QED
        BY <3>1, <3>2
    <2>4. CASE ListenReturns
      <3>1. lp' \in LoopStates /\ lp'.pc = "off"
        BY <1>0, <2>4, LoopGoes DEF ListenReturns, Goto
      <3> QED
        BY <3>1 DEF LoopFit, Busy
    <2> QED
      BY <2>1, <2>2, <2>3, <2>4
  <1>3. RawRest'
    BY <1>0, <1>1, <1>2, LoopRest DEF RawRest
  <1> QED
    BY <1>1, <1>2, <1>3, NoClientStep

LEMMA OpenStep == ASSUME RawIInv, OpenTarget PROVE RawIInv'
  <1>0. /\ RawRest /\ LoopFit /\ lp \in LoopStates /\ tab = 0 /\ lp.pc = "open"
        /\ tab \in 0 .. MaxClients
    BY RawBefore DEF LoopFit, RawRest, OpenTarget
  <1>1. UNCHANGED <<kp, api, stop, sess, recent, quota, got, outside>>
        /\ (~(closed') => ~closed)
    BY DEF OpenTarget, closed
  <1>2. CASE lp' = Reading /\ UNCHANGED <<tab, made, cl>>
    <2>1. RawRest'
      BY <1>0, <1>1, <1>2, LoopReads, LoopRest DEF RawRest
    <2>2. LoopFit'
      BY <1>2, LoopReads DEF LoopFit, Busy
    <2> QED
      BY <1>1, <1>2, <2>1, <2>2, NoClientStep
  <1>3. CASE /\ made < quota.clients
             /\ made' = made + 1
             /\ tab' = made + 1
             /\ cl' = [cl EXCEPT ![made + 1] = [NewClient EXCEPT !.sock = "open",
                                                               !.fwd = "run", !.up = 1]]
             /\ lp' = [lp EXCEPT !.pc = IF Reliable(lp.kind) THEN "sess" ELSE "sync",
                                 !.g = made + 1]
    <2>0. PICK g \in Gens : g = made + 1
      <3>1. quota.clients \in 1 .. MaxClients /\ made \in 0 .. MaxClients
        BY <1>0, RawConstants DEF RawRest
      <3> QED
        BY <1>3, <3>1, RawConstants DEF Gens
    <2> DEFINE q == [NewClient EXCEPT !.sock = "open", !.fwd = "run", !.up = 1]
    <2>1. /\ q \in RawClients /\ q.sock = "open" /\ q.fwd = "run" /\ q.up = 1
          /\ q.synced = 0 /\ q.credit = 0 /\ ~q.login /\ ~q.denied /\ q.split = {}
          /\ q.sent = {} /\ q.fin = "no" /\ q.kc = "no"
      BY ZeroAge DEF NewClient, RawClients
    <2>2. cl' = [cl EXCEPT ![g] = q]
      BY <1>3, <2>0
    <2> HIDE DEF q
    <2>3. SoundClient(q) /\ Tended(q)
      <3>1. Frags # {}
        BY RawConstants
      <3> QED
        BY <2>1, <3>1 DEF SoundClient, Tended
    <2>4. ClientsFit' /\ cl' \in [Gens -> RawClients]
      BY <1>0, <1>1, <1>3, <2>0, <2>2, <2>3, ClientReplaced
    <2>5. lp' \in LoopStates /\ lp'.g = g /\ lp'.pc \in {"sess", "sync"}
      <3>0. PICK pc \in {"sess", "sync"} : pc = IF Reliable(lp.kind) THEN "sess" ELSE "sync"
        OBVIOUS
      <3>1. lp' = [lp EXCEPT !.pc = pc, !.g = g]
        BY <1>3, <2>0, <3>0
      <3> DEFINE m == [lp EXCEPT !.pc = pc, !.g = g]
      <3>3. m \in LoopStates /\ m.pc = pc /\ m.g = g
        <4>1. lp \in LoopStates /\ pc \in {"sess", "sync"} /\ g \in Gens
          BY <1>0, <2>0, <3>0
        <4>2. g \in 0 .. MaxClients
          BY <4>1, RawConstants DEF Gens
        <4> QED
          BY <4>1, <4>2 DEF LoopStates
      <3> HIDE DEF m
      <3> QED
        BY <3>0, <3>1, <3>3 DEF m
    <2>6. cl'[g] = q
      BY <2>2, RawBefore
    <2>7. LoopFit'
      BY <2>1, <2>5, <2>6 DEF LoopFit, LoopFits
    <2>8. RawRest'
      BY <1>0, <1>1, <1>3, <2>0, <2>5 DEF RawRest, Gens
    <2> QED
      BY <2>4, <2>7, <2>8 DEF RawIInv, RawTypeOK, RawRest
  <1> QED
    BY <1>2, <1>3 DEF OpenTarget

LEMMA SessionStep == ASSUME RawIInv, EnsureSession PROVE RawIInv'
  <1>0. lp.pc = "sess" /\ lp.pc \in Busy
    BY DEF EnsureSession, Busy
  <1>1. PICK g \in Gens : g = lp.g
    BY <1>0, LoopBusy
  <1>2. /\ LoopFits(lp, cl[g]) /\ cl[g] \in RawClients /\ SoundClient(cl[g]) /\ RawRest
        /\ lp \in LoopStates
    BY <1>0, <1>1, LoopBusy
  <1>3. lp' \in LoopStates /\ lp'.pc = "sync" /\ lp'.g = g
    BY <1>0, <1>1, <1>2, LoopGoes DEF EnsureSession, Goto
  <1> DEFINE q == [cl[g] EXCEPT !.made = TRUE]
  <1>4. /\ q \in RawClients /\ SameBytes(cl[g], q) /\ SameLogin(cl[g], q)
        /\ SameLife(cl[g], q)
    BY <1>2, DoMade
  <1>5. cl' = [cl EXCEPT ![g] = q]
    BY <1>1 DEF EnsureSession
  <1> HIDE DEF q
  <1>6. SoundClient(q)
    BY <1>2, <1>4, StaysSound DEF SameLife
  <1>7. (Tended(cl[g]) => Tended(q)) /\ (Released(cl[g]) => Released(q))
    BY <1>4, StaysPlaced
  <1>8. LoopFits(lp', q) /\ lp'.pc \notin {"dial", "open"}
    BY <1>0, <1>2, <1>3, <1>4 DEF LoopFits, SameLogin
  <1>9. UNCHANGED <<tab, made, kp, api, stop, recent, quota, got, outside>>
    BY DEF EnsureSession
  <1>10. RawRest'
    <2>1. sess' \in {"none", "anon", "named"}
      BY <1>2 DEF EnsureSession, RawRest
    <2> QED
      BY <1>2, <1>3, <1>9, <2>1, LoopRest DEF RawRest
  <1> QED
    BY <1>3, <1>5, <1>6, <1>7, <1>8, <1>9, <1>10, LoopStep

LEMMA SyncStep == ASSUME RawIInv, SyncCAS PROVE RawIInv'
  <1>0. lp.pc = "cas" /\ lp.pc \in Busy
    BY DEF SyncCAS, Busy
  <1>1. PICK g \in Gens : g = lp.g
    BY <1>0, LoopBusy
  <1>2. /\ LoopFits(lp, cl[g]) /\ cl[g] \in RawClients /\ SoundClient(cl[g]) /\ RawRest
        /\ lp \in LoopStates
    BY <1>0, <1>1, LoopBusy
  <1>3. lp' \in LoopStates /\ lp'.pc = "login" /\ lp'.g = g
    BY <1>0, <1>1, <1>2, LoopGoes DEF SyncCAS, Goto
  <1>4. UNCHANGED <<tab, made, kp, api, stop, sess, recent, quota, got, outside>>
    BY DEF SyncCAS
  <1>5. RawRest'
    BY <1>2, <1>3, <1>4, LoopRest DEF RawRest
  <1>6. CASE lp.tot > lp.prev /\ cl[g].synced = lp.prev
    <2>1. PICK n \in Nat : n = lp.tot
      BY <1>2 DEF LoopStates
    <2>2. PICK m \in Nat : m = n /\ m = cl[g].credit + (lp.tot - lp.prev)
      BY <1>2, <1>6, <2>1, ClientFields DEF SoundClient, LoopStates
    <2> DEFINE q == [cl[g] EXCEPT !.synced = n, !.credit = m]
    <2>3. /\ q \in RawClients /\ SameLogin(cl[g], q) /\ SameLife(cl[g], q)
          /\ q.up = cl[g].up /\ q.synced = n /\ q.credit = m
      <3>1. cl[g] \in RawClients /\ n \in Nat /\ m \in Nat
        BY <1>2, <2>1, <2>2
      <3> QED
        BY <3>1 DEF RawClients, SameLogin, SameLife
    <2>4. cl' = [cl EXCEPT ![g] = q]
      BY <1>1, <1>6, <2>1, <2>2 DEF SyncCAS, Here
    <2> HIDE DEF q
    <2>5. SoundClient(q)
      <3>1. q.credit = q.synced /\ q.synced <= q.up
        BY <1>0, <1>2, <2>1, <2>2, <2>3 DEF LoopFits
      <3> QED
        BY <1>2, <2>3, <3>1 DEF SoundClient, SameLogin, SameLife
    <2>6. (Tended(cl[g]) => Tended(q)) /\ (Released(cl[g]) => Released(q))
      BY <2>3, StaysPlaced
    <2>7. LoopFits(lp', q) /\ lp'.pc \notin {"dial", "open"}
      BY <1>0, <1>2, <1>3, <2>3 DEF LoopFits, SameLogin
    <2> QED
      BY <1>3, <1>4, <1>5, <2>4, <2>5, <2>6, <2>7, LoopStep
  <1>7. CASE ~(lp.tot > lp.prev /\ cl[g].synced = lp.prev)
    <2>1. cl' = cl
      BY <1>1, <1>7 DEF SyncCAS, Here
    <2>2. LoopFit'
      BY <1>0, <1>2, <1>3, <2>1 DEF LoopFit, LoopFits
    <2>3. ~(closed') => ~closed
      BY <1>4 DEF closed
    <2> QED
      BY <1>4, <1>5, <2>1, <2>2, <2>3, NoClientStep
  <1> QED
    BY <1>6, <1>7

LEMMA ParseStep == ASSUME RawIInv, ParsePacket PROVE RawIInv'
  <1>0. lp.pc = "login" /\ lp.pc \in Busy
    BY DEF ParsePacket, Busy
  <1>1. PICK g \in Gens : g = lp.g
    BY <1>0, LoopBusy
  <1>2. /\ LoopFits(lp, cl[g]) /\ cl[g] \in RawClients /\ SoundClient(cl[g]) /\ RawRest
        /\ lp \in LoopStates
    BY <1>0, <1>1, LoopBusy
  <1>3. lp' \in LoopStates /\ lp'.pc = "write" /\ lp'.g = g /\ lp'.kind = lp.kind
    BY <1>0, <1>1, <1>2, LoopGoes DEF ParsePacket, Goto
  <1>4. UNCHANGED <<tab, made, kp, api, stop, sess, recent, quota, got, outside>>
    BY DEF ParsePacket
  <1>5. RawRest'
    BY <1>2, <1>3, <1>4, LoopRest DEF RawRest
  <1>6. PICK q \in RawClients : cl' = [cl EXCEPT ![g] = q] /\ Parsed(cl[g], q, lp.kind)
    <2>0. ~cl[g].login => cl[g].split # Frags
      BY <1>2 DEF SoundClient
    <2>1. CASE cl[g].login \/ lp.kind \in {"offline", "frame"}
      <3>1. cl' = [cl EXCEPT ![g] = cl[g]]
        BY <1>1, <2>1 DEF ParsePacket, Here
      <3>3. CASE cl[g].login \/ lp.kind \notin Frags
        BY <1>2, <2>0, <3>1, <3>3 DEF Parsed, Alike, SameBytes, SameLife
      <3> QED
        BY <2>1, <3>3, RawConstants
    <2>2. CASE ~cl[g].login /\ lp.kind = "other"
      <3>1. PICK d \in Continued(cl[g]) \cup Begun(cl[g]) : cl' = [cl EXCEPT ![g] = d]
        BY <1>1, <2>2 DEF ParsePacket, Here
      <3>2. Shifts(cl[g], d)
        BY <1>2, <3>1, OtherShifts
      <3>3. {} # Frags /\ lp.kind \notin Frags
        BY <2>2, RawConstants
      <3> QED
        BY <2>0, <3>1, <3>2, <3>3 DEF Shifts, Parsed, Alike
    <2>3. CASE ~cl[g].login /\ lp.kind \in Frags
      <3>0. lp.kind \notin {"offline", "frame", "other"}
        BY <2>3, RawConstants
      <3>1. PICK d \in Kept(cl[g], lp.kind) : cl' = [cl EXCEPT ![g] = d]
        BY <1>1, <2>3, <3>0 DEF ParsePacket, Here
      <3>2. Parsed(cl[g], d, lp.kind)
        BY <1>2, <2>0, <2>3, <3>1, KeptParsed
      <3> QED
        BY <3>1, <3>2 DEF Parsed, Alike
    <2>4. lp.kind \in {"offline", "frame", "other"} \cup Frags
      BY <1>2 DEF LoopStates, Kinds
    <2> QED
      BY <2>1, <2>2, <2>3, <2>4
  <1>7. SoundClient(q)
    BY <1>2, <1>6 DEF SoundClient, Parsed, Alike, SameBytes, SameLife
  <1>8. (Tended(cl[g]) => Tended(q)) /\ (Released(cl[g]) => Released(q))
    BY <1>6, StaysPlaced DEF Parsed, Alike
  <1>9. LoopFits(lp', q) /\ lp'.pc \notin {"dial", "open"}
    BY <1>0, <1>2, <1>3, <1>6 DEF LoopFits, Parsed, Alike
  <1> QED
    BY <1>3, <1>4, <1>5, <1>6, <1>7, <1>8, <1>9, LoopStep

LEMMA RawLoginStep == ASSUME RawIInv, LoginFound PROVE RawIInv'
  <1>0. lp.pc = "login" /\ lp.pc \in Busy
    BY DEF LoginFound, Busy
  <1>1. PICK g \in Gens : g = lp.g
    BY <1>0, LoopBusy
  <1>2. /\ LoopFits(lp, cl[g]) /\ cl[g] \in RawClients /\ SoundClient(cl[g]) /\ RawRest
        /\ lp \in LoopStates
    BY <1>0, <1>1, LoopBusy
  <1>3. lp' \in LoopStates /\ lp'.pc = "check" /\ lp'.g = g
    BY <1>0, <1>1, <1>2, LoopGoes DEF LoginFound, Goto
  <1>5. PICK d \in Made(cl[g]) :
          cl' = [cl EXCEPT ![g] = [BufferGone(d) EXCEPT !.login = TRUE, !.made = TRUE]]
    BY <1>1 DEF LoginFound, Here
  <1> DEFINE q == [BufferGone(d) EXCEPT !.login = TRUE, !.made = TRUE]
  <1>12. cl' = [cl EXCEPT ![g] = q]
    BY <1>5
  <1>4. /\ q \in RawClients /\ SameBytes(cl[g], q) /\ SameLife(cl[g], q) /\ q.split = {}
        /\ q.login /\ (cl[g].lost => q.lost) /\ q.sent = cl[g].sent /\ q.denied = cl[g].denied
    <2>1. Alike(cl[g], d) /\ d \in RawClients /\ (cl[g].lost => d.lost)
      BY <1>2, MadeShifts DEF Shifts, Alike
    <2>2. /\ q \in RawClients /\ SameBytes(d, q) /\ SameLife(d, q) /\ q.split = {} /\ q.login
          /\ q.lost = d.lost /\ q.sent = d.sent /\ q.denied = d.denied
      BY <2>1, DoLogin
    <2> HIDE DEF q
    <2> QED
      BY <2>1, <2>2 DEF Alike, SameBytes, SameLife
  <1> HIDE DEF q
  <1>6. ~cl[g].login
    BY <1>1 DEF LoginFound, Complete, Here
  <1>7. SoundClient(q)
    BY <1>0, <1>2, <1>4, <1>6, RawConstants DEF SoundClient, SameBytes, SameLife, LoopFits
  <1>8. (Tended(cl[g]) => Tended(q)) /\ (Released(cl[g]) => Released(q))
    BY <1>4, StaysPlaced
  <1>9. LoopFits(lp', q) /\ lp'.pc \notin {"dial", "open"}
    BY <1>0, <1>2, <1>3, <1>4, <1>6 DEF LoopFits, SoundClient
  <1>10. UNCHANGED <<tab, made, kp, api, stop, recent, quota, got, outside>> /\ sess' = "named"
    BY DEF LoginFound
  <1>11. RawRest'
    BY <1>2, <1>3, <1>10, LoopRest DEF RawRest
  <1> QED
    BY <1>3, <1>4, <1>7, <1>8, <1>9, <1>10, <1>11, <1>12, LoopStep

LEMMA CheckStep == ASSUME RawIInv, NEW v \in Verdicts, LoginCheck(v) PROVE RawIInv'
  <1>0. lp.pc = "check" /\ lp.pc \in Busy
    BY DEF LoginCheck, Busy
  <1>1. PICK g \in Gens : g = lp.g
    BY <1>0, LoopBusy
  <1>2. /\ LoopFits(lp, cl[g]) /\ cl[g] \in RawClients /\ SoundClient(cl[g]) /\ RawRest
        /\ lp \in LoopStates
    BY <1>0, <1>1, LoopBusy
  <1>3. UNCHANGED <<tab, made, kp, api, stop, sess, recent, quota, got, outside>>
    BY DEF LoginCheck
  <1>4. CASE v = "allowed"
    <2>1. cl' = cl /\ lp' \in LoopStates /\ lp'.pc = "write" /\ lp'.g = g
      <3>1. lp' = [lp EXCEPT !.pc = "write"] /\ cl' = cl
        BY <1>4 DEF LoginCheck, Goto
      <3>2. [lp EXCEPT !.pc = "write"] \in LoopStates
        BY <1>2, LoopGoes
      <3> QED
        BY <1>1, <1>2, <3>1, <3>2 DEF LoopStates
    <2>2. LoopFit'
      BY <1>0, <1>2, <2>1 DEF LoopFit, LoopFits
    <2>3. ~(closed') => ~closed
      BY <1>3 DEF closed
    <2>4. RawRest'
      BY <1>2, <1>3, <2>1, LoopRest DEF RawRest
    <2> QED
      BY <1>3, <2>1, <2>2, <2>3, <2>4, NoClientStep
  <1>5. CASE v # "allowed"
    <2> DEFINE q == [cl[g] EXCEPT !.kicked = TRUE, !.denied = TRUE]
    <2>1. /\ q \in RawClients /\ SameBytes(cl[g], q) /\ q.kicked /\ q.denied
          /\ q.login = cl[g].login /\ q.split = cl[g].split /\ q.lost = cl[g].lost
          /\ q.sent = cl[g].sent /\ q.sock = cl[g].sock /\ q.fin = cl[g].fin
          /\ q.fwd = cl[g].fwd /\ q.kc = cl[g].kc
      BY <1>2, DoRefuse
    <2>2. cl' = [cl EXCEPT ![g] = q]
      BY <1>1, <1>5 DEF LoginCheck
    <2>3. lp' \in LoopStates /\ lp'.pc = "publish" /\ lp'.g = g
      <3>1. lp' = [lp EXCEPT !.pc = "publish"]
        BY <1>5 DEF LoginCheck, Goto
      <3>2. [lp EXCEPT !.pc = "publish"] \in LoopStates
        BY <1>2, LoopGoes
      <3> QED
        BY <1>1, <1>2, <3>1, <3>2 DEF LoopStates
    <2> HIDE DEF q
    <2>4. SoundClient(q)
      BY <1>0, <1>2, <2>1 DEF SoundClient, SameBytes, LoopFits
    <2>5. (Tended(cl[g]) => Tended(q)) /\ (Released(cl[g]) => Released(q))
      BY <2>1 DEF Tended, Released
    <2>6. LoopFits(lp', q) /\ lp'.pc \notin {"dial", "open"}
      BY <2>3 DEF LoopFits
    <2>7. RawRest'
      BY <1>2, <1>3, <2>3, LoopRest DEF RawRest
    <2> QED
      BY <1>3, <2>2, <2>3, <2>4, <2>5, <2>6, <2>7, LoopStep
  <1> QED
    BY <1>4, <1>5

\* scheduleKickCleanup: a client of which the delayed removal is not due yet.
LEMMA Scheduled ==
  ASSUME NEW g \in Gens, Schedule(g), SoundClient(cl[g]), cl[g].kc \in {"no", "due", "done"}
  PROVE  \E q \in RawClients :
           /\ cl' = [cl EXCEPT ![g] = q] /\ SoundClient(q) /\ Later(cl[g], q)
           /\ Tended(cl[g]) => Tended(q)
           /\ Released(cl[g]) => Released(q)
  <1>1. PICK k \in {"no", "due", "done"} : k = IF cl[g].kc = "no" THEN "due" ELSE cl[g].kc
    OBVIOUS
  <1> DEFINE q == [cl[g] EXCEPT !.kc = k]
  <1>2. /\ q \in RawClients /\ SameBytes(cl[g], q) /\ SameLogin(cl[g], q)
        /\ q.kicked = cl[g].kicked /\ q.sock = cl[g].sock /\ q.fin = cl[g].fin
        /\ q.fwd = cl[g].fwd /\ q.kc = k
    <2>1. cl[g] \in RawClients /\ k \in {"no", "due", "done"}
      BY <1>1 DEF SoundClient
    <2> QED
      BY <2>1, DoSchedule
  <1>3. cl' = [cl EXCEPT ![g] = q]
    BY <1>1 DEF Schedule
  <1> HIDE DEF q
  <1>4. SoundClient(q) /\ Later(cl[g], q)
    BY <1>2, StaysSound
  <1>5. (Tended(cl[g]) => Tended(q)) /\ (Released(cl[g]) => Released(q))
    BY <1>1, <1>2 DEF Tended, Released
  <1> QED
    BY <1>2, <1>3, <1>4, <1>5

LEMMA PublishStep == ASSUME RawIInv, PublishKick PROVE RawIInv'
  <1>0. lp.pc = "publish" /\ lp.pc \in Busy
    BY DEF PublishKick, Busy
  <1>1. PICK g \in Gens : g = lp.g
    BY <1>0, LoopBusy
  <1>2. cl[g] \in RawClients /\ SoundClient(cl[g]) /\ RawRest
    BY <1>0, <1>1, LoopBusy
  <1>3. /\ UNCHANGED <<tab, made, kp, api, stop, sess, quota, got, outside>>
        /\ recent' = TRUE /\ lp' = Reading /\ Schedule(g)
    BY <1>1 DEF PublishKick
  <1>4. cl[g].kc \in {"no", "due", "done"}
    BY <1>2 DEF RawClients
  <1>5. PICK q \in RawClients :
          /\ cl' = [cl EXCEPT ![g] = q] /\ SoundClient(q) /\ Later(cl[g], q)
          /\ Tended(cl[g]) => Tended(q)
          /\ Released(cl[g]) => Released(q)
    BY <1>2, <1>3, <1>4, Scheduled
  <1>6. RawRest'
    BY <1>2, <1>3, LoopReads, LoopRest DEF RawRest
  <1>7. lp'.pc \notin Busy /\ lp'.pc \notin {"dial", "open"}
    BY <1>3, LoopReads DEF Busy
  <1> QED
    BY <1>3, <1>5, <1>6, <1>7, LoopStep

LEMMA ForwardStep == ASSUME RawIInv, Forward PROVE RawIInv'
  <1>0. lp.pc = "write" /\ lp.pc \in Busy
    BY DEF Forward, Busy
  <1>1. PICK g \in Gens : g = lp.g
    BY <1>0, LoopBusy
  <1>2. /\ LoopFits(lp, cl[g]) /\ cl[g] \in RawClients /\ SoundClient(cl[g]) /\ RawRest
    BY <1>0, <1>1, LoopBusy
  <1>3. /\ UNCHANGED <<tab, made, kp, api, stop, sess, recent, quota, got, outside>>
        /\ lp' = Reading /\ cl[g].sock = "open"
    BY <1>1 DEF Forward, Here
  <1>4. RawRest'
    BY <1>2, <1>3, LoopReads, LoopRest DEF RawRest
  <1>5. lp'.pc \notin Busy /\ lp'.pc \notin {"dial", "open"}
    BY <1>3, LoopReads DEF Busy
  <1>6. CASE cl' = cl
    <2>1. LoopFit' /\ (~(closed') => ~closed)
      BY <1>3, <1>5 DEF LoopFit, closed
    <2> QED
      BY <1>3, <1>4, <1>6, <2>1, NoClientStep
  <1>7. CASE cl' # cl
    <2>1. PICK x \in SUBSET Frags : x = cl[g].sent \cup ({lp.kind} \cap Frags)
      BY <1>2, ClientFields
    <2> DEFINE q == [cl[g] EXCEPT !.sent = x]
    <2>2. /\ q \in RawClients /\ SameBytes(cl[g], q) /\ SameLife(cl[g], q) /\ q.sent = x
          /\ q.login = cl[g].login /\ q.lost = cl[g].lost /\ q.split = cl[g].split
          /\ q.denied = cl[g].denied
      <3>1. cl[g] \in RawClients /\ x \in SUBSET Frags
        BY <1>2, <2>1
      <3> QED
        BY <3>1, DoSend
    <2>3. cl' = [cl EXCEPT ![g] = q]
      BY <1>1, <1>7, <2>1 DEF Forward, Here
    <2> HIDE DEF q
    <2>4. ~q.denied
      BY <1>0, <1>2, <2>2 DEF LoopFits
    <2>5. ASSUME ~q.login, ~q.lost PROVE q.sent \subseteq q.split /\ ~(Frags \subseteq q.sent)
      <3>1. cl[g].sent \subseteq cl[g].split /\ cl[g].split # Frags
        BY <1>2, <1>3, <2>2, <2>5 DEF SoundClient
      <3>2. lp.kind \in Frags => lp.kind \in cl[g].split
        BY <1>0, <1>2, <1>3, <2>2, <2>5 DEF LoopFits
      <3>3. cl[g].split \subseteq Frags
        BY <1>2, ClientFields
      <3> QED
        BY <2>1, <2>2, <3>1, <3>2, <3>3
    <2>6. SoundClient(q)
      BY <1>2, <2>2, <2>4, <2>5 DEF SoundClient, SameBytes, SameLife
    <2>7. (Tended(cl[g]) => Tended(q)) /\ (Released(cl[g]) => Released(q))
      BY <2>2, StaysPlaced
    <2> QED
      BY <1>3, <1>4, <1>5, <2>3, <2>6, <2>7, LoopStep
  <1> QED
    BY <1>6, <1>7

LEMMA ForwardFailsStep == ASSUME RawIInv, RawForwardFails PROVE RawIInv'
  <1>0. /\ UNCHANGED <<made, kp, api, stop, sess, recent, quota, got, outside>>
        /\ lp' = Reading /\ RawRest /\ (tab # 0 => tab \in Gens)
    BY RawBefore DEF RawForwardFails
  <1>1. tab' \in 0 .. MaxClients
    BY <1>0, RawConstants DEF RawForwardFails, Begin, RawRest
  <1>2. RawRest'
    BY <1>0, <1>1, LoopReads, LoopRest DEF RawRest
  <1>3. CASE tab = 0
    <2>1. cl' = cl /\ tab' = tab
      BY <1>3 DEF RawForwardFails
    <2>2. LoopFit' /\ (~(closed') => ~closed)
      BY <1>0, LoopReads DEF LoopFit, Busy, closed
    <2> QED
      BY <1>2, <2>1, <2>2, NoClientStep
  <1>4. CASE tab # 0
    BY <1>0, <1>2, <1>4, RemovalBegins DEF RawForwardFails
  <1> QED
    BY <1>3, <1>4

-----------------------------------------------------------------------------
(* The forwarders, the delayed removal, the ticker, KickPlayer and Stop.   *)

\* Time, and what it and the target do to lastSeen.
LEMMA AgeStep ==
  ASSUME RawIInv, NEW g \in Gens,
         Response(g) \/ (tab = g /\ Quiet)
  PROVE  RawIInv'
  <1>0. RawRest /\ cl[g] \in RawClients /\ SoundClient(cl[g])
    BY RawBefore
  <1>1. UNCHANGED <<tab, made, lp, kp, api, stop, sess, recent, quota, got, outside>>
    BY DEF Response, Quiet
  <1>2. PICK a \in 0 .. Silence : cl' = [cl EXCEPT ![g] = [cl[g] EXCEPT !.age = a]]
    <2>1. CASE Response(g)
      BY <2>1, ZeroAge DEF Response
    <2>2. CASE tab = g /\ Quiet
      <3>1. cl[g].age \in 0 .. Silence
        BY <1>0 DEF RawClients
      <3>2. cl[g].age + 1 \in 0 .. Silence
        BY <2>2, <3>1, RawConstants DEF Quiet
      <3> QED
        BY <2>2, <3>2 DEF Quiet
    <2> QED
      BY <2>1, <2>2
  <1> DEFINE q == [cl[g] EXCEPT !.age = a]
  <1>3. /\ q \in RawClients /\ SameBytes(cl[g], q) /\ SameLogin(cl[g], q)
        /\ SameLife(cl[g], q)
    <2>1. cl[g] \in RawClients /\ a \in 0 .. Silence
      BY <1>0, <1>2
    <2> QED
      BY <2>1 DEF RawClients, SameBytes, SameLogin, SameLife
  <1>4. cl' = [cl EXCEPT ![g] = q]
    BY <1>2
  <1> HIDE DEF q
  <1>5. SoundClient(q) /\ Later(cl[g], q)
    BY <1>0, <1>3, StaysSound DEF SameLife
  <1>6. (Tended(cl[g]) => Tended(q)) /\ (Released(cl[g]) => Released(q))
    BY <1>3, StaysPlaced
  <1>7. RawRest'
    BY <1>0, <1>1 DEF RawRest
  <1> QED
    BY <1>1, <1>4, <1>5, <1>6, <1>7, SilentStep

LEMMA EndStep == ASSUME RawIInv, NEW g \in Gens, ResponsesEnd(g) PROVE RawIInv'
  <1>0. RawRest /\ cl[g] \in RawClients /\ SoundClient(cl[g]) /\ cl[g].fwd = "run"
    BY RawBefore DEF ResponsesEnd
  <1>1. UNCHANGED <<tab, made, lp, kp, api, stop, sess, recent, quota, got, outside>>
    BY DEF ResponsesEnd
  <1> DEFINE q == [cl[g] EXCEPT !.fwd = "exit"]
  <1>3. /\ q \in RawClients /\ SameBytes(cl[g], q) /\ SameLogin(cl[g], q)
        /\ q.kicked = cl[g].kicked /\ q.sock = cl[g].sock /\ q.fin = cl[g].fin
        /\ q.fwd = "exit" /\ q.kc = cl[g].kc
    BY <1>0, DoLeave
  <1>4. cl' = [cl EXCEPT ![g] = q]
    BY DEF ResponsesEnd
  <1> HIDE DEF q
  <1>5. SoundClient(q) /\ Later(cl[g], q)
    BY <1>0, <1>3, StaysSound
  <1>6. (Tended(cl[g]) => Tended(q)) /\ (Released(cl[g]) => Released(q))
    BY <1>3 DEF Tended, Released
  <1>7. RawRest'
    BY <1>0, <1>1 DEF RawRest
  <1> QED
    BY <1>1, <1>4, <1>5, <1>6, <1>7, SilentStep

\* The deferred call of a forwarder.  A kicked client stays in the table and its delayed
\* removal becomes due, unless it is, or was: then the client is not in the table.
LEMMA ExitStep == ASSUME RawIInv, NEW g \in Gens, ForwarderExit(g) PROVE RawIInv'
  <1>0. /\ RawRest /\ cl[g] \in RawClients /\ SoundClient(cl[g]) /\ g # 0
        /\ tab = g /\ ~closed => Tended(cl[g])
        /\ tab # g => Released(cl[g])
    BY RawBefore DEF ClientsFit, Gens
  <1>1. UNCHANGED <<made, lp, kp, api, stop, sess, recent, quota, got, outside>>
        /\ (closed' = closed)
    BY DEF ForwarderExit, closed
  <1> DEFINE wins == ~cl[g].kicked /\ tab = g
  <1>2. tab' = IF wins THEN 0 ELSE tab
    BY DEF ForwarderExit
  <1>3. PICK k \in {"no", "due", "done"} :
           k = IF cl[g].kicked /\ cl[g].kc = "no" THEN "due" ELSE cl[g].kc
    BY <1>0 DEF RawClients
  <1>4. PICK f \in {"no", "close", "credit", "drop", "done"} :
           f = IF wins THEN "close" ELSE cl[g].fin
    BY <1>0 DEF RawClients
  <1>5. PICK w \in {"", "L", "K", "F", "C"} : w = IF wins THEN "F" ELSE cl[g].by
    BY <1>0 DEF RawClients
  <1> DEFINE q == [cl[g] EXCEPT !.fwd = "done", !.kc = k, !.fin = f, !.by = w]
  <1>6. /\ q \in RawClients /\ SameBytes(cl[g], q) /\ SameLogin(cl[g], q)
        /\ q.kicked = cl[g].kicked /\ q.sock = cl[g].sock /\ q.fin = f
        /\ q.kc = k
    <2>1. /\ cl[g] \in RawClients /\ k \in {"no", "due", "done"}
          /\ f \in {"no", "close", "credit", "drop", "done"}
          /\ w \in {"", "L", "K", "F", "C"}
      BY <1>0, <1>3, <1>4, <1>5
    <2> QED
      BY <2>1, ZenonT(60) DEF RawClients, SameBytes, SameLogin
  <1>7. cl' = [cl EXCEPT ![g] = q]
    BY <1>3, <1>4, <1>5 DEF ForwarderExit
  <1> HIDE DEF q
  <1>8. SoundClient(q) /\ Later(cl[g], q)
    BY <1>0, <1>6, StaysSound
  <1>9. tab' = g /\ ~(closed') => Tended(q)
    BY <1>0, <1>1, <1>2, <1>3, <1>4, <1>6, ClientFields DEF Tended
  <1>10. tab' # g => Released(q)
    BY <1>0, <1>2, <1>4, <1>6 DEF Released
  <1>11. RawRest'
    <2>1. tab' \in 0 .. MaxClients
      <3>1. tab \in 0 .. MaxClients
        BY <1>0 DEF RawRest
      <3> QED
        BY <1>2, <3>1, ZeroTab
    <2> QED
      BY <1>0, <1>1, <2>1 DEF RawRest
  <1>12. tab' = tab \/ (tab = g /\ tab' = 0)
    BY <1>2
  <1> QED
    BY <1>1, <1>7, <1>8, <1>9, <1>10, <1>11, <1>12, OtherStep

LEMMA CleanupStep == ASSUME RawIInv, NEW g \in Gens, KickCleanup(g) PROVE RawIInv'
  <1>0. /\ RawRest /\ cl[g] \in RawClients /\ SoundClient(cl[g]) /\ g # 0
        /\ tab # g => Released(cl[g])
    BY RawBefore DEF ClientsFit, Gens
  <1>1. UNCHANGED <<made, lp, kp, api, stop, sess, recent, quota, got, outside>>
        /\ (closed' = closed)
    BY DEF KickCleanup, closed
  <1> DEFINE wins == ~closed /\ tab = g
  <1>2. tab' = IF wins THEN 0 ELSE tab
    BY DEF KickCleanup
  <1>4. PICK f \in {"no", "close", "credit", "drop", "done"} :
           f = IF wins THEN "close" ELSE cl[g].fin
    BY <1>0 DEF RawClients
  <1>5. PICK w \in {"", "L", "K", "F", "C"} : w = IF wins THEN "C" ELSE cl[g].by
    BY <1>0 DEF RawClients
  <1> DEFINE q == [cl[g] EXCEPT !.kc = "done", !.fin = f, !.by = w]
  <1>6. /\ q \in RawClients /\ SameBytes(cl[g], q) /\ SameLogin(cl[g], q)
        /\ q.kicked = cl[g].kicked /\ q.sock = cl[g].sock /\ q.fin = f
    <2>1. /\ cl[g] \in RawClients
          /\ f \in {"no", "close", "credit", "drop", "done"}
          /\ w \in {"", "L", "K", "F", "C"}
      BY <1>0, <1>4, <1>5
    <2> QED
      BY <2>1, ZenonT(60) DEF RawClients, SameBytes, SameLogin
  <1>7. cl' = [cl EXCEPT ![g] = q]
    BY <1>4, <1>5 DEF KickCleanup
  <1> HIDE DEF q
  <1>8. SoundClient(q) /\ Later(cl[g], q)
    BY <1>0, <1>6, StaysSound
  <1>9. ~(tab' = g /\ ~(closed'))
    BY <1>0, <1>1, <1>2
  <1>10. tab' # g => Released(q)
    BY <1>0, <1>2, <1>4, <1>6 DEF Released
  <1>11. RawRest'
    <2>1. tab' \in 0 .. MaxClients
      <3>1. tab \in 0 .. MaxClients
        BY <1>0 DEF RawRest
      <3> QED
        BY <1>2, <3>1, ZeroTab
    <2> QED
      BY <1>0, <1>1, <2>1 DEF RawRest
  <1>12. tab' = tab \/ (tab = g /\ tab' = 0)
    BY <1>2
  <1> QED
    BY <1>1, <1>7, <1>8, <1>9, <1>10, <1>11, <1>12, OtherStep

\* The steps that replace no client and do not move the loop.
LEMMA IdleSteps ==
  ASSUME RawIInv,
         \/ UNCHANGED rawVars
         \/ Scan \/ TickerReturns \/ SessionRemoved \/ CooldownEnds
         \/ RawStopBegins \/ StopDrops \/ StopReturnsRaw
  PROVE  RawIInv'
  <1>0. RawRest /\ LoopFit /\ (tab # 0 => tab \in Gens)
        /\ quota.outside \in Nat /\ outside \in 0 .. quota.outside
    BY RawBefore, RawConstants DEF RawRest
  <1>1. UNCHANGED <<tab, made, cl, lp, api, quota, got>>
    BY DEF rawVars, Scan, TickerReturns, SessionRemoved, CooldownEnds, RawStopBegins,
       StopDrops, StopReturnsRaw
  <1>2. ~(closed') => ~closed
    BY DEF rawVars, Scan, TickerReturns, SessionRemoved, CooldownEnds, RawStopBegins,
       StopDrops, StopReturnsRaw, closed
  <1>3. /\ kp' \in [pc : {"wait", "remove", "keep", "off"}, g : 0 .. MaxClients]
        /\ kp'.pc = "keep" => kp'.g \in Gens
    <2>1. CASE Scan
      <3>1. PICK x \in {"remove", "keep"}, h \in Gens : kp' = [pc |-> x, g |-> h]
        BY <1>0, <2>1 DEF Scan
      <3>2. h \in 0 .. MaxClients
        BY <3>1, RawConstants DEF Gens
      <3> QED
        BY <3>1, <3>2
    <2>2. CASE TickerReturns
      BY <1>0, <2>2 DEF TickerReturns, RawRest
    <2>3. CASE kp' = kp
      BY <1>0, <2>3 DEF RawRest
    <2> QED
      BY <2>1, <2>2, <2>3 DEF rawVars, SessionRemoved, CooldownEnds, RawStopBegins,
         StopDrops, StopReturnsRaw
  <1>4. /\ stop' \in {"no", "range", "drop", "wait", "done"}
        /\ sess' \in {"none", "anon", "named"} /\ recent' \in BOOLEAN
    BY <1>0 DEF RawRest, rawVars, Scan, TickerReturns, SessionRemoved, CooldownEnds,
       RawStopBegins, StopDrops, StopReturnsRaw
  <1>5. outside' \in 0 .. quota.outside
    BY <1>0 DEF rawVars, Scan, TickerReturns, SessionRemoved, CooldownEnds, RawStopBegins,
       StopDrops, StopReturnsRaw
  <1>6. RawRest'
    BY <1>0, <1>1, <1>3, <1>4, <1>5 DEF RawRest
  <1>7. LoopFit'
    BY <1>0, <1>1 DEF LoopFit
  <1> QED
    BY <1>1, <1>2, <1>6, <1>7, NoClientStep

LEMMA ReapStep == ASSUME RawIInv, Reap PROVE RawIInv'
  <1>0. /\ UNCHANGED <<made, lp, api, stop, sess, recent, quota, got, outside>>
        /\ kp' = Waiting /\ RawRest /\ LoopFit
    BY RawBefore DEF Reap
  <1>1. /\ kp' \in [pc : {"wait", "remove", "keep", "off"}, g : 0 .. MaxClients]
        /\ kp'.pc # "keep"
    BY <1>0, RawConstants DEF Waiting
  <1>2. tab' \in 0 .. MaxClients
    BY <1>0, RawConstants DEF Reap, Begin, RawRest
  <1>3. RawRest'
    BY <1>0, <1>1, <1>2 DEF RawRest
  <1>4. CASE tab = 0
    <2>1. cl' = cl /\ tab' = tab
      BY <1>4 DEF Reap
    <2>2. LoopFit' /\ (~(closed') => ~closed)
      BY <1>0, <2>1 DEF LoopFit, closed
    <2> QED
      BY <1>3, <2>1, <2>2, NoClientStep
  <1>5. CASE tab # 0
    BY <1>0, <1>3, <1>5, RemovalBegins DEF Reap
  <1> QED
    BY <1>4, <1>5

LEMMA KeepStep == ASSUME RawIInv, KeepAlive PROVE RawIInv'
  <1>1. PICK g \in Gens : g = kp.g
    BY RawBefore DEF KeepAlive, RawRest
  <1>0. RawRest /\ cl[g] \in RawClients /\ SoundClient(cl[g])
    BY <1>1, RawBefore
  <1>2. /\ UNCHANGED <<tab, made, lp, api, stop, recent, quota, got, outside>>
        /\ kp' = Waiting /\ sess' \in {"none", "anon", "named"}
    BY <1>0 DEF KeepAlive, RawRest
  <1>3. PICK n \in 0 .. Buffers(cl[g]) :
          cl' = [cl EXCEPT ![g] =
                   [Dropped(cl[g], n) EXCEPT !.made = cl[g].made \/ (cl[g].login /\ sess = "none")]]
    BY <1>1 DEF KeepAlive
  <1>4. PICK d \in RawClients : d = Dropped(cl[g], n) /\ Shifts(cl[g], d)
    BY <1>0, DroppedShifts DEF Shifts, Alike
  <1>6. PICK m \in BOOLEAN : m = (cl[g].made \/ (cl[g].login /\ sess = "none"))
    OBVIOUS
  <1> DEFINE q == [d EXCEPT !.made = m]
  <1>5. /\ q \in RawClients /\ SameBytes(d, q) /\ SameLife(d, q)
        /\ q.login = d.login /\ q.split = d.split /\ q.lost = d.lost /\ q.sent = d.sent
        /\ q.denied = d.denied
    BY <1>4, <1>6 DEF RawClients, SameBytes, SameLife
  <1>8. cl' = [cl EXCEPT ![g] = q]
    BY <1>3, <1>4, <1>6
  <1> HIDE DEF q
  <1>7. /\ q \in RawClients /\ SameBytes(cl[g], q) /\ SameLife(cl[g], q)
        /\ q.login = cl[g].login /\ q.sent = cl[g].sent /\ q.denied = cl[g].denied
    BY <1>4, <1>5 DEF Shifts, Alike, SameBytes, SameLife
  <1>9. /\ ~q.lost => ~cl[g].lost /\ q.split = cl[g].split
        /\ q.split \subseteq cl[g].split
    BY <1>4, <1>5 DEF Shifts
  <1>10. SoundClient(q)
    <2>1. ~q.login => q.split # Frags
      <3>1. cl[g].split \subseteq Frags /\ q.split \subseteq cl[g].split
        BY <1>0, <1>9, ClientFields
      <3>2. ~cl[g].login => cl[g].split # Frags
        BY <1>0 DEF SoundClient
      <3> QED
        BY <1>7, <3>1, <3>2
    <2> QED
      BY <1>0, <1>7, <1>9, <2>1 DEF SoundClient, SameBytes, SameLife
  <1>11. Later(cl[g], q)
    <2>1. cl[g].up <= q.up
      BY <1>0, <1>7, ClientFields DEF SameBytes
    <2> QED
      BY <1>7, <1>9, <2>1 DEF Later, SameLife
  <1>12. (Tended(cl[g]) => Tended(q)) /\ (Released(cl[g]) => Released(q))
    BY <1>7, StaysPlaced
  <1>13. RawRest'
    <2>1. /\ kp' \in [pc : {"wait", "remove", "keep", "off"}, g : 0 .. MaxClients]
          /\ kp'.pc # "keep"
      BY <1>2, RawConstants DEF Waiting
    <2> QED
      BY <1>0, <1>2, <2>1 DEF RawRest
  <1> QED
    BY <1>2, <1>8, <1>10, <1>11, <1>12, <1>13, SilentStep

LEMMA KickStep == ASSUME RawIInv, KickPlayer PROVE RawIInv'
  <1>1. PICK g \in Gens : g = tab
    BY RawBefore DEF KickPlayer
  <1>0. /\ RawRest /\ cl[g] \in RawClients /\ SoundClient(cl[g])
        /\ quota.outside \in Nat /\ outside \in 0 .. quota.outside
    BY <1>1, RawBefore, RawConstants DEF RawRest
  <1>2. /\ UNCHANGED <<tab, made, lp, kp, stop, sess, recent, quota, got>>
        /\ api' = g /\ outside' \in 0 .. quota.outside
    BY <1>0, <1>1 DEF KickPlayer
  <1> DEFINE q == [cl[g] EXCEPT !.kicked = TRUE]
  <1>3. /\ q \in RawClients /\ SameBytes(cl[g], q) /\ SameLogin(cl[g], q) /\ q.kicked
        /\ q.sock = cl[g].sock /\ q.fin = cl[g].fin /\ q.fwd = cl[g].fwd
        /\ q.kc = cl[g].kc
    BY <1>0, DoKick
  <1>4. cl' = [cl EXCEPT ![g] = q]
    BY <1>1 DEF KickPlayer
  <1> HIDE DEF q
  <1>5. SoundClient(q) /\ Later(cl[g], q)
    BY <1>0, <1>3, StaysSound
  <1>6. (Tended(cl[g]) => Tended(q)) /\ (Released(cl[g]) => Released(q))
    BY <1>3 DEF Tended, Released
  <1>7. RawRest'
    <2>1. api' \in 0 .. MaxClients
      BY <1>0, <1>1, <1>2 DEF RawRest
    <2> QED
      BY <1>0, <1>2, <2>1 DEF RawRest
  <1> QED
    BY <1>2, <1>4, <1>5, <1>6, <1>7, SilentStep

LEMMA KickRestStep == ASSUME RawIInv, KickPlayerRest PROVE RawIInv'
  <1>1. PICK g \in Gens : g = api
    BY RawBefore, RawConstants DEF KickPlayerRest, RawRest, Gens
  <1>2. cl[g] \in RawClients /\ SoundClient(cl[g]) /\ RawRest
    BY RawBefore, <1>1
  <1>3. /\ UNCHANGED <<tab, made, lp, kp, stop, sess, quota, got, outside>>
        /\ api' = 0 /\ recent' = TRUE /\ Schedule(g)
    BY <1>1 DEF KickPlayerRest
  <1>4. cl[g].kc \in {"no", "due", "done"}
    BY <1>2 DEF RawClients
  <1>5. PICK q \in RawClients :
          /\ cl' = [cl EXCEPT ![g] = q] /\ SoundClient(q) /\ Later(cl[g], q)
          /\ Tended(cl[g]) => Tended(q)
          /\ Released(cl[g]) => Released(q)
    BY <1>2, <1>3, <1>4, <1>1, Scheduled
  <1>6. RawRest'
    BY <1>2, <1>3, RawConstants DEF RawRest
  <1> QED
    BY <1>3, <1>5, <1>6, SilentStep

LEMMA StopStep == ASSUME RawIInv, RawStopCloses PROVE RawIInv'
  <1>0. /\ RawRest /\ LoopFit /\ stop = "range" /\ closed'
        /\ UNCHANGED <<tab, made, lp, kp, api, sess, recent, quota, got, outside>>
        /\ stop' \in {"wait", "drop"}
    BY RawBefore DEF RawStopCloses, closed
  <1>1. RawRest'
    BY <1>0 DEF RawRest
  <1>2. CASE tab = 0
    <2>1. cl' = cl /\ LoopFit'
      BY <1>0, <1>2 DEF RawStopCloses, LoopFit
    <2> QED
      BY <1>0, <1>1, <2>1, NoClientStep
  <1>3. CASE tab # 0
    <2>1. PICK g \in Gens : g = tab
      BY <1>3, RawBefore
    <2>2. cl[g] \in RawClients /\ SoundClient(cl[g])
      BY <2>1, RawBefore
    <2> DEFINE q == [cl[g] EXCEPT !.sock = "closed", !.split = {}, !.older = 0, !.newer = 0]
    <2>3. /\ q \in RawClients /\ SameBytes(cl[g], q)
          /\ q.login = cl[g].login /\ q.split = {} /\ q.lost = cl[g].lost
          /\ q.sent = cl[g].sent /\ q.denied = cl[g].denied /\ q.kicked = cl[g].kicked
          /\ q.sock = "closed"
      BY <2>2, DoStop
    <2>4. cl' = [cl EXCEPT ![g] = q]
      BY <1>3, <2>1 DEF RawStopCloses
    <2> HIDE DEF q
    <2>5. SoundClient(q) /\ Later(cl[g], q) /\ Released(q)
      BY <2>2, <2>3, ClosedSound
    <2> QED
      BY <1>0, <1>1, <2>4, <2>5, OtherStep
  <1> QED
    BY <1>2, <1>3

-----------------------------------------------------------------------------
LEMMA RawStep == ASSUME RawIInv, [RawNext]_rawVars PROVE RawIInv'
  <1>1. CASE Loop
    BY <1>1, LoopMoves, OpenStep, SessionStep, SyncStep, ParseStep, RawLoginStep, CheckStep,
       PublishStep, ForwardStep, ForwardFailsStep DEF Loop
  <1>2. ASSUME NEW g \in Gens, Client(g) \/ Response(g) \/ ResponsesEnd(g)
        PROVE  RawIInv'
    BY <1>2, RemovalSteps, ExitStep, CleanupStep, AgeStep, EndStep DEF Client
  <1>3. CASE Ticker \/ Stopping \/ RawStopBegins \/ SessionRemoved \/ CooldownEnds
    BY <1>3, IdleSteps, ReapStep, KeepStep, StopStep DEF Ticker, Stopping
  <1>4. CASE Quiet
    <2>1. tab \in Gens
      BY <1>4, RawBefore DEF Quiet
    <2> QED
      BY <1>4, <2>1, AgeStep
  <1>5. CASE KickPlayer \/ KickPlayerRest \/ ClientDisconnects
    BY <1>5, KickStep, KickRestStep, DisconnectStep
  <1>6. ASSUME NEW k \in Kinds, Known(k) \/ Unknown(k) PROVE RawIInv'
    BY <1>6, KnownStep, LoopMoves
  <1>7. CASE UNCHANGED rawVars
    BY <1>7, IdleSteps
  <1> QED
    BY <1>1, <1>2, <1>3, <1>4, <1>5, <1>6, <1>7 DEF RawNext

LEMMA RawStart == ASSUME RawInit PROVE RawIInv
  <1>1. /\ NewClient \in RawClients /\ NewClient.sock = "none"
        /\ NewClient.credit = NewClient.synced /\ NewClient.synced <= NewClient.up
        /\ ~NewClient.login /\ ~NewClient.denied
        /\ NewClient.split = {} /\ NewClient.sent = {}
    BY ZeroAge DEF NewClient, RawClients
  <1>2. SoundClient(NewClient) /\ Released(NewClient)
    <2>1. Frags # {}
      BY RawConstants
    <2> QED
      BY <1>1, <2>1 DEF SoundClient, Released
  <1>3. \A g \in Gens : cl[g] = NewClient
    BY DEF RawInit
  <1>4. ClientsFit
    BY <1>2, <1>3 DEF ClientsFit, RawInit
  <1>5. cl \in [Gens -> RawClients]
    BY <1>1 DEF RawInit
  <1>6. LoopFit
    BY LoopReads DEF LoopFit, RawInit, Busy
  <1>7. RawRest
    <2>1. quota \in Loads /\ quota.packets \in Nat /\ quota.outside \in Nat
      BY RawConstants DEF RawInit
    <2>2. /\ Waiting \in [pc : {"wait", "remove", "keep", "off"}, g : 0 .. MaxClients]
          /\ Waiting.pc # "keep" /\ 0 \in 0 .. MaxClients
      BY RawConstants DEF Waiting
    <2>3. /\ lp \in LoopStates /\ got \in 0 .. quota.packets /\ outside \in 0 .. quota.outside
          /\ kp \in [pc : {"wait", "remove", "keep", "off"}, g : 0 .. MaxClients]
          /\ kp.pc # "keep"
      <3>1. lp = Reading /\ got = 0 /\ outside = 0 /\ kp = Waiting
        BY DEF RawInit
      <3>2. 0 \in 0 .. quota.packets /\ 0 \in 0 .. quota.outside
        BY <2>1
      <3> QED
        BY <2>2, <3>1, <3>2, LoopReads
    <2> QED
      BY <2>1, <2>2, <2>3 DEF RawRest, RawInit
  <1> QED
    BY <1>4, <1>5, <1>6, <1>7 DEF RawIInv, RawTypeOK, RawRest

\* The invariant holds throughout: each goroutine's step keeps what the others rely on.
THEOREM RawInductive == RawSpec => []RawIInv
  <1>1. RawIInv /\ [RawNext]_rawVars => RawIInv'
    BY RawStep
  <1> QED
    BY <1>1, RawStart, PTL DEF RawSpec

\* The client table of the raw UDP proxy, however many clients come and go, and whoever
\* removes them: the client in the table has an open socket and somebody who will take
\* it out, no open socket is lost, and no byte is credited twice (getOrCreateClient,
\* finalizeClientRemoval, syncBytesUpToSession).
THEOREM ClientsAttended == RawSpec => []RawInv
  <1>1. ASSUME RawIInv PROVE RawInv
    <2>1. Attended
      <3> SUFFICES ASSUME NEW g \in Gens
                   PROVE  /\ tab = g /\ ~closed =>
                               /\ cl[g].sock = "open"
                               /\ cl[g].fin = "no"
                               /\ \/ cl[g].fwd \in {"run", "exit"}
                                  \/ cl[g].kicked /\ cl[g].kc = "due"
                          /\ cl[g].sock = "open" => tab = g \/ cl[g].fin = "close"
        BY DEF Attended
      <3>1. g # 0
        BY DEF Gens
      <3> QED
        BY <1>1, <3>1 DEF RawIInv, ClientsFit, Tended, Released
    <2>2. CreditOnce
      BY <1>1, RawBefore DEF CreditOnce, SoundClient
    <2> QED
      BY <1>1, <2>1, <2>2 DEF RawInv, RawIInv
  <1> QED
    BY <1>1, RawInductive, PTL

\* A player whom a check refuses gets no complete Login through to the target, in
\* however many fragments it comes, in whatever order and however often they are sent,
\* unless fragments were dropped as stale (handlePacketWithLoginCheck,
\* handleSplitPacket, sendDisconnectToClient).
THEOREM RefusedWithheld == RawSpec => []DeniedWithheld
  <1>1. ASSUME RawIInv PROVE DeniedWithheld
    BY <1>1, RawBefore DEF DeniedWithheld, SoundClient
  <1> QED
    BY <1>1, RawInductive, PTL

-----------------------------------------------------------------------------
(* PlainUDPClients.                                                        *)

\* The Listen loop dials only while the table is empty, and nobody else fills it; what
\* Stop is about to delete has a closed socket.
PlainAlone ==
    /\ reader.pc = "dial" => entry = 0
    /\ closer.pc = "delete" => closer.g \in PlainIds /\ plain[closer.g].sock = "closed"

PlainIInv == PlainTypeOK /\ SocketOwned /\ PlainAlone

\* The records: what each update makes of a client.
LEMMA PlainSock ==
  ASSUME NEW p \in PlainStates, NEW s \in {"none", "open", "closed"}
  PROVE  LET q == [p EXCEPT !.sock = s]
         IN  q \in PlainStates /\ q.sock = s /\ q.keyed = p.keyed
  BY DEF PlainStates

LEMMA PlainIdle ==
  ASSUME NEW p \in PlainStates, NEW b \in BOOLEAN
  PROVE  LET q == [p EXCEPT !.idle = b]
         IN  q \in PlainStates /\ q.sock = p.sock /\ q.keyed = p.keyed
  BY DEF PlainStates

LEMMA PlainKeyed ==
  ASSUME NEW p \in PlainStates, NEW b \in BOOLEAN
  PROVE  LET q == [p EXCEPT !.keyed = b]
         IN  q \in PlainStates /\ q.sock = p.sock /\ q.keyed = b
  BY DEF PlainStates

LEMMA PlainGone ==
  ASSUME NEW p \in PlainStates
  PROVE  LET q == [p EXCEPT !.fwd = "exit"]
         IN  q \in PlainStates /\ q.sock = p.sock /\ q.keyed = p.keyed
  BY DEF PlainStates

LEMMA PlainDone ==
  ASSUME NEW p \in PlainStates, NEW s \in {"none", "open", "closed"}
  PROVE  LET q == [p EXCEPT !.fwd = "done", !.sock = s]
         IN  q \in PlainStates /\ q.sock = s /\ q.keyed = p.keyed
  BY DEF PlainStates

LEMMA PlainOpen ==
  ASSUME NEW p \in PlainStates
  PROVE  LET q == [p EXCEPT !.sock = "open", !.fwd = "run"]
         IN  q \in PlainStates /\ q.sock = "open" /\ q.keyed = p.keyed
  BY DEF PlainStates

\* A step that leaves every socket as it was, and the table.
LEMMA PlainSameSockets ==
  ASSUME PlainIInv, plain' \in [PlainIds -> PlainStates], UNCHANGED entry,
         \A g \in PlainIds : plain'[g].sock = plain[g].sock /\ plain'[g].keyed = plain[g].keyed
  PROVE  SocketOwned'
  BY DEF PlainIInv, SocketOwned

\* The client g leaves the table and its socket is closed, or the table has another one.
LEMMA PlainRemoved ==
  ASSUME PlainIInv, NEW g \in PlainIds, plain' \in [PlainIds -> PlainStates],
         entry' = (IF entry = g THEN 0 ELSE entry),
         \A h \in PlainIds : plain'[h].keyed = plain[h].keyed,
         \A h \in PlainIds \ {g} : plain'[h].sock = plain[h].sock,
         plain'[g].sock = IF entry = g THEN "closed" ELSE plain[g].sock
  PROVE  /\ SocketOwned' /\ entry' \in 0 .. MaxPlain
         /\ \A h \in PlainIds : plain[h].sock = "closed" => plain'[h].sock = "closed"
         /\ entry = 0 => entry' = 0
  <1>1. \A h \in PlainIds : plain'[h].sock = "open" => h = entry' \/ plain'[h].keyed
    BY DEF PlainIInv, SocketOwned
  <1>2. entry' \in 0 .. MaxPlain
    BY PlainConstants DEF PlainIInv, PlainTypeOK
  <1> QED
    BY <1>1, <1>2 DEF SocketOwned

LEMMA PlainStep == ASSUME PlainIInv, [PlainNext]_plainVars PROVE PlainIInv'
  <1>0. /\ PlainTypeOK /\ SocketOwned /\ PlainAlone
        /\ \A g \in PlainIds : plain[g] \in PlainStates
        /\ MaxPlain \in Nat \ {0} /\ PlainReads \in Nat /\ 0 \notin PlainIds
    BY PlainConstants DEF PlainIInv, PlainTypeOK, PlainIds
  <1>1. CASE UNCHANGED plainVars
    BY <1>0, <1>1 DEF plainVars, PlainIInv, PlainTypeOK, SocketOwned, PlainAlone
  <1>2. CASE PlainRead
    BY <1>0, <1>2 DEF PlainRead, PlainIInv, PlainTypeOK, SocketOwned, PlainAlone, plainClosed
  <1>3. CASE PlainFind
    BY <1>0, <1>3 DEF PlainFind, PlainIInv, PlainTypeOK, SocketOwned, PlainAlone, PlainIds
  <1>4. CASE PlainDialFails
    BY <1>0, <1>4 DEF PlainDialFails, PlainIInv, PlainTypeOK, SocketOwned, PlainAlone
  <1>5. CASE PlainListenEnds
    BY <1>0, <1>5 DEF PlainListenEnds, PlainIInv, PlainTypeOK, SocketOwned, PlainAlone
  <1>6. CASE PlainStop
    BY <1>0, <1>6 DEF PlainStop, PlainIInv, PlainTypeOK, SocketOwned, PlainAlone
  <1>7. CASE PlainStopReturns
    BY <1>0, <1>7 DEF PlainStopReturns, PlainIInv, PlainTypeOK, SocketOwned, PlainAlone
  <1>8. CASE PlainStore
    <2>1. PICK g \in PlainIds :
             /\ plain[g].sock = "none"
             /\ entry' = g
             /\ plain' = [plain EXCEPT ![g] = [@ EXCEPT !.sock = "open", !.fwd = "run"]]
             /\ reader' = [pc |-> "write", g |-> g]
      BY <1>8 DEF PlainStore
    <2> DEFINE q == [plain[g] EXCEPT !.sock = "open", !.fwd = "run"]
    <2>2. q \in PlainStates /\ q.sock = "open" /\ q.keyed = plain[g].keyed
      BY <1>0, PlainOpen
    <2>3. plain' = [plain EXCEPT ![g] = q]
      BY <2>1
    <2> HIDE DEF q
    <2>4. PlainTypeOK'
      BY <1>0, <1>8, <2>1, <2>2, <2>3 DEF PlainStore, PlainTypeOK, PlainIds
    <2>5. entry = 0
      BY <1>0, <1>8 DEF PlainStore, PlainAlone
    <2>6. SocketOwned'
      BY <1>0, <2>1, <2>2, <2>3, <2>5 DEF SocketOwned, PlainTypeOK
    <2>7. PlainAlone'
      BY <1>0, <1>8, <2>1, <2>3 DEF PlainAlone, PlainStore, PlainTypeOK
    <2> QED
      BY <2>4, <2>6, <2>7 DEF PlainIInv
  <1>9. CASE PlainWrite
    <2>1. reader.g \in PlainIds
      BY <1>0, <1>9 DEF PlainWrite, PlainTypeOK
    <2> DEFINE q == [plain[reader.g] EXCEPT !.idle = FALSE]
    <2>2. q \in PlainStates /\ q.sock = plain[reader.g].sock /\ q.keyed = plain[reader.g].keyed
      BY <1>0, <2>1, PlainIdle
    <2>3. plain' = [plain EXCEPT ![reader.g] = q]
      BY <1>9 DEF PlainWrite
    <2> HIDE DEF q
    <2>4. /\ plain' \in [PlainIds -> PlainStates]
          /\ \A g \in PlainIds : plain'[g].sock = plain[g].sock /\ plain'[g].keyed = plain[g].keyed
      BY <1>0, <2>1, <2>2, <2>3 DEF PlainTypeOK
    <2>5. PlainTypeOK'
      BY <1>0, <1>9, <2>4 DEF PlainWrite, PlainTypeOK
    <2>6. SocketOwned'
      BY <1>9, <2>4, PlainSameSockets DEF PlainWrite
    <2>7. PlainAlone'
      BY <1>0, <1>9, <2>4 DEF PlainAlone, PlainWrite
    <2> QED
      BY <2>5, <2>6, <2>7 DEF PlainIInv
  <1>10. CASE PlainWriteFails
    <2>1. reader.g \in PlainIds
      BY <1>0, <1>10 DEF PlainWriteFails, PlainTypeOK
    <2> DEFINE s == IF entry = reader.g THEN "closed" ELSE plain[reader.g].sock
    <2>3. PICK q \in PlainStates : /\ q.sock = s /\ q.keyed = plain[reader.g].keyed
                                   /\ plain' = [plain EXCEPT ![reader.g] = q]
      <3> SUFFICES \E q \in PlainStates : /\ q.sock = s /\ q.keyed = plain[reader.g].keyed
                                          /\ plain' = [plain EXCEPT ![reader.g] = q]
        OBVIOUS
      <3>1. PICK g \in PlainIds : g = reader.g
        BY <2>1
      <3>2. PICK t \in {"none", "open", "closed"} : t = IF entry = g THEN "closed" ELSE plain[g].sock
        BY <1>0 DEF PlainStates
      <3> DEFINE q == [plain[g] EXCEPT !.sock = t]
      <3>3. q \in PlainStates /\ q.sock = t /\ q.keyed = plain[g].keyed
        <4>1. plain[g] \in PlainStates /\ t \in {"none", "open", "closed"}
          BY <1>0, <3>1, <3>2
        <4> QED
          BY <4>1, PlainSock
      <3>4. q = [plain[g] EXCEPT !.sock = IF entry = g THEN "closed" ELSE @]
        BY <3>2
      <3>5. plain' = [plain EXCEPT ![g] = q]
        BY <1>10, <3>1, <3>4 DEF PlainWriteFails, RemoveIfMatch
      <3> HIDE DEF q
      <3> QED
        BY <3>1, <3>2, <3>3, <3>5
    <2>4. plain' = [plain EXCEPT ![reader.g] = q]
      BY <2>3
    <2>5. /\ plain' \in [PlainIds -> PlainStates] /\ plain'[reader.g].sock = s
          /\ \A h \in PlainIds : plain'[h].keyed = plain[h].keyed
          /\ \A h \in PlainIds \ {reader.g} : plain'[h].sock = plain[h].sock
      BY <1>0, <2>1, <2>3, <2>4 DEF PlainTypeOK
    <2>6. /\ SocketOwned' /\ entry' \in 0 .. MaxPlain
          /\ \A h \in PlainIds : plain[h].sock = "closed" => plain'[h].sock = "closed"
      BY <1>10, <2>1, <2>5, PlainRemoved DEF PlainWriteFails, RemoveIfMatch
    <2>7. PlainTypeOK'
      BY <1>0, <1>10, <2>5, <2>6 DEF PlainWriteFails, PlainTypeOK
    <2>8. PlainAlone'
      BY <1>0, <1>10, <2>6 DEF PlainAlone, PlainWriteFails
    <2> QED
      BY <2>6, <2>7, <2>8 DEF PlainIInv
  <1>11. ASSUME NEW g \in PlainIds,
                PlainResponse(g) \/ PlainQuiet(g) \/ ForwardGivesUp(g) \/ ForwardFails(g)
         PROVE  PlainIInv'
    <2>1. PICK q \in PlainStates :
             /\ q.sock = plain[g].sock /\ q.keyed = plain[g].keyed
             /\ plain' = [plain EXCEPT ![g] = q]
      <3>1. ASSUME NEW b \in BOOLEAN, plain' = [plain EXCEPT ![g] = [plain[g] EXCEPT !.idle = b]]
            PROVE  \E q \in PlainStates : /\ q.sock = plain[g].sock /\ q.keyed = plain[g].keyed
                                          /\ plain' = [plain EXCEPT ![g] = q]
        <4> DEFINE q == [plain[g] EXCEPT !.idle = b]
        <4>1. q \in PlainStates /\ q.sock = plain[g].sock /\ q.keyed = plain[g].keyed
          BY <1>0, PlainIdle
        <4> QED
          BY <3>1, <4>1
      <3>2. CASE plain' = [plain EXCEPT ![g] = [plain[g] EXCEPT !.fwd = "exit"]]
        <4> DEFINE q == [plain[g] EXCEPT !.fwd = "exit"]
        <4>1. q \in PlainStates /\ q.sock = plain[g].sock /\ q.keyed = plain[g].keyed
          BY <1>0, PlainGone
        <4> QED
          BY <3>2, <4>1
      <3> QED
        BY <1>11, <3>1, <3>2 DEF PlainResponse, PlainQuiet, ForwardGivesUp, ForwardFails
    <2>2. UNCHANGED <<entry, reader, reads, closer>>
      BY <1>11 DEF PlainResponse, PlainQuiet, ForwardGivesUp, ForwardFails
    <2>3. /\ plain' \in [PlainIds -> PlainStates]
          /\ \A h \in PlainIds : plain'[h].sock = plain[h].sock /\ plain'[h].keyed = plain[h].keyed
      BY <1>0, <2>1 DEF PlainTypeOK
    <2>4. PlainTypeOK'
      BY <1>0, <2>2, <2>3 DEF PlainTypeOK
    <2>5. SocketOwned'
      BY <2>2, <2>3, PlainSameSockets
    <2>6. PlainAlone'
      BY <1>0, <2>2, <2>3 DEF PlainAlone
    <2> QED
      BY <2>4, <2>5, <2>6 DEF PlainIInv
  <1>12. ASSUME NEW g \in PlainIds, ForwardExit(g)
         PROVE  PlainIInv'
    <2> DEFINE s == IF entry = g THEN "closed" ELSE plain[g].sock
    <2>3. PICK q \in PlainStates : /\ q.sock = s /\ q.keyed = plain[g].keyed
                                   /\ plain' = [plain EXCEPT ![g] = q]
      <3> SUFFICES \E q \in PlainStates : /\ q.sock = s /\ q.keyed = plain[g].keyed
                                          /\ plain' = [plain EXCEPT ![g] = q]
        OBVIOUS
      <3>2. PICK t \in {"none", "open", "closed"} : t = s
        BY <1>0, SMTT(30) DEF PlainStates
      <3> DEFINE q == [plain[g] EXCEPT !.fwd = "done", !.sock = t]
      <3>3. q \in PlainStates /\ q.sock = t /\ q.keyed = plain[g].keyed
        <4>1. plain[g] \in PlainStates /\ t \in {"none", "open", "closed"}
          BY <1>0, <3>2
        <4> QED
          BY <4>1, PlainDone
      <3>4. q = [plain[g] EXCEPT !.fwd = "done", !.sock = IF entry = g THEN "closed" ELSE @]
        BY <3>2
      <3>5. plain' = [plain EXCEPT ![g] = q]
        BY <1>12, <3>4 DEF ForwardExit
      <3> HIDE DEF q
      <3> QED
        BY <3>2, <3>3, <3>5
    <2>4. plain' = [plain EXCEPT ![g] = q]
      BY <2>3
    <2>5. /\ plain' \in [PlainIds -> PlainStates] /\ plain'[g].sock = s
          /\ \A h \in PlainIds : plain'[h].keyed = plain[h].keyed
          /\ \A h \in PlainIds \ {g} : plain'[h].sock = plain[h].sock
      BY <1>0, <2>3, <2>4 DEF PlainTypeOK
    <2>6. /\ SocketOwned' /\ entry' \in 0 .. MaxPlain
          /\ \A h \in PlainIds : plain[h].sock = "closed" => plain'[h].sock = "closed"
          /\ entry = 0 => entry' = 0
      BY <1>12, <2>5, PlainRemoved DEF ForwardExit
    <2>7. PlainTypeOK'
      BY <1>0, <1>12, <2>5, <2>6 DEF ForwardExit, PlainTypeOK
    <2>8. PlainAlone'
      BY <1>0, <1>12, <2>6 DEF PlainAlone, ForwardExit
    <2> QED
      BY <2>6, <2>7, <2>8 DEF PlainIInv
  <1>13. CASE PlainStopCloses
    <2>1. \A g \in PlainIds :
             /\ plain'[g] \in PlainStates /\ plain'[g].keyed = plain[g].keyed
             /\ plain'[g].sock = IF g = entry THEN "closed" ELSE plain[g].sock
      <3> TAKE g \in PlainIds
      <3> DEFINE q == [plain[g] EXCEPT !.sock = "closed"]
      <3>1. q \in PlainStates /\ q.sock = "closed" /\ q.keyed = plain[g].keyed
        BY <1>0, PlainSock
      <3>2. plain'[g] = IF g = entry THEN q ELSE plain[g]
        BY <1>13 DEF PlainStopCloses
      <3> QED
        BY <1>0, <3>1, <3>2
    <2>2. plain' \in [PlainIds -> PlainStates]
      BY <1>13, <2>1 DEF PlainStopCloses
    <2>3. PlainTypeOK'
      BY <1>0, <1>13, <2>2 DEF PlainStopCloses, PlainTypeOK
    <2>4. SocketOwned'
      BY <1>0, <1>13, <2>1 DEF PlainStopCloses, SocketOwned
    <2>5. PlainAlone'
      BY <1>0, <1>13, <2>1 DEF PlainStopCloses, PlainAlone, PlainTypeOK, PlainIds
    <2> QED
      BY <2>3, <2>4, <2>5 DEF PlainIInv
  <1>14. CASE PlainStopDeletes
    <2>1. \A g \in PlainIds :
             /\ plain'[g] \in PlainStates /\ plain'[g].sock = plain[g].sock
             /\ plain'[g].keyed = IF g = entry THEN g # closer.g ELSE plain[g].keyed
      <3> TAKE g \in PlainIds
      <3> DEFINE q == [plain[g] EXCEPT !.keyed = (g # closer.g)]
      <3>1. q \in PlainStates /\ q.sock = plain[g].sock /\ q.keyed = (g # closer.g)
        BY <1>0, PlainKeyed
      <3>2. plain'[g] = IF g = entry THEN q ELSE plain[g]
        BY <1>14 DEF PlainStopDeletes
      <3> QED
        BY <1>0, <3>1, <3>2
    <2>2. plain' \in [PlainIds -> PlainStates]
      BY <1>14, <2>1 DEF PlainStopDeletes
    <2>3. PlainTypeOK'
      BY <1>0, <1>14, <2>2 DEF PlainStopDeletes, PlainTypeOK
    <2>4. SocketOwned'
      BY <1>0, <1>14, <2>1 DEF PlainStopDeletes, SocketOwned, PlainAlone
    <2>5. PlainAlone'
      BY <1>0, <1>14 DEF PlainStopDeletes, PlainAlone
    <2> QED
      BY <2>3, <2>4, <2>5 DEF PlainIInv
  <1> QED
    BY <1>1, <1>2, <1>3, <1>4, <1>5, <1>6, <1>7, <1>8, <1>9, <1>10, <1>11, <1>12,
       <1>13, <1>14 DEF PlainNext, PlainReaderStep, PlainForwarderStep

LEMMA PlainStart == ASSUME PlainInit PROVE PlainIInv
  BY PlainConstants DEF PlainInit, PlainIInv, PlainTypeOK, SocketOwned, PlainAlone,
     PlainStates, PlainIds

\* The plain UDP proxy loses no socket: an open one belongs to the client in the table,
\* but for a client that Stop deleted by its key (removeClientIfMatch, Stop).
THEOREM PlainSocketsOwned == PlainSpec => []PlainInv
  <1>1. PlainIInv /\ [PlainNext]_plainVars => PlainIInv'
    BY PlainStep
  <1>2. PlainIInv => PlainInv
    BY DEF PlainIInv, PlainInv
  <1> QED
    BY <1>1, <1>2, PlainStart, PTL DEF PlainSpec

-----------------------------------------------------------------------------
(* StreamProxies.                                                          *)

Arrived == {"none", "chan", "start"}

Ended == {"leave", "close", "done"}

\* The places where a handler holds a session and has not let go of it.
Holding == {"dial", "check", "spawn", "relay"}

\* Another handler of the address, which may have taken the entry of activeConns.
Rival(c) == \E d \in Ids \ {c} : addr(d) = addr(c) /\ conn[d].pc \notin Arrived

\* What may have taken the session of c from the table.
Excused(c) ==
    \E d \in Ids \ {c} :
      \/ addr(d) = addr(c) /\ conn[d].pc \in Ended
      \/ proto = "passthrough" /\ (conn[d].named \/ At(d, "done"))

\* What holds of a handler for itself: the verdict comes before the Login, a session is of
\* the handler's address, and is left behind only at the end.
Own(c, r) ==
    /\ r.pc \in Arrived => ~r.denied
    /\ r.login => r.pc \in {"relay"} \cup Ended
    /\ (proto # "raknet" /\ r.denied) => r.pc \in Ended /\ ~r.login
    /\ r.left => r.pc \in Ended
    /\ r.sid # 0 => proto # "tcp" /\ r.pc \in Holding \cup Ended /\ addr(r.sid) = addr(c)
    /\ r.pc \in {"greet", "session", "check"} => proto = "passthrough"
    /\ r.pc = "spawn" => proto = "mitm"
    /\ (r.pc = "dial" /\ proto = "passthrough") => r.sid = 0
    /\ (r.pc \in {"dial", "relay"} /\ proto = "raknet") => r.sid # 0
    /\ (r.pc \in Arrived \cup {"hello", "dial", "greet"} /\ proto = "passthrough") => ~r.named

\* What holds of it among the others.
Among(c, r) ==
    /\ (proto = "raknet" /\ r.denied) => r.cli = "closed" \/ Rival(c)
    /\ (proto = "raknet" /\ r.pc \notin Arrived \cup Ended) => c \in active \/ Rival(c)
    /\ (r.sid # 0 /\ r.pc \in Holding) => sessTab[addr(c)] = r.sid \/ Excused(c)

AllHold == \A c \in Ids : Own(c, conn[c]) /\ Among(c, conn[c])

\* A session in the table is of that address, and somebody holds it or has left it.
Witnessed ==
    \A a \in Addrs : sessTab[a] # 0 =>
      /\ addr(sessTab[a]) = a
      /\ \E c \in Ids : conn[c].sid = sessTab[a] /\ (conn[c].left \/ conn[c].pc \in Holding)

StreamIInv == StreamTypeOK /\ AllHold /\ Witnessed

LEMMA StreamInvHolds == StreamIInv => StreamInv
  <1> SUFFICES ASSUME StreamIInv PROVE StreamInv
    OBVIOUS
  <1>1. RefusedKeptOut
    BY DEF StreamIInv, AllHold, Own, Among, RefusedKeptOut, Rival, Arrived
  <1>2. NoGhostSession
    BY DEF StreamIInv, Witnessed, NoGhostSession, Handled, Holding
  <1>3. PlayerListed
    BY DEF StreamIInv, AllHold, Among, PlayerListed, Excused, Holding, Ended, At
  <1> QED
    BY <1>1, <1>2, <1>3 DEF StreamInv, StreamIInv

LEMMA StreamTypes ==
  ASSUME StreamIInv
  PROVE  /\ load.from \in [Ids -> Addrs] /\ load.proto \in Protos /\ load.kicks \in Nat
         /\ conn \in [Ids -> ConnStates] /\ active \subseteq Ids
         /\ sessTab \in [Addrs -> 0 .. MaxConns]
         /\ \A c \in Ids : c \in 0 .. MaxConns /\ c # 0 /\ addr(c) \in Addrs
         /\ \A s \in 0 .. MaxConns : s # 0 => s \in Ids
         /\ 0 \in 0 .. MaxConns
  <1>1. MaxConns \in Nat \ {0}
    BY StreamConstants
  <1>2. load.from \in [Ids -> Addrs] /\ load.proto \in Protos /\ load.kicks \in Nat
    BY StreamConstants DEF StreamIInv, StreamTypeOK, Ids
  <1> QED
    BY <1>1, <1>2 DEF StreamIInv, StreamTypeOK, Ids, addr

\* What a step of a handler never undoes.
Steady(r, q) ==
    /\ r.pc \notin Arrived => q.pc \notin Arrived
    /\ r.pc \in Ended => q.pc \in Ended
    /\ r.pc = "done" => q.pc = "done"
    /\ r.named => q.named \/ q.pc = "done"
    /\ (proto = "raknet" /\ q.denied /\ q.cli # "closed") => r.denied /\ r.cli # "closed"

LEMMA OthersMove ==
  ASSUME StreamIInv, load' = load, conn' \in [Ids -> ConnStates],
         \A d \in Ids : Steady(conn[d], conn'[d]), NEW c \in Ids
  PROVE  (Rival(c) => Rival(c)') /\ (Excused(c) => Excused(c)')
  BY DEF Rival, Excused, Steady, addr, At, proto, Ended

\* The handler of c moves on; the tables may change.
LEMMA Turn ==
  ASSUME StreamIInv, StreamTypeOK', NEW c \in Ids, NEW q \in ConnStates,
         load' = load, conn' = [conn EXCEPT ![c] = q],
         Own(c, q), Steady(conn[c], q),
         q.pc \notin Arrived \cup Ended => conn[c].pc \notin Arrived \cup Ended \/ c \in active',
         \A d \in active \ active' :
           proto = "raknet" => (d = c /\ q.pc \in Ended) \/ (d # c /\ Rival(d)'),
         (q.sid # 0 /\ q.pc \in Holding) =>
           \/ sessTab'[addr(c)] = q.sid
           \/ q.sid = conn[c].sid /\ conn[c].pc \in Holding,
         \A d \in Ids : (conn[d].sid # 0 /\ conn[d].pc \in Holding
                         /\ sessTab[addr(d)] = conn[d].sid) =>
           \/ sessTab'[addr(d)] = conn[d].sid
           \/ Excused(d)'
           \/ d = c /\ q.pc \notin Holding,
         Witnessed'
  PROVE  StreamIInv'
  <1>0. /\ conn \in [Ids -> ConnStates] /\ conn' \in [Ids -> ConnStates]
        /\ \A d \in Ids : conn'[d] = IF d = c THEN q ELSE conn[d]
    BY StreamTypes
  <1>1. \A d \in Ids : Steady(conn[d], conn'[d])
    BY <1>0 DEF Steady
  <1>2. \A d \in Ids : (Rival(d) => Rival(d)') /\ (Excused(d) => Excused(d)')
    BY <1>0, <1>1, OthersMove
  <1>3. \A d \in Ids : Own(d, conn[d]) /\ Among(d, conn[d])
    BY DEF StreamIInv, AllHold
  <1>4. \A d \in Ids : Own(d, conn[d])'
    BY <1>0, <1>3 DEF Own, proto, addr
  <1>5. ASSUME NEW d \in Ids PROVE Among(d, conn[d])'
    <2>0. proto' = proto /\ addr(d)' = addr(d)
      BY DEF proto, addr
    <2>1. (proto = "raknet" /\ conn'[d].denied) => conn'[d].cli = "closed" \/ Rival(d)'
      BY <1>0, <1>1, <1>2, <1>3 DEF Among, Steady
    <2>2. (proto = "raknet" /\ conn'[d].pc \notin Arrived \cup Ended) =>
            d \in active' \/ Rival(d)'
      BY <1>0, <1>2, <1>3 DEF Among
    <2>3. (conn'[d].sid # 0 /\ conn'[d].pc \in Holding) =>
            sessTab'[addr(d)] = conn'[d].sid \/ Excused(d)'
      BY <1>0, <1>2, <1>3 DEF Among
    <2> QED
      BY <2>0, <2>1, <2>2, <2>3 DEF Among
  <1> QED
    BY <1>4, <1>5 DEF StreamIInv, AllHold

\* What a step that leaves the tables alone keeps of the session.
Smooth(r, q) ==
    /\ (q.sid # 0 /\ q.pc \in Holding) => q.sid = r.sid /\ r.pc \in Holding
    /\ (r.sid # 0 /\ (r.left \/ r.pc \in Holding)) =>
         q.sid = r.sid /\ (q.left \/ q.pc \in Holding)

calm == <<load, active, sessTab, players, ctxDone, socket, listen, halt, kicks, pong>>

LEMMA CalmType ==
  ASSUME StreamIInv, NEW c \in Ids, NEW q \in ConnStates, conn' = [conn EXCEPT ![c] = q],
         UNCHANGED <<load, ctxDone, socket, listen, halt, pong>>,
         active' \subseteq Ids, players' \subseteq Ids, sessTab' \in [Addrs -> 0 .. MaxConns],
         kicks' \in [todo : SUBSET Ids, calls : 0 .. load.kicks]
  PROVE  StreamTypeOK'
  BY DEF StreamIInv, StreamTypeOK

\* Sessions may go from the table; the one c held, only if c keeps it or it is gone.
LEMMA WitnessStays ==
  ASSUME StreamIInv, NEW c \in Ids, NEW q \in ConnStates, conn' = [conn EXCEPT ![c] = q],
         load' = load, \A a \in Addrs : sessTab'[a] \in {0, sessTab[a]},
         Smooth(conn[c], q) \/ sessTab'[addr(c)] = 0
  PROVE  Witnessed'
  <1> SUFFICES ASSUME NEW a \in Addrs, sessTab'[a] # 0
               PROVE  /\ addr(sessTab'[a]) = a
                      /\ \E d \in Ids : /\ conn'[d].sid = sessTab'[a]
                                        /\ conn'[d].left \/ conn'[d].pc \in Holding
    BY DEF Witnessed, addr
  <1>0. sessTab'[a] = sessTab[a]
    OBVIOUS
  <1>1. PICK d \in Ids : conn[d].sid = sessTab[a] /\ (conn[d].left \/ conn[d].pc \in Holding)
    BY <1>0 DEF StreamIInv, Witnessed
  <1>2. addr(sessTab[a]) = a /\ addr(d) = a
    BY <1>0, <1>1 DEF StreamIInv, Witnessed, AllHold, Own
  <1>3. conn'[d].sid = sessTab[a] /\ (conn'[d].left \/ conn'[d].pc \in Holding)
    BY <1>0, <1>1, <1>2, StreamTypes DEF Smooth
  <1> QED
    BY <1>0, <1>2, <1>3

LEMMA CalmTurn ==
  ASSUME StreamIInv, NEW c \in Ids, NEW q \in ConnStates, conn' = [conn EXCEPT ![c] = q],
         UNCHANGED calm, Own(c, q), Steady(conn[c], q), Smooth(conn[c], q),
         q.pc \notin Arrived \cup Ended => conn[c].pc \notin Arrived \cup Ended
  PROVE  StreamIInv'
  <1>1. StreamTypeOK'
    BY CalmType DEF calm, StreamIInv, StreamTypeOK
  <1>2. Witnessed'
    BY WitnessStays DEF calm
  <1> QED
    BY <1>1, <1>2, Turn DEF calm, Smooth

-----------------------------------------------------------------------------
(* The steps of a handler that leave the tables alone.                     *)

LEMMA HandlerHolds ==
  ASSUME StreamIInv, NEW c \in Ids
  PROVE  conn[c] \in ConnStates /\ Own(c, conn[c]) /\ Among(c, conn[c])
  BY StreamTypes DEF StreamIInv, AllHold

\* A handler goes to another place without a session, or with the one it keeps.
LEMMA PcMoves ==
  ASSUME NEW c \in Ids, NEW r \in ConnStates, Own(c, r),
         NEW p \in {"start", "dial", "leave"}, NEW b \in BOOLEAN,
         \/ p = "start" /\ r.pc = "chan" /\ ~b
         \/ p = "dial" /\ r.pc = "hello" /\ ~b /\ proto # "raknet"
         \/ p = "leave" /\ r.pc \in {"hello", "greet"} /\ ~b
         \/ p = "leave" /\ r.pc \in Holding /\ (b = (r.sid # 0))
  PROVE  /\ [r EXCEPT !.pc = p, !.left = b] \in ConnStates
         /\ Own(c, [r EXCEPT !.pc = p, !.left = b])
         /\ Steady(r, [r EXCEPT !.pc = p, !.left = b])
         /\ Smooth(r, [r EXCEPT !.pc = p, !.left = b])
         /\ p # "start" => r.pc \notin Arrived \cup Ended
  <1> DEFINE q == [r EXCEPT !.pc = p, !.left = b]
  <1>1. /\ q \in ConnStates /\ q.pc = p /\ q.left = b /\ q.sid = r.sid /\ q.denied = r.denied
        /\ q.login = r.login /\ q.named = r.named /\ q.cli = r.cli
        /\ r.left \in BOOLEAN /\ r.named \in BOOLEAN /\ r.login \in BOOLEAN /\ r.denied \in BOOLEAN
    BY DEF ConnStates
  <1> HIDE DEF q
  <1>2. Own(c, q) /\ Steady(r, q) /\ Smooth(r, q)
    BY <1>1 DEF Own, Steady, Smooth, Arrived, Ended, Holding
  <1>3. p # "start" => r.pc \notin Arrived \cup Ended
    BY DEF Arrived, Ended, Holding
  <1> QED
    BY <1>1, <1>2, <1>3 DEF q

\* Stated for the steps: only the place changes.
LEMMA GoesTo ==
  ASSUME StreamIInv, NEW c \in Ids, NEW p \in {"start", "dial", "leave"}, NEW b \in BOOLEAN,
         \/ p = "start" /\ conn[c].pc = "chan" /\ ~b
         \/ p = "dial" /\ conn[c].pc = "hello" /\ ~b /\ proto # "raknet"
         \/ p = "leave" /\ conn[c].pc \in {"hello", "greet"} /\ ~b
         \/ p = "leave" /\ conn[c].pc \in Holding /\ (b = (conn[c].sid # 0)),
         conn' = [conn EXCEPT ![c] = [conn[c] EXCEPT !.pc = p, !.left = b]],
         UNCHANGED calm
  PROVE  StreamIInv'
  <1>1. PICK r \in ConnStates : r = conn[c] /\ Own(c, r)
    BY HandlerHolds
  <1>2. PICK q : q = [r EXCEPT !.pc = p, !.left = b]
    OBVIOUS
  <1>3. /\ q \in ConnStates /\ Own(c, q) /\ Steady(r, q) /\ Smooth(r, q)
        /\ p # "start" => r.pc \notin Arrived \cup Ended
    BY <1>1, <1>2, PcMoves
  <1>4. q.pc = p
    BY <1>1, <1>2 DEF ConnStates
  <1> QED
    BY <1>1, <1>2, <1>3, <1>4, CalmTurn DEF Arrived

\* A place only: no history of a session left behind.
LEMMA SamePlace ==
  ASSUME NEW r \in ConnStates, ~r.left, NEW p
  PROVE  [r EXCEPT !.pc = p] = [r EXCEPT !.pc = p, !.left = FALSE]
  <1>1. r.left = FALSE
    BY DEF ConnStates
  <1> QED
    BY <1>1 DEF ConnStates

LEMMA SpawnStep ==
  ASSUME StreamIInv, NEW c \in Ids,
         Spawn(c) \/ PassthroughHello(c) \/ TCPHello(c) \/ TurnedAway(c) \/ GreetFails(c)
  PROVE  StreamIInv'
  <1>1. conn[c] \in ConnStates /\ Own(c, conn[c])
    BY HandlerHolds
  <1>2. PICK p \in {"start", "dial", "leave"} :
          /\ \/ p = "start" /\ conn[c].pc = "chan"
             \/ p = "dial" /\ conn[c].pc = "hello" /\ proto # "raknet"
             \/ p = "leave" /\ conn[c].pc \in {"hello", "greet"}
          /\ conn' = [conn EXCEPT ![c] = [conn[c] EXCEPT !.pc = p]]
          /\ UNCHANGED calm
    BY DEF Spawn, PassthroughHello, TCPHello, TurnedAway, GreetFails, Leave, At, calm
  <1>3. ~conn[c].left
    BY <1>1, <1>2 DEF Own, Ended
  <1>4. [conn[c] EXCEPT !.pc = p] = [conn[c] EXCEPT !.pc = p, !.left = FALSE]
    BY <1>1, <1>3, SamePlace
  <1> QED
    BY <1>2, <1>4, GoesTo

\* A handler that leaves its session to the collector.
LEMMA LeaveSessionStep ==
  ASSUME StreamIInv, NEW c \in Ids, conn[c].pc \in Holding, LeaveSession(c), UNCHANGED calm
  PROVE  StreamIInv'
  <1>1. PICK b \in BOOLEAN : b = (conn[c].sid # 0)
    OBVIOUS
  <1>2. conn' = [conn EXCEPT ![c] = [conn[c] EXCEPT !.pc = "leave", !.left = b]]
    BY <1>1 DEF LeaveSession
  <1> QED
    BY <1>1, <1>2, GoesTo

LEMMA FailsStep ==
  ASSUME StreamIInv, NEW c \in Ids, DialFails(c) \/ SpawnFails(c)
  PROVE  StreamIInv'
  BY LeaveSessionStep DEF DialFails, SpawnFails, At, Holding, calm

\* A connection is closed by a peer, the library or a kick; a copy loop ends: the place of
\* the handler, its session and what is known of it stay.
SameBut(r, q) ==
    /\ q.pc = r.pc /\ q.sid = r.sid /\ q.left = r.left /\ q.denied = r.denied
    /\ q.login = r.login /\ q.named = r.named /\ q.cli \in {r.cli, "closed"}

LEMMA EndsStep ==
  ASSUME StreamIInv, NEW c \in Ids, NEW q \in ConnStates, SameBut(conn[c], q),
         conn' = [conn EXCEPT ![c] = q],
         UNCHANGED <<load, active, sessTab, players, ctxDone, socket, listen, halt, pong>>,
         kicks' \in [todo : SUBSET Ids, calls : 0 .. load.kicks]
  PROVE  StreamIInv'
  <1>1. Own(c, q) /\ Steady(conn[c], q) /\ Smooth(conn[c], q) /\ q.pc = conn[c].pc
    BY HandlerHolds DEF SameBut, Own, Steady, Smooth
  <1>2. StreamTypeOK'
    BY CalmType DEF StreamIInv, StreamTypeOK
  <1>3. Witnessed'
    BY <1>1, WitnessStays
  <1> QED
    BY <1>1, <1>2, <1>3, Turn DEF Smooth

LEMMA PeerStep ==
  ASSUME StreamIInv, NEW c \in Ids,
         \/ ClientLeaves(c) \/ ClientTimesOut(c) \/ TargetLeaves(c) \/ TCPUp(c)
         \/ UpEnds(c) \/ DownEnds(c) \/ KickClose(c)
  PROVE  StreamIInv'
  <1>1. conn[c] \in ConnStates
    BY HandlerHolds
  <1>2. kicks \in [todo : SUBSET Ids, calls : 0 .. load.kicks]
    BY DEF StreamIInv, StreamTypeOK
  <1>3. CASE ClientLeaves(c)
    <2> DEFINE q == [conn[c] EXCEPT !.cli = "closed"]
    <2>1. q \in ConnStates /\ SameBut(conn[c], q)
      BY <1>1 DEF ConnStates, SameBut
    <2>2. conn' = [conn EXCEPT ![c] = q] /\ UNCHANGED calm
      BY <1>3 DEF ClientLeaves, calm
    <2> HIDE DEF q
    <2> QED
      BY <1>2, <2>1, <2>2, EndsStep DEF calm
  <1>4. CASE ClientTimesOut(c)
    <2> DEFINE q == [conn[c] EXCEPT !.cli = "closed"]
    <2>1. q \in ConnStates /\ SameBut(conn[c], q)
      BY <1>1 DEF ConnStates, SameBut
    <2>2. conn' = [conn EXCEPT ![c] = q] /\ UNCHANGED calm
      BY <1>4 DEF ClientTimesOut, ClientLeaves, calm
    <2> HIDE DEF q
    <2> QED
      BY <1>2, <2>1, <2>2, EndsStep DEF calm
  <1>5. CASE TargetLeaves(c)
    <2> DEFINE q == [conn[c] EXCEPT !.rem = "closed"]
    <2>1. q \in ConnStates /\ SameBut(conn[c], q)
      BY <1>1 DEF ConnStates, SameBut
    <2>2. conn' = [conn EXCEPT ![c] = q] /\ UNCHANGED calm
      BY <1>5 DEF TargetLeaves, calm
    <2> HIDE DEF q
    <2> QED
      BY <1>2, <2>1, <2>2, EndsStep DEF calm
  <1>6. CASE TCPUp(c)
    <2> DEFINE q == [conn[c] EXCEPT !.up = "done", !.rem = IF @ = "open" THEN "half" ELSE @]
    <2>1. q \in ConnStates /\ SameBut(conn[c], q)
      BY <1>1 DEF ConnStates, SameBut
    <2>2. conn' = [conn EXCEPT ![c] = q] /\ UNCHANGED calm
      BY <1>6 DEF TCPUp, calm
    <2> HIDE DEF q
    <2> QED
      BY <1>2, <2>1, <2>2, EndsStep DEF calm
  <1>7. CASE UpEnds(c)
    <2> DEFINE q == [conn[c] EXCEPT !.up = "done",
                                       !.cli = IF proto = "mitm" /\ Cancelled(c)
                                               THEN "closed" ELSE @]
    <2>1. q \in ConnStates /\ SameBut(conn[c], q)
      BY <1>1 DEF ConnStates, SameBut
    <2>2. conn' = [conn EXCEPT ![c] = q] /\ UNCHANGED calm
      BY <1>7 DEF UpEnds, calm
    <2> HIDE DEF q
    <2> QED
      BY <1>2, <2>1, <2>2, EndsStep DEF calm
  <1>8. CASE DownEnds(c)
    <2> DEFINE q == [conn[c] EXCEPT !.down = "done",
                                       !.rem = IF proto = "mitm" /\ Cancelled(c)
                                               THEN "closed" ELSE @]
    <2>1. q \in ConnStates /\ SameBut(conn[c], q)
      BY <1>1 DEF ConnStates, SameBut
    <2>2. conn' = [conn EXCEPT ![c] = q] /\ UNCHANGED calm
      BY <1>8 DEF DownEnds, calm
    <2> HIDE DEF q
    <2> QED
      BY <1>2, <2>1, <2>2, EndsStep DEF calm
  <1>9. CASE KickClose(c)
    <2> DEFINE q == [conn[c] EXCEPT !.cli = "closed", !.kicked = TRUE]
    <2>1. q \in ConnStates /\ SameBut(conn[c], q)
      BY <1>1 DEF ConnStates, SameBut
    <2>2. /\ conn' = [conn EXCEPT ![c] = q]
          /\ kicks' = [kicks EXCEPT !.todo = @ \ {c}]
          /\ UNCHANGED <<load, active, sessTab, players, ctxDone, socket, listen, halt, pong>>
      BY <1>9 DEF KickClose
    <2>3. kicks' \in [todo : SUBSET Ids, calls : 0 .. load.kicks]
      BY <1>2, <2>2
    <2> HIDE DEF q
    <2> QED
      BY <2>1, <2>2, <2>3, EndsStep
  <1> QED
    BY <1>3, <1>4, <1>5, <1>6, <1>7, <1>8, <1>9

LEMMA AcceptStep ==
  ASSUME StreamIInv, NEW c \in Ids, Accept(c)
  PROVE  StreamIInv'
  <1> DEFINE q == [conn[c] EXCEPT !.pc = "chan", !.cli = "open"]
  <1>1. conn[c] \in ConnStates /\ Own(c, conn[c]) /\ conn[c].pc = "none"
    BY HandlerHolds DEF Accept, At
  <1>2. /\ q \in ConnStates /\ q.pc = "chan" /\ q.sid = conn[c].sid /\ q.left = conn[c].left
        /\ q.denied = conn[c].denied /\ q.login = conn[c].login /\ q.named = conn[c].named
    BY <1>1 DEF ConnStates
  <1>3. conn' = [conn EXCEPT ![c] = q] /\ UNCHANGED calm
    BY DEF Accept, calm
  <1> HIDE DEF q
  <1>4. Own(c, q) /\ Steady(conn[c], q) /\ Smooth(conn[c], q)
    BY <1>1, <1>2 DEF Own, Steady, Smooth, Arrived, Ended, Holding
  <1> QED
    BY <1>2, <1>3, <1>4, CalmTurn DEF Arrived

LEMMA NotTakenStep ==
  ASSUME StreamIInv, NEW c \in Ids, NotTaken(c)
  PROVE  StreamIInv'
  <1> DEFINE q == [conn[c] EXCEPT !.pc = "done", !.cli = "closed"]
  <1>1. conn[c] \in ConnStates /\ Own(c, conn[c]) /\ conn[c].pc = "chan"
    BY HandlerHolds DEF NotTaken, At
  <1>2. /\ q \in ConnStates /\ q.pc = "done" /\ q.sid = conn[c].sid /\ q.left = conn[c].left
        /\ q.denied = conn[c].denied /\ q.login = conn[c].login /\ q.named = conn[c].named
        /\ q.cli = "closed"
    BY <1>1 DEF ConnStates
  <1>3. conn' = [conn EXCEPT ![c] = q] /\ UNCHANGED calm
    BY DEF NotTaken, calm
  <1> HIDE DEF q
  <1>4. Own(c, q) /\ Steady(conn[c], q) /\ Smooth(conn[c], q)
    BY <1>1, <1>2 DEF Own, Steady, Smooth, Arrived, Ended, Holding
  <1> QED
    BY <1>2, <1>3, <1>4, CalmTurn DEF Ended

LEMMA DialStep ==
  ASSUME StreamIInv, NEW c \in Ids, Dial(c)
  PROVE  StreamIInv'
  <1>0. proto \in Protos
    BY StreamTypes DEF proto
  <1>1. PICK p \in {"greet", "spawn", "relay"} :
          /\ p = AfterDial[proto] /\ (p = "greet" <=> proto = "passthrough")
          /\ p = "spawn" => proto = "mitm"
    BY <1>0 DEF AfterDial, Protos
  <1> DEFINE q == [conn[c] EXCEPT !.pc = p, !.rem = "open",
                                  !.up = IF p = "relay" THEN "run" ELSE @,
                                  !.down = IF p = "relay" THEN "run" ELSE @]
  <1>2. conn[c] \in ConnStates /\ Own(c, conn[c]) /\ conn[c].pc = "dial"
    BY HandlerHolds DEF Dial, At
  <1>3. /\ q \in ConnStates /\ q.pc = p /\ q.sid = conn[c].sid /\ q.left = conn[c].left
        /\ q.denied = conn[c].denied /\ q.login = conn[c].login /\ q.named = conn[c].named
        /\ q.cli = conn[c].cli
    BY <1>2 DEF ConnStates
  <1>4. conn' = [conn EXCEPT ![c] = q] /\ UNCHANGED calm
    BY <1>1 DEF Dial, calm
  <1> HIDE DEF q
  <1>5. Own(c, q) /\ Steady(conn[c], q) /\ Smooth(conn[c], q)
    BY <1>1, <1>2, <1>3 DEF Own, Steady, Smooth, Arrived, Ended, Holding
  <1> QED
    BY <1>2, <1>3, <1>4, <1>5, CalmTurn DEF Arrived, Ended

LEMMA LoginStep ==
  ASSUME StreamIInv, NEW c \in Ids, SendLogin(c) \/ StartGame(c)
  PROVE  StreamIInv'
  <1> DEFINE q == Relaying(c)
  <1>1. conn[c] \in ConnStates /\ Own(c, conn[c]) /\ conn[c].pc \in {"check", "spawn"}
    BY HandlerHolds DEF SendLogin, StartGame, At
  <1>2. /\ q \in ConnStates /\ q.pc = "relay" /\ q.sid = conn[c].sid /\ q.left = conn[c].left
        /\ q.denied = conn[c].denied /\ q.named = conn[c].named /\ q.cli = conn[c].cli
    BY <1>1 DEF ConnStates, Relaying
  <1>3. conn' = [conn EXCEPT ![c] = q] /\ UNCHANGED calm
    BY DEF SendLogin, StartGame, calm
  <1> HIDE DEF q
  <1>4. Own(c, q) /\ Steady(conn[c], q) /\ Smooth(conn[c], q)
    BY <1>1, <1>2 DEF Own, Steady, Smooth, Arrived, Ended, Holding
  <1> QED
    BY <1>1, <1>2, <1>3, <1>4, CalmTurn DEF Arrived, Ended

LEMMA TCPDownStep ==
  ASSUME StreamIInv, NEW c \in Ids, TCPDown(c) \/ TCPWriteFails(c)
  PROVE  StreamIInv'
  <1> DEFINE q == [conn[c] EXCEPT !.pc = "leave", !.down = "done"]
  <1>1. conn[c] \in ConnStates /\ Own(c, conn[c]) /\ conn[c].pc = "relay" /\ proto = "tcp"
    BY HandlerHolds DEF TCPDown, TCPWriteFails, At
  <1>2. /\ q \in ConnStates /\ q.pc = "leave" /\ q.sid = conn[c].sid /\ q.left = conn[c].left
        /\ q.denied = conn[c].denied /\ q.named = conn[c].named /\ q.login = conn[c].login
    BY <1>1 DEF ConnStates
  <1>3. conn' = [conn EXCEPT ![c] = q] /\ UNCHANGED calm
    BY DEF TCPDown, TCPWriteFails, calm
  <1> HIDE DEF q
  <1>4. Own(c, q) /\ Steady(conn[c], q) /\ Smooth(conn[c], q)
    BY <1>1, <1>2 DEF Own, Steady, Smooth, Arrived, Ended, Holding
  <1> QED
    BY <1>2, <1>3, <1>4, CalmTurn DEF Ended

LEMMA CloseClientStep ==
  ASSUME StreamIInv, NEW c \in Ids, CloseClient(c)
  PROVE  StreamIInv'
  <1>0. conn[c] \in ConnStates /\ Own(c, conn[c]) /\ conn[c].pc = "close" /\ 0 \in 0 .. MaxConns
    BY HandlerHolds, StreamTypes DEF CloseClient, At
  <1>1. PICK s \in 0 .. MaxConns : s = IF conn[c].left THEN conn[c].sid ELSE 0
    BY <1>0 DEF ConnStates
  <1> DEFINE q == [conn[c] EXCEPT !.pc = "done", !.cli = "closed", !.rem = "none",
                                  !.up = "none", !.down = "none", !.named = FALSE,
                                  !.denied = FALSE, !.login = FALSE, !.sid = s]
  <1>2. /\ q \in ConnStates /\ q.pc = "done" /\ q.sid = s /\ q.left = conn[c].left
        /\ q.denied = FALSE /\ q.login = FALSE
    BY <1>0 DEF ConnStates
  <1>3. conn' = [conn EXCEPT ![c] = q] /\ UNCHANGED calm
    BY <1>1 DEF CloseClient, calm
  <1> HIDE DEF q
  <1>4. Own(c, q) /\ Steady(conn[c], q) /\ Smooth(conn[c], q)
    BY <1>0, <1>1, <1>2 DEF Own, Steady, Smooth, Arrived, Ended, Holding
  <1> QED
    BY <1>2, <1>3, <1>4, CalmTurn DEF Ended

-----------------------------------------------------------------------------
(* The steps that change a table.                                          *)

LEMMA RegisterStep ==
  ASSUME StreamIInv, NEW c \in Ids, Register(c)
  PROVE  StreamIInv'
  <1> DEFINE q == [conn[c] EXCEPT !.pc = "hello"]
  <1>1. conn[c] \in ConnStates /\ Own(c, conn[c]) /\ conn[c].pc = "start"
    BY HandlerHolds DEF Register, At
  <1>2. /\ q \in ConnStates /\ q.pc = "hello" /\ q.sid = conn[c].sid /\ q.left = conn[c].left
        /\ q.denied = conn[c].denied /\ q.named = conn[c].named /\ q.login = conn[c].login
        /\ q.cli = conn[c].cli
    BY <1>1 DEF ConnStates
  <1>3. /\ conn' = [conn EXCEPT ![c] = q]
        /\ active' = (active \ SameEntry(c)) \cup {c}
        /\ UNCHANGED <<load, sessTab, players, ctxDone, socket, listen, halt, kicks, pong>>
    BY DEF Register
  <1> HIDE DEF q
  <1>4. Own(c, q) /\ Steady(conn[c], q) /\ Smooth(conn[c], q)
    BY <1>1, <1>2 DEF Own, Steady, Smooth, Arrived, Ended, Holding
  <1>5. StreamTypeOK'
    BY <1>2, <1>3, CalmType DEF StreamIInv, StreamTypeOK
  <1>6. Witnessed'
    BY <1>2, <1>3, <1>4, WitnessStays
  <1>7. conn'[c].pc = "hello"
    BY <1>2, <1>3, StreamTypes
  <1>8. \A d \in active \ active' : proto = "raknet" => d # c /\ Rival(d)'
    BY <1>3, <1>7, StreamTypes DEF SameEntry, Rival, addr, Arrived
  <1>9. \A d \in Ids : sessTab'[addr(d)] = sessTab[addr(d)]
    BY <1>3
  <1> QED
    BY <1>2, <1>3, <1>4, <1>5, <1>6, <1>8, <1>9, Turn DEF Smooth

LEMMA UnregisterStep ==
  ASSUME StreamIInv, NEW c \in Ids, Unregister(c)
  PROVE  StreamIInv'
  <1> DEFINE q == [conn[c] EXCEPT !.pc = "close", !.rem = IF @ = "none" THEN @ ELSE "closed"]
  <1>1. conn[c] \in ConnStates /\ Own(c, conn[c]) /\ conn[c].pc = "leave"
    BY HandlerHolds DEF Unregister, At
  <1>2. /\ q \in ConnStates /\ q.pc = "close" /\ q.sid = conn[c].sid /\ q.left = conn[c].left
        /\ q.denied = conn[c].denied /\ q.named = conn[c].named /\ q.login = conn[c].login
        /\ q.cli = conn[c].cli
    BY <1>1 DEF ConnStates
  <1>3. /\ conn' = [conn EXCEPT ![c] = q] /\ active' = active \ SameEntry(c)
        /\ UNCHANGED <<load, sessTab, players, ctxDone, socket, listen, halt, kicks, pong>>
    BY DEF Unregister
  <1> HIDE DEF q
  <1>4. Own(c, q) /\ Steady(conn[c], q) /\ Smooth(conn[c], q)
    BY <1>1, <1>2 DEF Own, Steady, Smooth, Arrived, Ended, Holding
  <1>5. StreamTypeOK'
    BY <1>2, <1>3, CalmType DEF StreamIInv, StreamTypeOK
  <1>6. Witnessed'
    BY <1>2, <1>3, <1>4, WitnessStays
  <1>7. conn'[c].pc = "close"
    BY <1>2, <1>3, StreamTypes
  <1>8. \A d \in active \ active' : (proto = "raknet" /\ d # c) => Rival(d)'
    BY <1>3, <1>7, StreamTypes DEF SameEntry, Rival, addr, Arrived
  <1>9. q.pc \in Ended
    BY <1>2 DEF Ended
  <1> QED
    BY <1>2, <1>3, <1>4, <1>5, <1>6, <1>8, <1>9, Turn DEF Smooth

LEMMA SessionTypes ==
  ASSUME StreamIInv, NEW c \in Ids
  PROVE  /\ SessionOf(c) \in Ids /\ SessionOf(c) # 0 /\ SessionOf(c) \in 0 .. MaxConns
         /\ addr(SessionOf(c)) = addr(c)
         /\ sessTab[addr(c)] # 0 => SessionOf(c) = sessTab[addr(c)]
  BY StreamTypes DEF SessionOf, StreamIInv, Witnessed

\* GetOrCreate: the handler gets a session, which is in the table then.
LEMMA SessionMade ==
  ASSUME StreamIInv, NEW c \in Ids, NEW q \in ConnStates, conn' = [conn EXCEPT ![c] = q],
         sessTab' = [sessTab EXCEPT ![addr(c)] = SessionOf(c)],
         UNCHANGED <<load, active, ctxDone, socket, listen, halt, kicks, pong>>,
         players' \subseteq Ids, conn[c].pc \in {"hello", "session"},
         Own(c, q), Steady(conn[c], q), q.sid = SessionOf(c), q.pc \in Holding
  PROVE  StreamIInv'
  <1>1. sessTab' \in [Addrs -> 0 .. MaxConns]
        /\ \A a \in Addrs : sessTab'[a] = IF a = addr(c) THEN SessionOf(c) ELSE sessTab[a]
    BY SessionTypes, StreamTypes
  <1>2. StreamTypeOK'
    BY <1>1, CalmType DEF StreamIInv, StreamTypeOK
  <1>3. conn[c].sid = 0
    BY HandlerHolds DEF Own, Holding, Ended
  <1>4. Witnessed'
    <2> SUFFICES ASSUME NEW a \in Addrs, sessTab'[a] # 0
                 PROVE  /\ addr(sessTab'[a]) = a
                        /\ \E d \in Ids : /\ conn'[d].sid = sessTab'[a]
                                          /\ conn'[d].left \/ conn'[d].pc \in Holding
      BY DEF Witnessed, addr
    <2>1. CASE a = addr(c)
      BY <1>1, <2>1, SessionTypes, StreamTypes
    <2>2. CASE a # addr(c)
      <3>1. PICK d \in Ids : conn[d].sid = sessTab[a]
                             /\ (conn[d].left \/ conn[d].pc \in Holding)
        BY <1>1, <2>2 DEF StreamIInv, Witnessed
      <3>2. d # c /\ conn'[d] = conn[d]
        BY <1>1, <1>3, <2>2, <3>1, StreamTypes
      <3> QED
        BY <1>1, <2>2, <3>1, <3>2 DEF StreamIInv, Witnessed
    <2> QED
      BY <2>1, <2>2
  <1>5. \A d \in Ids : (conn[d].sid # 0 /\ sessTab[addr(d)] = conn[d].sid) =>
          sessTab'[addr(d)] = conn[d].sid
    BY <1>1, SessionTypes, StreamTypes
  <1>6. sessTab'[addr(c)] = q.sid
    BY <1>1, StreamTypes
  <1>7. conn[c].pc \notin Arrived \cup Ended
    BY DEF Arrived, Ended
  <1>8. active' = active
    OBVIOUS
  <1> QED
    BY <1>2, <1>4, <1>5, <1>6, <1>7, <1>8, Turn

LEMMA HelloMakesSession ==
  ASSUME StreamIInv, NEW c \in Ids, RakNetHello(c) \/ CreateSession(c)
  PROVE  StreamIInv'
  <1>0. /\ conn[c] \in ConnStates /\ Own(c, conn[c]) /\ SessionOf(c) \in 0 .. MaxConns
        /\ addr(SessionOf(c)) = addr(c) /\ SessionOf(c) # 0
    BY HandlerHolds, SessionTypes
  <1>1. PICK p \in {"dial", "check"} :
          /\ conn' = [conn EXCEPT ![c] = [conn[c] EXCEPT !.pc = p, !.sid = SessionOf(c)]]
          /\ p = "dial" => proto = "raknet" /\ conn[c].pc = "hello"
          /\ p = "check" => conn[c].pc = "session"
    <2>1. CASE RakNetHello(c)
      BY <2>1 DEF RakNetHello, At
    <2>2. CASE CreateSession(c)
      <3>1. [conn[c] EXCEPT !.sid = SessionOf(c), !.pc = "check"] =
              [conn[c] EXCEPT !.pc = "check", !.sid = SessionOf(c)]
        BY <1>0 DEF ConnStates
      <3> QED
        BY <2>2, <3>1 DEF CreateSession, At
    <2> QED
      BY <2>1, <2>2
  <1> DEFINE q == [conn[c] EXCEPT !.pc = p, !.sid = SessionOf(c)]
  <1>2. /\ q \in ConnStates /\ q.pc = p /\ q.sid = SessionOf(c) /\ q.left = conn[c].left
        /\ q.denied = conn[c].denied /\ q.named = conn[c].named /\ q.login = conn[c].login
        /\ q.cli = conn[c].cli
    BY <1>0 DEF ConnStates
  <1>3. conn' = [conn EXCEPT ![c] = q]
    BY <1>1
  <1> HIDE DEF q
  <1>4. /\ sessTab' = [sessTab EXCEPT ![addr(c)] = SessionOf(c)]
        /\ UNCHANGED <<load, active, ctxDone, socket, listen, halt, kicks, pong>>
        /\ players' \subseteq Ids
    <2>1. players' \in {players, players \cup {s \in {SessionOf(c)} : conn[c].named}}
      BY DEF RakNetHello, CreateSession
    <2>2. players' \subseteq Ids
      BY <2>1, SessionTypes DEF StreamIInv, StreamTypeOK
    <2> QED
      BY <2>2 DEF RakNetHello, CreateSession
  <1>5. Own(c, q) /\ Steady(conn[c], q)
    BY <1>0, <1>1, <1>2 DEF Own, Steady, Arrived, Ended, Holding
  <1> QED
    BY <1>1, <1>2, <1>3, <1>4, <1>5, SessionMade DEF Holding

LEMMA MITMHelloStep ==
  ASSUME StreamIInv, NEW c \in Ids, MITMHello(c)
  PROVE  StreamIInv'
  <1>0. /\ conn[c] \in ConnStates /\ Own(c, conn[c]) /\ SessionOf(c) \in 0 .. MaxConns
        /\ addr(SessionOf(c)) = addr(c) /\ conn[c].pc = "hello" /\ proto = "mitm"
        /\ SessionOf(c) \in Ids
    BY HandlerHolds, SessionTypes DEF MITMHello, At
  <1> DEFINE q == [conn[c] EXCEPT !.pc = "dial", !.named = TRUE, !.sid = SessionOf(c)]
             x == [conn[c] EXCEPT !.pc = "leave", !.named = TRUE, !.denied = TRUE]
  <1>1. /\ q \in ConnStates /\ q.pc = "dial" /\ q.sid = SessionOf(c) /\ q.left = conn[c].left
        /\ q.denied = conn[c].denied /\ q.login = conn[c].login /\ q.named = TRUE
    BY <1>0 DEF ConnStates
  <1>2. /\ x \in ConnStates /\ x.pc = "leave" /\ x.sid = conn[c].sid /\ x.left = conn[c].left
        /\ x.login = conn[c].login /\ x.named = TRUE
    BY <1>0 DEF ConnStates
  <1>3. \/ /\ conn' = [conn EXCEPT ![c] = q]
           /\ sessTab' = [sessTab EXCEPT ![addr(c)] = SessionOf(c)]
           /\ players' = players \cup {SessionOf(c)}
        \/ /\ conn' = [conn EXCEPT ![c] = x]
           /\ UNCHANGED <<sessTab, players>>
    BY DEF MITMHello
  <1>4. UNCHANGED <<load, active, ctxDone, socket, listen, halt, kicks, pong>>
    BY DEF MITMHello
  <1> HIDE DEF q, x
  <1>5. CASE /\ conn' = [conn EXCEPT ![c] = q]
             /\ sessTab' = [sessTab EXCEPT ![addr(c)] = SessionOf(c)]
             /\ players' = players \cup {SessionOf(c)}
    <2>1. Own(c, q) /\ Steady(conn[c], q)
      BY <1>0, <1>1 DEF Own, Steady, Arrived, Ended, Holding
    <2>2. players' \subseteq Ids
      BY <1>0, <1>5 DEF StreamIInv, StreamTypeOK
    <2> QED
      BY <1>0, <1>1, <1>4, <1>5, <2>1, <2>2, SessionMade DEF Holding
  <1>6. CASE conn' = [conn EXCEPT ![c] = x] /\ UNCHANGED <<sessTab, players>>
    <2>1. Own(c, x) /\ Steady(conn[c], x) /\ Smooth(conn[c], x)
      BY <1>0, <1>2 DEF Own, Steady, Smooth, Arrived, Ended, Holding
    <2> QED
      BY <1>2, <1>4, <1>6, <2>1, CalmTurn DEF calm, Ended
  <1> QED
    BY <1>3, <1>5, <1>6

\* RemoveByXUID: the other sessions of a player who logs in once more.
LEMMA GreetStep ==
  ASSUME StreamIInv, NEW c \in Ids, Greet(c)
  PROVE  StreamIInv'
  <1>0. /\ conn[c] \in ConnStates /\ Own(c, conn[c]) /\ conn[c].pc = "greet"
        /\ proto = "passthrough"
    BY HandlerHolds DEF Greet, At, Own
  <1>1. PICK named \in {ParseLogin(l) # "" : l \in Logins} :
          /\ conn' = [conn EXCEPT ![c] = [conn[c] EXCEPT !.pc = "session", !.named = named]]
          /\ sessTab' = [a \in Addrs |-> IF named /\ sessTab[a] \in players THEN 0
                                         ELSE sessTab[a]]
    BY DEF Greet
  <1>2. named \in BOOLEAN
    BY <1>1
  <1> DEFINE q == [conn[c] EXCEPT !.pc = "session", !.named = named]
  <1>3. /\ q \in ConnStates /\ q.pc = "session" /\ q.sid = conn[c].sid /\ q.left = conn[c].left
        /\ q.denied = conn[c].denied /\ q.named = named /\ q.login = conn[c].login
        /\ q.cli = conn[c].cli
    BY <1>0, <1>2 DEF ConnStates
  <1>4. conn' = [conn EXCEPT ![c] = q]
    BY <1>1
  <1>5. UNCHANGED <<load, active, players, ctxDone, socket, listen, halt, kicks, pong>>
    BY DEF Greet
  <1> HIDE DEF q
  <1>6. /\ sessTab' \in [Addrs -> 0 .. MaxConns]
        /\ \A a \in Addrs : /\ sessTab'[a] \in {0, sessTab[a]}
                            /\ ~named => sessTab'[a] = sessTab[a]
    BY <1>1, StreamTypes
  <1>7. Own(c, q) /\ Smooth(conn[c], q)
    BY <1>0, <1>3 DEF Own, Smooth, Arrived, Ended, Holding
  <1>8. CASE conn[c].named => named
    <2>1. Steady(conn[c], q)
      BY <1>0, <1>3, <1>8 DEF Steady, Arrived, Ended
    <2>2. StreamTypeOK'
      BY <1>3, <1>4, <1>5, <1>6, CalmType DEF StreamIInv, StreamTypeOK
    <2>3. Witnessed'
      BY <1>3, <1>4, <1>5, <1>6, <1>7, WitnessStays
    <2>4. named => \A d \in Ids \ {c} : Excused(d)'
      BY <1>0, <1>3, <1>4, <1>5, StreamTypes DEF Excused, proto
    <2>5. \A d \in Ids : (conn[d].sid # 0 /\ conn[d].pc \in Holding
                          /\ sessTab[addr(d)] = conn[d].sid) =>
            \/ sessTab'[addr(d)] = conn[d].sid
            \/ Excused(d)'
            \/ d = c /\ q.pc \notin Holding
      BY <1>3, <1>6, <2>4, StreamTypes DEF Holding
    <2>6. conn[c].pc \notin Arrived \cup Ended /\ q.pc \notin Holding /\ active' = active
      BY <1>0, <1>3, <1>5 DEF Arrived, Ended, Holding
    <2> QED
      BY <1>3, <1>4, <1>5, <1>7, <2>1, <2>2, <2>3, <2>5, <2>6, Turn
  <1>9. ~conn[c].named
    BY <1>0 DEF Own
  <1> QED
    BY <1>8, <1>9

\* A handler that removes the session of its address and leaves.
LEMMA RemoveStep ==
  ASSUME StreamIInv, NEW c \in Ids, NEW q \in ConnStates, conn' = [conn EXCEPT ![c] = q],
         Remove(addr(c)), q.pc = "leave", conn[c].pc \in Holding,
         Own(c, q), Steady(conn[c], q),
         UNCHANGED <<load, active, players, ctxDone, socket, listen, halt, kicks, pong>>
  PROVE  StreamIInv'
  <1>1. /\ sessTab' \in [Addrs -> 0 .. MaxConns]
        /\ \A a \in Addrs : sessTab'[a] = IF a = addr(c) THEN 0 ELSE sessTab[a]
    BY StreamTypes DEF Remove
  <1>2. StreamTypeOK'
    BY <1>1, CalmType DEF StreamIInv, StreamTypeOK
  <1>3. Witnessed'
    BY <1>1, WitnessStays, StreamTypes
  <1>4. \A d \in Ids \ {c} : addr(d) = addr(c) => Excused(d)'
    BY StreamTypes DEF Excused, addr, Ended
  <1>5. \A d \in Ids : (conn[d].sid # 0 /\ conn[d].pc \in Holding
                        /\ sessTab[addr(d)] = conn[d].sid) =>
          \/ sessTab'[addr(d)] = conn[d].sid
          \/ Excused(d)'
          \/ d = c /\ q.pc \notin Holding
    BY <1>1, <1>4, StreamTypes DEF Holding
  <1>6. q.pc \in Ended /\ q.pc \notin Holding
    BY DEF Ended, Holding
  <1> QED
    BY <1>2, <1>3, <1>5, <1>6, Turn

LEMMA RefuseStep ==
  ASSUME StreamIInv, NEW c \in Ids, Refuse(c)
  PROVE  StreamIInv'
  <1> DEFINE q == [conn[c] EXCEPT !.pc = "leave", !.denied = TRUE]
  <1>1. conn[c] \in ConnStates /\ Own(c, conn[c]) /\ conn[c].pc = "check"
    BY HandlerHolds DEF Refuse, At
  <1>2. /\ q \in ConnStates /\ q.pc = "leave" /\ q.sid = conn[c].sid /\ q.left = conn[c].left
        /\ q.named = conn[c].named /\ q.login = conn[c].login /\ q.cli = conn[c].cli
    BY <1>1 DEF ConnStates
  <1>3. /\ conn' = [conn EXCEPT ![c] = q] /\ Remove(addr(c))
        /\ UNCHANGED <<load, active, players, ctxDone, socket, listen, halt, kicks, pong>>
    BY DEF Refuse
  <1> HIDE DEF q
  <1>4. Own(c, q) /\ Steady(conn[c], q)
    BY <1>1, <1>2 DEF Own, Steady, Arrived, Ended, Holding
  <1> QED
    BY <1>1, <1>2, <1>3, <1>4, RemoveStep DEF Holding

LEMMA RelayEndsStep ==
  ASSUME StreamIInv, NEW c \in Ids, RelayEnds(c)
  PROVE  StreamIInv'
  <1>0. conn[c] \in ConnStates /\ Own(c, conn[c]) /\ conn[c].pc = "relay"
        /\ UNCHANGED <<load, active, players, ctxDone, socket, listen, halt, kicks, pong>>
    BY HandlerHolds DEF RelayEnds, At
  <1>1. CASE proto = "mitm"
    BY <1>0, <1>1, LeaveSessionStep DEF RelayEnds, Holding, calm
  <1>2. CASE proto # "mitm"
    <2> DEFINE q == [conn[c] EXCEPT !.pc = "leave"]
    <2>1. /\ q \in ConnStates /\ q.pc = "leave" /\ q.sid = conn[c].sid /\ q.left = conn[c].left
          /\ q.named = conn[c].named /\ q.login = conn[c].login /\ q.cli = conn[c].cli
          /\ q.denied = conn[c].denied
      BY <1>0 DEF ConnStates
    <2>2. conn' = [conn EXCEPT ![c] = q] /\ Remove(addr(c))
      BY <1>2 DEF RelayEnds, Leave
    <2> HIDE DEF q
    <2>3. Own(c, q) /\ Steady(conn[c], q)
      BY <1>0, <2>1 DEF Own, Steady, Arrived, Ended, Holding
    <2> QED
      BY <1>0, <2>1, <2>2, <2>3, RemoveStep DEF Holding
  <1> QED
    BY <1>1, <1>2

-----------------------------------------------------------------------------
(* The steps of nobody's handler, or of all of them.                       *)

\* Every connection keeps its place and its session; some are closed, and one may be
\* refused by the RakNet proxy.
LEMMA AllMove ==
  ASSUME StreamIInv, StreamTypeOK', load' = load, sessTab' = sessTab,
         proto = "raknet" => active' = active,
         \A d \in Ids :
           /\ conn'[d].pc = conn[d].pc /\ conn'[d].sid = conn[d].sid
           /\ conn'[d].left = conn[d].left /\ conn'[d].login = conn[d].login
           /\ conn'[d].named = conn[d].named /\ conn'[d].cli \in {conn[d].cli, "closed"}
           /\ \/ conn'[d].denied = conn[d].denied
              \/ /\ proto = "raknet" /\ conn[d].pc = "relay"
                 /\ conn'[d].cli = "closed" \/ Rival(d)
  PROVE  StreamIInv'
  <1>1. \A d \in Ids : /\ Rival(d)' <=> Rival(d)
                       /\ Excused(d)' <=> Excused(d)
    BY DEF Rival, Excused, addr, proto, At
  <1>2. \A d \in Ids : Own(d, conn[d]) /\ Among(d, conn[d])
    BY DEF StreamIInv, AllHold
  <1>3. \A d \in Ids : Own(d, conn[d])'
    BY <1>2 DEF Own, proto, addr, Arrived
  <1>4. ASSUME NEW d \in Ids PROVE Among(d, conn[d])'
    <2>0. proto' = proto /\ addr(d)' = addr(d)
      BY DEF proto, addr
    <2> QED
      BY <1>1, <1>2, <2>0 DEF Among
  <1>5. Witnessed'
    BY DEF StreamIInv, Witnessed, addr
  <1> QED
    BY <1>3, <1>4, <1>5 DEF StreamIInv, AllHold

LEMMA IdentifyStep ==
  ASSUME StreamIInv, NEW c \in Ids, Identify(c)
  PROVE  StreamIInv'
  <1>0. /\ conn[c] \in ConnStates /\ Among(c, conn[c]) /\ conn[c].pc = "relay"
        /\ proto = "raknet"
        /\ UNCHANGED <<load, active, sessTab, ctxDone, socket, listen, halt, kicks, pong>>
    BY HandlerHolds DEF Identify, At
  <1>1. players' \subseteq Ids
    <2>1. conn[c].sid \in 0 .. MaxConns /\ players' = players \cup {conn[c].sid}
      BY <1>0 DEF Identify, ConnStates
    <2>2. conn[c].sid # 0
      BY <1>0, HandlerHolds DEF Own
    <2> QED
      BY <2>1, <2>2, StreamTypes DEF StreamIInv, StreamTypeOK
  <1>2. CASE UNCHANGED conn
    <2>1. StreamTypeOK'
      BY <1>0, <1>1, <1>2 DEF StreamIInv, StreamTypeOK
    <2> QED
      BY <1>0, <1>2, <2>1, AllMove
  <1>3. CASE conn' = [d \in Ids |->
                        [conn[d] EXCEPT !.denied = @ \/ d = c,
                                        !.cli = IF d \in active \cap SameEntry(c)
                                                  THEN "closed" ELSE @]]
    <2>1. ASSUME NEW d \in Ids
          PROVE  /\ conn'[d] \in ConnStates
                 /\ conn'[d].pc = conn[d].pc /\ conn'[d].sid = conn[d].sid
                 /\ conn'[d].left = conn[d].left /\ conn'[d].login = conn[d].login
                 /\ conn'[d].named = conn[d].named
                 /\ conn'[d].cli = IF d \in active \cap SameEntry(c) THEN "closed"
                                   ELSE conn[d].cli
                 /\ d # c => conn'[d].denied = conn[d].denied
      <3>1. conn[d] \in ConnStates
        BY StreamTypes
      <3>2. PICK b \in BOOLEAN : b = (conn[d].denied \/ d = c)
        BY <3>1 DEF ConnStates
      <3>3. d # c => b = conn[d].denied
        BY <3>1, <3>2 DEF ConnStates
      <3>4. PICK x \in {"none", "open", "closed"} :
              x = IF d \in active \cap SameEntry(c) THEN "closed" ELSE conn[d].cli
        BY <3>1 DEF ConnStates
      <3>5. conn'[d] = [conn[d] EXCEPT !.denied = b, !.cli = x]
        BY <1>3, <3>2, <3>4
      <3> QED
        BY <3>1, <3>3, <3>4, <3>5 DEF ConnStates
    <2>2. conn' \in [Ids -> ConnStates]
      BY <1>3, <2>1
    <2>3. StreamTypeOK'
      BY <1>0, <1>1, <2>2 DEF StreamIInv, StreamTypeOK
    <2>4. c \in active \cap SameEntry(c) \/ Rival(c)
      BY <1>0 DEF Among, SameEntry, Arrived, Ended
    <2> QED
      BY <1>0, <2>1, <2>3, <2>4, AllMove
  <1> QED
    BY <1>2, <1>3 DEF Identify

LEMMA StopClosesStep ==
  ASSUME StreamIInv, StopCloses
  PROVE  StreamIInv'
  <1>0. /\ UNCHANGED <<load, sessTab, players, ctxDone, listen, kicks, pong>>
        /\ halt' = "wait" /\ socket' = FALSE
        /\ proto = "raknet" => UNCHANGED <<conn, active>>
    BY DEF StopCloses
  <1>1. ASSUME NEW d \in Ids
        PROVE  /\ conn'[d] \in ConnStates
               /\ conn'[d].pc = conn[d].pc /\ conn'[d].sid = conn[d].sid
               /\ conn'[d].left = conn[d].left /\ conn'[d].login = conn[d].login
               /\ conn'[d].named = conn[d].named /\ conn'[d].cli \in {conn[d].cli, "closed"}
               /\ conn'[d].denied = conn[d].denied
    <2>1. conn[d] \in ConnStates
      BY StreamTypes
    <2>2. conn'[d] \in {conn[d], [conn[d] EXCEPT !.cli = "closed"]}
      BY DEF StopCloses
    <2> QED
      BY <2>1, <2>2 DEF ConnStates
  <1>2. conn' \in [Ids -> ConnStates] /\ active' \subseteq Ids
    BY <1>1, StreamTypes DEF StopCloses
  <1>3. StreamTypeOK'
    BY <1>0, <1>2 DEF StreamIInv, StreamTypeOK
  <1> QED
    BY <1>0, <1>1, <1>3, AllMove

\* The accept loop, the pong, KickPlayer's collection, Stop.
LEMMA AroundStep ==
  ASSUME StreamIInv,
         \/ ListenEnds \/ PongTick \/ PongFetched \/ PongEnds
         \/ KickCollect \/ CancelContext \/ StopBegins \/ StreamStopReturns
  PROVE  StreamIInv'
  <1>0. UNCHANGED <<load, conn, active, sessTab, players>>
    BY DEF ListenEnds, PongTick, PongFetched, PongEnds, KickCollect, CancelContext, StopBegins,
      StreamStopReturns
  <1>1. StreamTypeOK'
    <2>1. /\ halt \in {"no", "close", "wait", "done"} /\ ctxDone \in BOOLEAN
          /\ socket \in BOOLEAN /\ listen \in BOOLEAN
          /\ kicks \in [todo : SUBSET Ids, calls : 0 .. load.kicks]
          /\ pong \in [pc : {"off", "wait", "fetch"}, fails : 0 .. MaxFails]
          /\ MaxFails \in Nat \ {0}
      BY StreamConstants DEF StreamIInv, StreamTypeOK
    <2>2. CASE ListenEnds \/ CancelContext \/ StopBegins \/ StreamStopReturns
      BY <1>0, <2>1, <2>2 DEF StreamIInv, StreamTypeOK, ListenEnds, CancelContext, StopBegins,
        StreamStopReturns
    <2>3. CASE PongTick \/ PongFetched \/ PongEnds
      <3>1. pong' \in [pc : {"off", "wait", "fetch"}, fails : 0 .. MaxFails]
        <4>1. CASE PongTick \/ PongEnds
          BY <2>1, <4>1 DEF PongTick, PongEnds
        <4>2. CASE PongFetched
          <5>1. PICK n \in 0 .. MaxFails : pong' = [pc |-> "wait", fails |-> n]
            BY <2>1, <4>2 DEF PongFetched
          <5> QED
            BY <5>1
        <4> QED
          BY <2>3, <4>1, <4>2
      <3>2. UNCHANGED <<ctxDone, socket, listen, halt, kicks>>
        BY <2>3 DEF PongTick, PongFetched, PongEnds
      <3> QED
        BY <1>0, <3>1, <3>2 DEF StreamIInv, StreamTypeOK
    <2>4. CASE KickCollect
      <3>1. kicks' \in [todo : SUBSET Ids, calls : 0 .. load.kicks]
        BY <2>1, <2>4, StreamTypes DEF KickCollect
      <3>2. UNCHANGED <<ctxDone, socket, listen, halt, pong>>
        BY <2>4 DEF KickCollect
      <3> QED
        BY <1>0, <3>1, <3>2 DEF StreamIInv, StreamTypeOK
    <2> QED
      BY <2>2, <2>3, <2>4
  <1> QED
    BY <1>0, <1>1, AllMove

LEMMA StreamInits == StreamInit => StreamIInv
  <1> SUFFICES ASSUME StreamInit PROVE StreamIInv
    OBVIOUS
  <1>0. MaxConns \in Nat \ {0} /\ MaxFails \in Nat \ {0} /\ load \in StreamLoads
        /\ load.kicks \in Nat
    BY StreamConstants DEF StreamInit
  <1>1. /\ conn \in [Ids -> ConnStates]
        /\ \A c \in Ids : /\ conn[c].pc = "none" /\ conn[c].sid = 0 /\ ~conn[c].denied
                          /\ ~conn[c].login /\ ~conn[c].left /\ ~conn[c].named
    BY <1>0 DEF StreamInit, ConnStates
  <1>2. StreamTypeOK
    <2>1. pong \in [pc : {"off", "wait", "fetch"}, fails : 0 .. MaxFails]
      BY <1>0 DEF StreamInit
    <2>2. kicks \in [todo : SUBSET Ids, calls : 0 .. load.kicks]
      BY <1>0 DEF StreamInit
    <2>3. /\ {ctxDone, socket, listen} \subseteq BOOLEAN
          /\ halt \in {"no", "close", "wait", "done"} /\ active \subseteq Ids
          /\ players \subseteq Ids
      BY DEF StreamInit
    <2>4. sessTab \in [Addrs -> 0 .. MaxConns]
      BY <1>0 DEF StreamInit
    <2> QED
      BY <1>0, <1>1, <2>1, <2>2, <2>3, <2>4 DEF StreamTypeOK
  <1>3. AllHold
    BY <1>1 DEF AllHold, Own, Among, Arrived, Holding
  <1>4. Witnessed
    BY DEF StreamInit, Witnessed
  <1> QED
    BY <1>2, <1>3, <1>4 DEF StreamIInv

LEMMA StreamStep ==
  ASSUME StreamIInv, [StreamNext]_streamVars
  PROVE  StreamIInv'
  <1>1. CASE UNCHANGED streamVars
    <2>1. StreamTypeOK'
      BY <1>1 DEF StreamIInv, StreamTypeOK, streamVars
    <2> QED
      BY <1>1, <2>1, AllMove DEF streamVars
  <1>2. ASSUME NEW c \in Ids, HandlerStep(c)
        PROVE  StreamIInv'
    <2>1. CASE LoopNotices(c)
      BY <2>1, PeerStep DEF LoopNotices
    <2> QED
      BY <1>2, <2>1, SpawnStep, RegisterStep, HelloMakesSession, MITMHelloStep, DialStep,
        FailsStep, GreetStep, RefuseStep, LoginStep, RelayEndsStep, PeerStep, TCPDownStep,
        UnregisterStep, CloseClientStep
        DEF HandlerStep
  <1>3. ASSUME NEW c \in Ids,
               \/ Accept(c) \/ NotTaken(c) \/ LoopGivesUp(c) \/ Identify(c) \/ TCPWriteFails(c)
               \/ ClientLeaves(c) \/ TargetLeaves(c) \/ KickClose(c)
        PROVE  StreamIInv'
    <2>1. CASE LoopGivesUp(c)
      BY <2>1, PeerStep DEF LoopGivesUp
    <2> QED
      BY <1>3, <2>1, AcceptStep, NotTakenStep, IdentifyStep, TCPDownStep, PeerStep
  <1>4. CASE \/ ListenEnds \/ PongTick \/ PongFetched \/ PongEnds
             \/ KickCollect \/ CancelContext \/ StopBegins \/ StreamStopReturns
    BY <1>4, AroundStep
  <1> QED
    BY <1>1, <1>2, <1>3, <1>4, StopClosesStep DEF StreamNext

\* Whatever the connections of a listener do, from whatever addresses (handleConnection,
\* handleConn, KickPlayer, Stop): a refused player gets no Login through, a session in the
\* table has a handler that will remove it or one that left it to the collector, and a
\* player who plays is listed, but for the crossings PlayerListed names.
THEOREM StreamHolds == StreamSpec => []StreamInv
  <1>1. StreamInit => StreamIInv
    BY StreamInits
  <1>2. StreamIInv /\ [StreamNext]_streamVars => StreamIInv'
    BY StreamStep
  <1>3. StreamIInv => StreamInv
    BY StreamInvHolds
  <1> QED
    BY <1>1, <1>2, <1>3, PTL DEF StreamSpec
=============================================================================
