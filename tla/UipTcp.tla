-------------------------------- MODULE UipTcp --------------------------------
(***************************************************************************)
(* The TCP part of uip_process with the HTTP server as its application,    *)
(* clients, and a network that loses, duplicates and reorders segments.    *)
(*                                                                         *)
(* uip_process runs to its end for one segment (uip_input) or for one tick *)
(* of the periodic timer of one connection (uip_periodic), so each case of *)
(* it is one action; server_task_impl is its application call.  Sequence   *)
(* numbers count from the initial number of their connection; gen tells    *)
(* connections, that is their initial numbers (iss), apart.  The countdown *)
(* of a timer is left out: a running timer may expire at any tick.         *)
(***************************************************************************)
EXTENDS WiServer

CONSTANTS
    Slot,             \* indices of uip_conns, UIP_CONNS of them
    Client,           \* client ports: each connects once
    NoClient,
    RequestOf,        \* the URL each client asks for
    Pages,            \* the lengths all pages may have at a moment
    MssOptions,       \* MSS option of a SYN, 0 for none
    Windows,          \* windows a client may advertise
    UIP_TCP_MSS, UIP_MAXRTX, UIP_MAXSYNRTX,
    Leaves,           \* the ways a client may leave early
    Capacity,         \* segments under way to, or from, one client
    MaxOpened         \* bound: connections accepted

ASSUME UipAssumption ==
    /\ RequestOf \in [Client -> URL]
    /\ Blank \notin URL
    /\ Pages \subseteq [URL -> Nat \ {0}]
    /\ NoClient \notin Client
    /\ MssOptions \subseteq Nat /\ Windows \subseteq Nat
    /\ UIP_TCP_MSS \in Nat \ {0}
    /\ UIP_MAXRTX \in Nat /\ UIP_MAXSYNRTX \in Nat
    /\ Leaves \subseteq {"RST", "FIN", "gone"}
    /\ Capacity \in Nat /\ MaxOpened \in Nat

VARIABLES
    conns,                 \* uip_conns
    get_string_global,     \* the URL buffer, one for all connections
    opened,                \* connections accepted so far: stands for iss
    client,                \* the clients' side
    toServer, toClient,    \* segments under way
    changed                \* history: window or page changed under sent data

serverVars == <<conns, get_string_global, opened, changed>>
vars == <<serverVars, client, toServer, toClient>>

Closed == [st |-> "CLOSED", peer |-> NoClient, gen |-> 0, snd |-> 0, rcv |-> 0, len |-> 0,
           nrtx |-> 0, initialmss |-> 0, mss |-> 0, app |-> NewAppstate]

NewClient == [st |-> "idle", gen |-> 0, nxt |-> 0, una |-> 0, snt |-> 0, eof |-> FALSE, got |-> <<>>]

Init ==
    /\ conns = [c \in Slot |-> Closed]
    /\ get_string_global \in URL
    /\ opened = 0
    /\ client = [p \in Client |-> NewClient]
    /\ toServer = {} /\ toClient = {}
    /\ changed = [p \in Client |-> FALSE]

-----------------------------------------------------------------------------
(* What uip_process does with a connection k; an outcome is the connection *)
(* after it, the URL buffer and the segments to send.                      *)

\* tcp_send: a segment with the numbers of the connection.
Segment(k, flags, data) ==
    [to |-> k.peer, flags |-> flags, gen |-> k.gen, seq |-> k.snd, ack |-> k.rcv, data |-> data]

\* The network (not part of the repository) loses what it has no room for.
SentTo(p, segments) ==
    LET net == toClient \cup segments
    IN  IF Cardinality({g \in net : g.to = p}) > Capacity THEN toClient ELSE net

SentBy(p, segments) ==
    LET net == toServer \cup segments
    IN  IF Cardinality({s \in net : s.from = p}) > Capacity THEN toServer ELSE net

Outcome(k, url, out) == [conn |-> k, url |-> url, out |-> out]

\* UIP_APPCALL().
AppCall(k, flags, lines, page) ==
    server_task_impl(k.app, get_string_global, k.mss, flags, lines, page)

\* UIP_APPCALL() to tell the application of an end; it sends nothing.
Told(k, flag) == AppCall(k, {flag}, <<>>, <<>>).app

\* A byte of the segment that the application did not write.
Junk == <<"junk", 0>>

\* apprexmit: as many bytes as are outstanding, whatever the application wrote.
Payload(k, t) == [i \in 1 .. k.len |-> IF i \in DOMAIN t.data THEN t.data[i] ELSE Junk]

apprexmit(k, t) ==
    Outcome(k, t.url,
            IF t.slen > 0 /\ k.len > 0 THEN {Segment(k, {"ACK"}, Payload(k, t))}
            ELSE IF "NEWDATA" \in t.flags THEN {Segment(k, {"ACK"}, <<>>)}
            ELSE {})

\* appsend, with the call t the application was given.
appsend(k, t) ==
    IF "CLOSE" \in t.flags
    THEN LET fin == [k EXCEPT !.app = t.app, !.len = 1, !.st = "FIN_WAIT_1", !.nrtx = 0]
         IN  Outcome(fin, t.url, {Segment(fin, {"FIN", "ACK"}, <<>>)})
    ELSE apprexmit([k EXCEPT !.app = t.app, !.nrtx = 0,
                             !.len = IF t.slen > 0 /\ @ = 0 THEN Clamp(t.slen, k.mss) ELSE @],
                   t)

\* "we send out an ACK with the correct numbers in".
OutOfSequence(k, s) ==
    (s.lines # <<>> \/ s.flags \cap {"SYN", "FIN"} # {}) /\ s.seq # k.rcv

\* Mutant of Acknowledges: any acknowledgement of something sent counts.
AcknowledgesSome(k, s) ==
    "ACK" \in s.flags /\ k.len > 0 /\ s.gen = k.gen /\ s.ack >= k.snd

\* The segment acknowledges all outstanding data.  The code compares absolute
\* numbers; they differ between connections (gen) as long as the ranges of two
\* connections of one client port do not overlap.
Acknowledges(k, s) ==
    "ACK" \in s.flags /\ k.len > 0 /\ s.gen = k.gen /\ s.ack = k.snd + k.len

\* The connection after the acknowledgement was looked at.
AfterAck(k, s) ==
    IF Acknowledges(k, s) THEN [k EXCEPT !.snd = @ + k.len, !.len = 0] ELSE k

AckFlag(k, s) == IF Acknowledges(k, s) THEN {"ACKDATA"} ELSE {}
DataFlag(s)   == IF s.lines # <<>> THEN {"NEWDATA"} ELSE {}

\* The window becomes the MSS unless it is zero or larger than the initial one.
mssFor(k, s) == IF s.wnd > k.initialmss \/ s.wnd = 0 THEN k.initialmss ELSE s.wnd

-----------------------------------------------------------------------------
(* uip_input.                                                              *)

Live(c) == conns[c].st # "CLOSED"

\* Mutant of SlotOf: only established connections are looked up.
SlotOfEstablished(s) == {c \in Slot : conns[c].st = "ESTABLISHED" /\ conns[c].peer = s.from}

\* "First check any active connections."
SlotOf(s) == {c \in Slot : Live(c) /\ conns[c].peer = s.from}

\* The network hands s over; it may keep a duplicate.
Take(s) == s \in toServer /\ toServer' \in {toServer, toServer \ {s}}

\* Slot c becomes what the outcome says.
Apply(c, o) ==
    /\ conns' = [conns EXCEPT ![c] = o.conn]
    /\ get_string_global' = o.url
    /\ toClient' = SentTo(o.conn.peer, o.out)

Quiet == UNCHANGED <<opened, client, changed>>

\* found_listen: the slot of a new connection is a closed one, or else one in
\* TIME_WAIT (the longest waiting in the code; ages are left out).
FreeSlots ==
    LET closed == {c \in Slot : conns[c].st = "CLOSED"}
    IN  IF closed # {} THEN {c \in closed : \A d \in closed : c <= d}
        ELSE {c \in Slot : conns[c].st = "TIME_WAIT"}

\* A SYN for no connection is accepted.  Without an MSS option the slot keeps
\* the MSS of its last user.
Listen(s, c) ==
    /\ SlotOf(s) = {} /\ s.flags = {"SYN"} /\ c \in FreeSlots
    /\ opened < MaxOpened
    /\ Take(s)
    /\ opened' = opened + 1
    /\ LET mss == IF s.mss = 0 THEN conns[c].initialmss ELSE Clamp(s.mss, UIP_TCP_MSS)
           k == [conns[c] EXCEPT !.st = "SYN_RCVD", !.peer = s.from, !.gen = opened', !.nrtx = 0,
                                 !.snd = 0, !.len = 1, !.rcv = s.seq + 1,
                                 !.initialmss = mss, !.mss = IF s.mss = 0 THEN @ ELSE mss]
       IN  Apply(c, Outcome(k, get_string_global, {Segment(k, {"SYN", "ACK"}, <<>>)}))
    /\ UNCHANGED <<client, changed>>

\* No connection and no room or no SYN: the SYN is dropped, anything else is
\* answered with a reset, except a reset.
NoConnection(s) ==
    /\ SlotOf(s) = {} /\ (s.flags = {"SYN"} => FreeSlots = {})
    /\ Take(s)
    /\ toClient' = SentTo(s.from,
           IF s.flags = {"SYN"} \/ "RST" \in s.flags THEN {}
           ELSE {[to |-> s.from, flags |-> {"RST", "ACK"}, gen |-> s.gen, seq |-> s.ack,
                  ack |-> s.seq + 1, data |-> <<>>]})
    /\ UNCHANGED serverVars /\ UNCHANGED client

\* A segment for connection c in one of the given states.
Found(s, c, states) == c \in SlotOf(s) /\ conns[c].st \in states /\ Take(s)

AnyState == {"SYN_RCVD", "ESTABLISHED", "FIN_WAIT_1", "FIN_WAIT_2", "CLOSING", "TIME_WAIT", "LAST_ACK"}

\* "we just accept any RST and kill our connection"
ResetInput(s, c) ==
    /\ Found(s, c, AnyState) /\ "RST" \in s.flags
    /\ conns' = [conns EXCEPT ![c] = [@ EXCEPT !.st = "CLOSED", !.app = Told(conns[c], "ABORT")]]
    /\ UNCHANGED <<get_string_global, toClient>>
    /\ Quiet

\* A segment out of sequence, or anything in TIME_WAIT, is answered with an ACK.
AckOnly(s, c) ==
    /\ Found(s, c, AnyState) /\ "RST" \notin s.flags
    /\ LET k == conns[c]
       IN  IF OutOfSequence(k, s)
           THEN Apply(c, Outcome(k, get_string_global, {Segment(k, {"ACK"}, <<>>)}))
           ELSE /\ k.st = "TIME_WAIT"
                /\ Apply(c, Outcome(AfterAck(k, s), get_string_global,
                                    {Segment(AfterAck(k, s), {"ACK"}, <<>>)}))
    /\ Quiet

\* In sequence and no reset: what the following cases have in common.
InSequence(s, c, state) ==
    Found(s, c, {state}) /\ "RST" \notin s.flags /\ ~OutOfSequence(conns[c], s)

\* SYN_RCVD: the SYNACK is acknowledged, perhaps with the request.
SynRcvdInput(s, c) ==
    /\ InSequence(s, c, "SYN_RCVD")
    /\ IF ~Acknowledges(conns[c], s)
       THEN UNCHANGED <<conns, get_string_global, toClient>>
       ELSE \E page \in Pages :
              LET k == [AfterAck(conns[c], s) EXCEPT !.st = "ESTABLISHED", !.rcv = @ + Len(s.lines)]
              IN  Apply(c, appsend(k, AppCall(k, {"CONNECTED"} \cup DataFlag(s), s.lines, page)))
    /\ Quiet

\* The window, or the length of the page, is no longer what it was when the
\* outstanding data was sent.
UnderSentData(k, o) == k.len > 0 /\ (o.conn.mss # k.mss \/ o.conn.app.cursor # k.app.cursor)

Remember(k, o) == changed' = [changed EXCEPT ![k.peer] = @ \/ UnderSentData(k, o)]

\* ESTABLISHED, no FIN: data and acknowledgements go to the application.
EstablishedInput(s, c) ==
    /\ InSequence(s, c, "ESTABLISHED") /\ "FIN" \notin s.flags
    /\ \E page \in Pages :
         LET k == [AfterAck(conns[c], s) EXCEPT !.mss = mssFor(conns[c], s), !.rcv = @ + Len(s.lines)]
             flags == AckFlag(conns[c], s) \cup DataFlag(s)
             o == IF flags = {} THEN Outcome(k, get_string_global, {})
                  ELSE appsend(k, AppCall(k, flags, s.lines, page))
         IN  /\ Apply(c, o)
             /\ Remember(AfterAck(conns[c], s), [o EXCEPT !.conn = k])
    /\ UNCHANGED <<opened, client>>

\* ESTABLISHED and a FIN: dropped while data is outstanding; else the
\* application is told and this side closes as well.
EstablishedFin(s, c) ==
    /\ InSequence(s, c, "ESTABLISHED") /\ "FIN" \in s.flags
    /\ LET k == AfterAck(conns[c], s)
       IN  IF k.len > 0 THEN UNCHANGED <<conns, get_string_global, toClient>>
           ELSE \E page \in Pages :
                  LET flags == {"CLOSE"} \cup AckFlag(conns[c], s) \cup DataFlag(s)
                      t == AppCall(k, flags, s.lines, page)
                      l == [k EXCEPT !.rcv = @ + 1 + Len(s.lines), !.len = 1, !.st = "LAST_ACK",
                                     !.nrtx = 0, !.app = t.app]
                  IN  Apply(c, Outcome(l, t.url, {Segment(l, {"FIN", "ACK"}, <<>>)}))
    /\ Quiet

\* The states after this side's FIN: what becomes of the connection.
AfterFin(k, s, acked) ==
    LET fin == "FIN" \in s.flags
    IN  CASE k.st = "LAST_ACK"   -> IF acked THEN "CLOSED" ELSE k.st
          [] k.st = "FIN_WAIT_1" -> IF fin THEN (IF acked THEN "TIME_WAIT" ELSE "CLOSING")
                                    ELSE IF acked THEN "FIN_WAIT_2" ELSE k.st
          [] k.st = "FIN_WAIT_2" -> IF fin THEN "TIME_WAIT" ELSE k.st
          [] k.st = "CLOSING"    -> IF acked THEN "TIME_WAIT" ELSE k.st

\* Data and a FIN of the peer are counted and acknowledged in FIN_WAIT_1 and
\* FIN_WAIT_2 only.  The application is told of a FIN and of the end.
ClosingInput(s, c) ==
    /\ \E state \in {"LAST_ACK", "FIN_WAIT_1", "FIN_WAIT_2", "CLOSING"} : InSequence(s, c, state)
    /\ LET k == AfterAck(conns[c], s)
           waits == k.st \in {"FIN_WAIT_1", "FIN_WAIT_2"}
           fin == waits /\ "FIN" \in s.flags
           st == AfterFin(k, s, Acknowledges(conns[c], s))
           told == fin \/ st = "CLOSED"
           app == IF told THEN Told(k, "CLOSE") ELSE k.app
           l == [k EXCEPT !.st = st, !.app = app,
                          !.rcv = @ + (IF waits THEN Len(s.lines) ELSE 0) + (IF fin THEN 1 ELSE 0)]
           drop == k.st = "FIN_WAIT_1" /\ Acknowledges(conns[c], s)
           out == IF fin \/ (waits /\ s.lines # <<>> /\ ~drop)
                  THEN {Segment(l, {"ACK"}, <<>>)} ELSE {}
       IN  Apply(c, Outcome(l, get_string_global, out))
    /\ Quiet

-----------------------------------------------------------------------------
(* uip_periodic.                                                           *)

Tick == UNCHANGED <<opened, client, toServer>>

\* Mutant of TimedStates: FIN_WAIT_2 is not timed.
TimedStatesFew == {"TIME_WAIT"}

TimedStates == {"TIME_WAIT", "FIN_WAIT_2"}

\* The timer of a connection that only waits reaches UIP_TIME_WAIT_TIMEOUT.
WaitExpires(c) ==
    /\ conns[c].st \in TimedStates
    /\ conns' = [conns EXCEPT ![c].st = "CLOSED"]
    /\ Tick /\ UNCHANGED <<get_string_global, toClient, changed>>

\* Mutant of Outstanding: data of the application is not timed.
OutstandingButData(c) ==
    conns[c].st \in {"SYN_RCVD", "FIN_WAIT_1", "CLOSING", "LAST_ACK"} /\ conns[c].len > 0

\* The retransmission timer of outstanding data runs out.
Outstanding(c) == Live(c) /\ conns[c].st \notin {"TIME_WAIT", "FIN_WAIT_2"} /\ conns[c].len > 0

\* Mutant of GivesUp: only the handshake gives up.
GivesUpSyn(k) == k.st = "SYN_RCVD" /\ k.nrtx = UIP_MAXSYNRTX

GivesUp(k) == k.nrtx = UIP_MAXRTX \/ (k.st = "SYN_RCVD" /\ k.nrtx = UIP_MAXSYNRTX)

\* Too many retransmissions: the connection is closed and reset.
GiveUp(c) ==
    /\ Outstanding(c) /\ GivesUp(conns[c])
    /\ \E k \in {[conns[c] EXCEPT !.st = "CLOSED", !.app = Told(conns[c], "TIMEDOUT")]} :
           Apply(c, Outcome(k, get_string_global, {Segment(k, {"RST", "ACK"}, <<>>)}))
    /\ Tick /\ UNCHANGED changed

\* Retransmit the SYNACK, the data (which the application generates again) or
\* the FIN.
Retransmit(c) ==
    /\ Outstanding(c) /\ ~GivesUp(conns[c])
    /\ LET k == [conns[c] EXCEPT !.nrtx = @ + 1]
       IN  CASE k.st = "SYN_RCVD" ->
                  /\ Apply(c, Outcome(k, get_string_global, {Segment(k, {"SYN", "ACK"}, <<>>)}))
                  /\ UNCHANGED changed
             [] k.st = "ESTABLISHED" ->
                  \E page \in Pages :
                    \E t \in {AppCall(k, {"REXMIT"}, <<>>, page)} :
                      \E o \in {apprexmit([k EXCEPT !.app = t.app], t)} :
                        Apply(c, o) /\ Remember(k, o)
             [] OTHER ->
                  /\ Apply(c, Outcome(k, get_string_global, {Segment(k, {"FIN", "ACK"}, <<>>)}))
                  /\ UNCHANGED changed
    /\ Tick

\* An established connection with nothing outstanding is polled: the server
\* does not answer a poll.
Poll(c) ==
    /\ conns[c].st = "ESTABLISHED" /\ conns[c].len = 0
    /\ conns' = [conns EXCEPT ![c].nrtx = 0]
    /\ Tick /\ UNCHANGED <<get_string_global, toClient, changed>>

\* A tick that finds the slot closed.
NothingDue(c) == conns[c].st = "CLOSED" /\ UNCHANGED vars

\* uip_init, which server_task has stack_init call after every new association:
\* the connections are forgotten, neither clients nor application are told.
StackInit ==
    /\ conns' = [c \in Slot |-> [conns[c] EXCEPT !.st = "CLOSED"]]
    /\ Tick /\ UNCHANGED <<get_string_global, toClient, changed>>

Periodic(c) == WaitExpires(c) \/ GiveUp(c) \/ Retransmit(c) \/ Poll(c) \/ NothingDue(c)

-----------------------------------------------------------------------------
(* The clients (not part of the repository): ordinary TCP, one request of  *)
(* two lines, in one segment or in two.                                    *)

RequestLines(p) == <<RequestOf[p], Blank>>

\* A segment of client p in state k.
ClientSegment(p, k, flags, seq, lines, wnd) ==
    [from |-> p, flags |-> flags, gen |-> k.gen, seq |-> seq, ack |-> k.nxt, lines |-> lines,
     wnd |-> wnd, mss |-> 0]

ClientSends(p, k, segments) ==
    /\ client' = [client EXCEPT ![p] = k]
    /\ toServer' = SentBy(p, segments)
    /\ UNCHANGED <<serverVars, toClient>>

Syn(p, mss) == [ClientSegment(p, NewClient, {"SYN"}, 0, <<>>, 0) EXCEPT !.mss = mss]

Connect(p) ==
    /\ client[p].st = "idle"
    /\ \E mss \in MssOptions :
         ClientSends(p, [client[p] EXCEPT !.st = "syn", !.snt = 1], {Syn(p, mss)})

\* The lines not yet sent, up to line n.
SendRequest(p, n) ==
    LET k == client[p]
    IN  /\ k.st = "est" /\ k.snt <= n
        /\ \E wnd \in Windows :
             ClientSends(p, [k EXCEPT !.snt = n + 1],
                         {ClientSegment(p, k, {"ACK"}, k.snt, SubSeq(RequestLines(p), k.snt, n), wnd)})

\* What is not acknowledged is sent again, the lines in one segment.
ClientRetransmits(p) ==
    LET k == client[p]
        last == IF k.st = "fin" THEN k.snt - 2 ELSE k.snt - 1
        flags == {"ACK"} \cup IF k.st = "fin" THEN {"FIN"} ELSE {}
    IN  \/ /\ k.st = "syn"
           /\ \E mss \in MssOptions : ClientSends(p, k, {Syn(p, mss)})
        \/ /\ k.st \in {"est", "fin"} /\ k.una < k.snt
           /\ \E wnd \in Windows :
                ClientSends(p, k, {ClientSegment(p, k, flags, k.una,
                                                 SubSeq(RequestLines(p), k.una, last), wnd)})

\* An established client leaves before it has its page.
LeaveEarly(p, how) ==
    LET k == client[p]
    IN  /\ k.st = "est" /\ ~k.eof
        /\ \/ /\ how = "RST"
              /\ ClientSends(p, [k EXCEPT !.st = "done"],
                             {ClientSegment(p, k, {"RST"}, k.snt, <<>>, 0)})
           \/ /\ how = "gone"
              /\ ClientSends(p, [k EXCEPT !.st = "gone"], {})
           \/ /\ how = "FIN"
              /\ \E wnd \in Windows :
                   ClientSends(p, [k EXCEPT !.st = "fin", !.snt = @ + 1],
                               {ClientSegment(p, k, {"FIN", "ACK"}, k.snt, <<>>, wnd)})

\* What an open client makes of a segment of its connection.
Received(k, g) ==
    LET inOrder == g.seq = k.nxt
        fin == inOrder /\ "FIN" \in g.flags
        una == IF g.ack > k.una THEN g.ack ELSE k.una
    IN  [k EXCEPT !.una = una,
                  !.got = IF inOrder THEN @ \o g.data ELSE @,
                  !.nxt = @ + (IF inOrder THEN Len(g.data) ELSE 0) + (IF fin THEN 1 ELSE 0),
                  !.eof = @ \/ fin]

\* A client that has sent its FIN and got the server's is done when all it
\* sent is acknowledged; the server's FIN makes it send its own.
Finish(k) ==
    IF k.st = "est" /\ k.eof THEN [k EXCEPT !.st = "fin", !.snt = @ + 1]
    ELSE IF k.st = "fin" /\ k.eof /\ k.una = k.snt THEN [k EXCEPT !.st = "done"]
    ELSE k

\* The state after segment g, and the flags of the answer, {} for no answer.
Answer(k, g) ==
    LET reset == "RST" \in g.flags
    IN  CASE k.st = "gone" -> <<k, {}>>
          [] k.st = "done" -> <<k, IF reset THEN {} ELSE {"RST"}>>
          [] k.st = "syn"  ->
               IF g.flags # {"SYN", "ACK"} THEN <<k, {}>>
               ELSE <<[k EXCEPT !.st = "est", !.gen = g.gen, !.nxt = 1, !.una = 1], {"ACK"}>>
          [] OTHER ->
               IF g.gen # k.gen THEN <<k, IF reset THEN {} ELSE {"ACK"}>>
               ELSE IF reset THEN <<[k EXCEPT !.st = "done"], {}>>
               ELSE LET l == Finish(Received(k, g))
                    IN  <<l, IF k.st = "est" /\ l.st = "fin" THEN {"FIN", "ACK"}
                             ELSE IF g.data # <<>> \/ g.flags \cap {"SYN", "FIN"} # {} THEN {"ACK"}
                             ELSE {}>>

ClientReceives(g) ==
    LET p == g.to
        flags == Answer(client[p], g)[2]
        k == Answer(client[p], g)[1]
        seq == IF "FIN" \in flags THEN k.snt - 1 ELSE k.snt
    IN  /\ g \in toClient
        /\ toClient' \in {toClient, toClient \ {g}}
        /\ client' = [client EXCEPT ![p] = k]
        /\ IF flags = {} THEN UNCHANGED toServer
           ELSE \E wnd \in Windows :
                  toServer' = SentBy(p, {ClientSegment(p, k, flags, seq, <<>>, wnd)})
        /\ UNCHANGED serverVars

-----------------------------------------------------------------------------
(* The network.                                                            *)

Lose ==
    /\ \/ \E s \in toServer : toServer' = toServer \ {s} /\ UNCHANGED toClient
       \/ \E g \in toClient : toClient' = toClient \ {g} /\ UNCHANGED toServer
    /\ UNCHANGED <<serverVars, client>>

Input ==
    \E s \in toServer :
        \/ NoConnection(s)
        \/ \E c \in Slot :
              \/ Listen(s, c) \/ ResetInput(s, c) \/ AckOnly(s, c)
              \/ SynRcvdInput(s, c) \/ EstablishedInput(s, c) \/ EstablishedFin(s, c)
              \/ ClosingInput(s, c)

Clients ==
    \/ \E p \in Client :
          \/ Connect(p) \/ ClientRetransmits(p)
          \/ \E n \in 1 .. 2 : SendRequest(p, n)
          \/ \E how \in Leaves : LeaveEarly(p, how)
    \/ \E g \in toClient : ClientReceives(g)

Next == Input \/ (\E c \in Slot : Periodic(c)) \/ StackInit \/ Clients \/ Lose

Spec == Init /\ [][Next]_vars

\* stack_process calls uip_periodic for every connection, again and again;
\* nothing is assumed of the network or of the clients.
FairSpec ==
    Spec /\ \A c \in Slot : WF_vars(WaitExpires(c) \/ GiveUp(c) \/ Retransmit(c))

-----------------------------------------------------------------------------
(* Properties.                                                             *)

Byte == {Junk} \cup (URL \X Nat)

\* Types.  A connection never counts more retransmissions than UIP_MAXRTX.
TypeOK ==
    /\ \A c \in Slot :
         LET k == conns[c]
         IN  /\ k.st \in AnyState \cup {"CLOSED"} /\ k.peer \in Client \cup {NoClient}
             /\ {k.gen, k.snd, k.rcv, k.len, k.initialmss, k.mss} \subseteq Nat
             /\ k.nrtx \in 0 .. UIP_MAXRTX
             /\ {k.app.ackedCount, k.app.sentCount, k.app.cursor} \subseteq Nat
             /\ k.app.request \in BOOLEAN
    /\ get_string_global \in URL
    /\ opened \in 0 .. MaxOpened
    /\ \A p \in Client : client[p].got \in Seq(Byte)
    /\ changed \in [Client -> BOOLEAN]

\* A client receives the bytes of a page in their order, none twice and none
\* left out, although every segment and every retransmission is cut out of a
\* page generated anew, and ackedCount counts what the application believes
\* to have sent; unless window or page changed under unacknowledged data.
PageInOrder ==
    \A p \in Client : ~changed[p] =>
        \A i \in DOMAIN client[p].got : client[p].got[i][2] = i

\* The server closes only when its client has the page to the last byte.
ClosedAfterWholePage ==
    \A c \in Slot :
        LET k == conns[c]
        IN  /\ k.st \in {"FIN_WAIT_1", "FIN_WAIT_2", "CLOSING", "TIME_WAIT"}
            /\ client[k.peer].gen = k.gen /\ ~changed[k.peer]
            => Len(client[k.peer].got) = k.app.cursor

\* A client never holds two of the few connections, whatever SYNs the network
\* repeats.
OneSlotPerClient ==
    \A c, d \in Slot : Live(c) /\ Live(d) /\ conns[c].peer = conns[d].peer => c = d

\* Every client receives the page it asked for ("saves a copy of the URL in
\* the current connection's server request").
OwnPage ==
    \A p \in Client : \A i \in DOMAIN client[p].got : client[p].got[i][1] = RequestOf[p]

\* A page once begun comes to an end, with the client's help or, after
\* UIP_MAXRTX retransmissions, without it; unless the page has become
\* shorter than what was acknowledged: then nothing is left to send.
PageEnds ==
    \A c \in Slot :
        (conns[c].st = "ESTABLISHED" /\ conns[c].len > 0)
            ~> (conns[c].st # "ESTABLISHED" \/ conns[c].app.cursor <= conns[c].app.ackedCount)

\* A connection that opens or closes does not keep its slot for ever.
SlotFreed ==
    \A c \in Slot :
        (conns[c].st \notin {"CLOSED", "ESTABLISHED"}) ~> (conns[c].st \in {"CLOSED", "ESTABLISHED"})

=============================================================================
