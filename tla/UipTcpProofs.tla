----------------------------- MODULE UipTcpProofs -----------------------------
(***************************************************************************)
(* Proofs about UipTcp and WiServer, for every number of slots, clients,   *)
(* pages, segments and retransmissions: the types of uip_conns, that a     *)
(* client never holds two of its slots (OneSlotPerClient) and, in the      *)
(* second part, what clients receive of a page.                            *)
(*                                                                         *)
(* OneSlotPerClient alone is not inductive: a SYN takes a slot only after  *)
(* uip_process has found none of the same client, and that comparison says *)
(* something only if the slots in use belong to clients and every segment  *)
(* carries one. SlotInv adds the types of the server, of the segments under*)
(* way and of the clients (what they have sent is at most the two lines of *)
(* the request and a FIN). Every step of the server but accepting a SYN    *)
(* keeps SlotsKept: a slot in use was in use before, by the same client.   *)
(***************************************************************************)
EXTENDS UipTcp, WellFoundedInduction, TLAPS

Line == URL \cup {Blank}
AppFlags == {"CONNECTED", "NEWDATA", "ACKDATA", "CLOSE", "ABORT", "TIMEDOUT", "REXMIT"}

\* uip_tcp_appstate_t, and a call of the application.
AppType == [ackedCount : Nat, sentCount : Nat, cursor : Nat, request : BOOLEAN]
CallType == [app : AppType, url : URL, mss : Nat, flags : SUBSET AppFlags, slen : Nat,
             data : Seq(URL \X Nat)]

\* uip_conns[c], the two kinds of segments and the two ends of the network.
ConnType ==
    [st : AnyState \cup {"CLOSED"}, peer : Client \cup {NoClient}, gen : Nat, snd : Nat, rcv : Nat,
     len : Nat, nrtx : 0 .. UIP_MAXRTX, initialmss : Nat, mss : Nat, app : AppType]
Flags == {"SYN", "ACK", "FIN", "RST"}
FromClient ==
    [from : Client, flags : SUBSET Flags, gen : Nat, seq : Nat, ack : Nat, lines : Seq(Line),
     wnd : Nat, mss : Nat]
FromServer ==
    [to : Client, flags : SUBSET Flags, gen : Nat, seq : Nat, ack : Nat, data : Seq(Byte)]
OutcomeType == [conn : ConnType, url : URL, out : SUBSET FromServer]

\* The server's variables and the network's.
ServerTypes ==
    /\ conns \in [Slot -> ConnType]
    /\ \A c \in Slot : conns[c].st # "CLOSED" => conns[c].peer \in Client
    /\ get_string_global \in URL
    /\ opened \in 0 .. MaxOpened
    /\ changed \in [Client -> BOOLEAN]
NetTypes == toServer \in SUBSET FromClient /\ toClient \in SUBSET FromServer

\* The clients: what they have sent is at most the two lines and a FIN.
ClientType ==
    [st : {"idle", "syn", "est", "fin", "done", "gone"}, gen : Nat, nxt : Nat, una : Nat, snt : Nat,
     eof : BOOLEAN, got : Seq(Byte)]
ClientSane(k) ==
    /\ k.st = "syn" => k.snt = 1
    /\ k.st = "est" => k.snt \in 1 .. 3 /\ k.una >= 1
    /\ k.st = "fin" => k.snt \in 2 .. 4 /\ k.una >= 1
ClientTypes == client \in [Client -> ClientType] /\ \A p \in Client : ClientSane(client[p])

\* Slots keep their client for as long as they are in use.
SlotsKept ==
    \A c \in Slot : conns'[c].st # "CLOSED" =>
        conns[c].st # "CLOSED" /\ conns'[c].peer = conns[c].peer

\* A set of natural numbers that is not empty has a least element.
LEMMA LeastOf ==
    ASSUME NEW S \in SUBSET Nat, S # {}
    PROVE  Min(S) \in S /\ \A n \in S : Min(S) <= n
<1> DEFINE less == OpToRel(<, Nat)
<1>1. \A m, n \in Nat : m < n => <<m, n>> \in less
  BY DEF OpToRel
<1> HIDE DEF less
<1>2. IsWellFoundedOn(less, Nat)
  BY NatLessThanWellFounded DEF less
<1>3. PICK m \in S : \A n \in S : <<n, m>> \notin less
  BY <1>2, WFMin
<1>4. \A n \in S : m <= n
  <2> SUFFICES ASSUME NEW n \in S, ~(m <= n) PROVE FALSE
    OBVIOUS
  <2>1. m \in Nat /\ n \in Nat /\ n < m
    BY SMT
  <2> QED BY <1>1, <1>3, <2>1, Zenon
<1> QED BY <1>4 DEF Min

-----------------------------------------------------------------------------
(* The HTTP server.                                                        *)

\* What may be sent is a number.
LEMMA ClampType == \A n \in Int, hi \in Nat : Clamp(n, hi) \in Nat
BY DEF Clamp

\* sendPage fills the buffer with bytes of the page.
LEMMA SendPageType ==
    ASSUME NEW t \in CallType, NEW page \in [URL -> Nat]
    PROVE  sendPage(t, page) \in CallType
<1> DEFINE u == [t EXCEPT !.app = [@ EXCEPT !.cursor = page[t.url]]]
           len == Clamp(u.app.cursor - u.app.ackedCount, u.mss)
<1>1. u \in CallType
  BY DEF CallType, AppType
<1>2. len \in Nat
  <2> HIDE DEF u
  <2>1. u.app.cursor - u.app.ackedCount \in Int /\ u.mss \in Nat
    BY <1>1 DEF CallType, AppType
  <2> QED BY <2>1, ClampType
<1>3. [i \in 1 .. len |-> <<u.url, u.app.ackedCount + i>>] \in Seq(URL \X Nat)
  <2> HIDE DEF u, len
  <2>0. u.url \in URL /\ u.app.ackedCount \in Nat
    BY <1>1 DEF CallType, AppType
  <2>1. \A i \in 1 .. len : <<u.url, u.app.ackedCount + i>> \in URL \X Nat
    BY <1>2, <2>0
  <2> QED BY <1>2, <2>1
<1> HIDE DEF u
<1>4. send(u) \in CallType
  BY <1>1, <1>2, <1>3 DEF send, CallType, AppType
<1> QED BY <1>4 DEF sendPage, u

\* The URL remembered is one of the request lines.
LEMMA ProcessPacketType ==
    ASSUME NEW t \in CallType, NEW pkt \in Seq(Line)
    PROVE  processPacket(t, pkt) \in CallType
<1> DEFINE gets == {i \in Processed(pkt) : pkt[i] \in URL}
<1>1. gets \in SUBSET Nat
  BY DEF Processed
<1>2. gets # {} => pkt[Min(gets)] \in URL
  <2> HIDE DEF gets
  <2>1. gets # {} => Min(gets) \in gets
    BY <1>1, LeastOf
  <2> QED BY <2>1 DEF gets
<1> QED BY <1>2 DEF processPacket, CallType, AppType

\* The application writes a page and changes its state, as uip_process allows.
LEMMA CallOK ==
    ASSUME NEW app \in AppType, NEW url \in URL, NEW mss \in Nat, NEW flags \in SUBSET AppFlags,
           NEW pkt \in Seq(Line), NEW page \in [URL -> Nat]
    PROVE  server_task_impl(app, url, mss, flags, pkt, page) \in CallType
<1> DEFINE t == [app |-> app, url |-> url, mss |-> mss, flags |-> flags, slen |-> 0, data |-> <<>>]
           t1 == WhenConnected(t)
           t2 == WhenNewdata(t1, pkt, page)
           t3 == WhenAcked(t2, page)
<1>1. t \in CallType
  BY DEF CallType
<1> HIDE DEF t
<1>2. t1 \in CallType
  BY <1>1 DEF WhenConnected, CallType, AppType
<1> HIDE DEF t1
<1>3. t2 \in CallType
  BY <1>2, ProcessPacketType, SendPageType DEF WhenNewdata
<1> HIDE DEF t2
<1>4. t3 \in CallType
  <2> DEFINE u == [t2 EXCEPT !.app = [@ EXCEPT !.ackedCount = AckedSoFar(t2.app), !.sentCount = 0]]
  <2>1. u \in CallType
    <3>1. t2.app \in AppType
      BY <1>3 DEF CallType
    <3>2. AckedSoFar(t2.app) \in Nat
      BY <3>1 DEF AppType, AckedSoFar
    <3>3. [t2.app EXCEPT !.ackedCount = AckedSoFar(t2.app), !.sentCount = 0] \in AppType
      BY <3>1, <3>2 DEF AppType
    <3> QED BY <1>3, <3>3 DEF CallType
  <2>2. [u EXCEPT !.flags = {"CLOSE"}] \in CallType
    BY <2>1 DEF CallType, AppFlags
  <2> HIDE DEF u
  <2>3. sendPage(u, page) \in CallType
    BY <2>1, SendPageType
  <2> QED BY <1>3, <2>2, <2>3 DEF WhenAcked, u
<1> HIDE DEF t3
<1>5. WhenEnded(t3) \in CallType
  BY <1>4 DEF WhenEnded, CallType, AppType
<1>6. sendPage(t, page) \in CallType
  BY <1>1, SendPageType
<1> QED BY <1>5, <1>6 DEF server_task_impl, t, t1, t2, t3

\* An application that is told of an end only forgets its request.
LEMMA ToldOK ==
    ASSUME NEW app \in AppType, NEW url, NEW mss, NEW flag \in {"ABORT", "CLOSE", "TIMEDOUT"}
    PROVE  server_task_impl(app, url, mss, {flag}, <<>>, <<>>).app \in AppType
<1> DEFINE t == [app |-> app, url |-> url, mss |-> mss, flags |-> {flag}, slen |-> 0, data |-> <<>>]
<1>1. t.app = app /\ t.flags = {flag} /\ "app" \in DOMAIN t
  OBVIOUS
<1> HIDE DEF t
<1>2. WhenAcked(WhenNewdata(WhenConnected(t), <<>>, <<>>), <<>>) = t
  BY <1>1 DEF WhenAcked, WhenNewdata, WhenConnected
<1>3. WhenEnded(t).app \in AppType
  BY <1>1 DEF WhenEnded, AppType
<1>4. {flag} # {"REXMIT"}
  OBVIOUS
<1> QED BY <1>2, <1>3, <1>4 DEF server_task_impl, t

-----------------------------------------------------------------------------
(* The parts of uip_process.                                               *)

\* A segment of a connection in use goes to a client.
LEMMA SegmentOK ==
    ASSUME NEW k \in ConnType, k.peer \in Client, NEW flags \in SUBSET Flags, NEW data \in Seq(Byte)
    PROVE  Segment(k, flags, data) \in FromServer
BY DEF Segment, FromServer, ConnType

\* An acknowledgement moves snd over the outstanding data and nothing else.
LEMMA AfterAckOK ==
    ASSUME NEW k \in ConnType, NEW s \in FromClient
    PROVE  AfterAck(k, s) \in ConnType /\ AfterAck(k, s).peer = k.peer /\ AfterAck(k, s).st = k.st
<1>1. k.snd + k.len \in Nat
  BY DEF ConnType
<1>2. [k EXCEPT !.snd = k.snd + k.len, !.len = 0] \in ConnType
  BY <1>1 DEF ConnType
<1> QED BY <1>2 DEF AfterAck, ConnType

\* The application is called with types that fit it.
LEMMA AppCallOK ==
    ASSUME NEW k \in ConnType, get_string_global \in URL, NEW flags \in SUBSET AppFlags,
           NEW lines \in Seq(Line), NEW page \in Pages
    PROVE  AppCall(k, flags, lines, page) \in CallType
<1>1. page \in [URL -> Nat]
  BY UipAssumption
<1>2. k.app \in AppType /\ k.mss \in Nat
  BY DEF ConnType
<1> QED BY <1>1, <1>2, CallOK DEF AppCall

\* The state an application keeps when it is told of an end.
LEMMA ToldType ==
    ASSUME NEW k \in ConnType, NEW flag \in {"ABORT", "CLOSE", "TIMEDOUT"}
    PROVE  Told(k, flag) \in AppType
<1>1. k.app \in AppType
  BY DEF ConnType
<1>2. Told(k, flag) = server_task_impl(k.app, get_string_global, k.mss, {flag}, <<>>, <<>>).app
  BY DEF Told, AppCall
<1> QED BY <1>1, <1>2, ToldOK

\* The payload is made of page bytes and of whatever uip_appdata holds.
LEMMA PayloadOK ==
    ASSUME NEW k \in ConnType, NEW t \in CallType
    PROVE  Payload(k, t) \in Seq(Byte)
<1>1. k.len \in Nat /\ t.data \in Seq(URL \X Nat)
  BY DEF ConnType, CallType
<1> DEFINE byte(i) == IF i \in DOMAIN t.data THEN t.data[i] ELSE Junk
           n == k.len
<1>2. \A i \in 1 .. n : byte(i) \in Byte
  BY <1>1 DEF Byte
<1>3. Payload(k, t) = [i \in 1 .. n |-> byte(i)]
  BY DEF Payload
<1>4. n \in Nat
  BY <1>1
<1> HIDE DEF byte, n
<1>5. [i \in 1 .. n |-> byte(i)] \in Seq(Byte)
  BY <1>2, <1>4
<1> QED BY <1>3, <1>5

\* apprexmit leaves the connection as it was.
LEMMA ApprexmitOK ==
    ASSUME NEW k \in ConnType, k.peer \in Client, NEW t \in CallType
    PROVE  apprexmit(k, t) \in OutcomeType /\ apprexmit(k, t).conn = k
<1>1. Segment(k, {"ACK"}, Payload(k, t)) \in FromServer
  <2>1. Payload(k, t) \in Seq(Byte) /\ {"ACK"} \in SUBSET Flags
    BY PayloadOK DEF Flags
  <2> QED BY <2>1, SegmentOK
<1>2. Segment(k, {"ACK"}, <<>>) \in FromServer
  <2>1. <<>> \in Seq(Byte) /\ {"ACK"} \in SUBSET Flags
    BY DEF Flags
  <2> QED BY <2>1, SegmentOK
<1>3. t.url \in URL
  BY DEF CallType
<1> QED BY <1>1, <1>2, <1>3 DEF apprexmit, Outcome, OutcomeType

\* appsend keeps the client of the connection.
LEMMA AppsendOK ==
    ASSUME NEW k \in ConnType, k.peer \in Client, NEW t \in CallType
    PROVE  appsend(k, t) \in OutcomeType /\ appsend(k, t).conn.peer = k.peer
<1> DEFINE fin == [k EXCEPT !.app = t.app, !.len = 1, !.st = "FIN_WAIT_1", !.nrtx = 0]
           len == IF t.slen > 0 /\ k.len = 0 THEN Clamp(t.slen, k.mss) ELSE k.len
           snd == [k EXCEPT !.app = t.app, !.nrtx = 0, !.len = len]
<1>1. t.app \in AppType /\ t.url \in URL /\ t.slen \in Nat
  BY DEF CallType
<1>2. fin \in ConnType /\ fin.peer = k.peer
  <2>1. "FIN_WAIT_1" \in AnyState /\ 0 \in 0 .. UIP_MAXRTX /\ 1 \in Nat
    BY UipAssumption DEF AnyState
  <2> QED BY <1>1, <2>1 DEF ConnType
<1>3. Outcome(fin, t.url, {Segment(fin, {"FIN", "ACK"}, <<>>)}) \in OutcomeType
  <2> HIDE DEF fin
  <2>1. {"FIN", "ACK"} \in SUBSET Flags /\ <<>> \in Seq(Byte)
    BY DEF Flags
  <2>2. Segment(fin, {"FIN", "ACK"}, <<>>) \in FromServer
    BY <1>2, <2>1, SegmentOK
  <2> QED BY <1>1, <1>2, <2>2 DEF Outcome, OutcomeType
<1>4. len \in Nat
  <2>1. k.len \in Nat /\ k.mss \in Nat
    BY DEF ConnType
  <2>2. Clamp(t.slen, k.mss) \in Nat
    BY <1>1, <2>1 DEF Clamp
  <2> QED BY <2>1, <2>2
<1>5. snd \in ConnType /\ snd.peer = k.peer
  <2> HIDE DEF len
  <2>1. 0 \in 0 .. UIP_MAXRTX
    BY UipAssumption
  <2> QED BY <1>1, <1>4, <2>1 DEF ConnType
<1>6. apprexmit(snd, t) \in OutcomeType /\ apprexmit(snd, t).conn = snd
  <2> HIDE DEF snd
  <2> QED BY <1>5, ApprexmitOK
<1>7. appsend(k, t) = IF "CLOSE" \in t.flags
                      THEN Outcome(fin, t.url, {Segment(fin, {"FIN", "ACK"}, <<>>)})
                      ELSE apprexmit(snd, t)
  BY DEF appsend
<1> HIDE DEF fin, snd
<1> QED BY <1>2, <1>3, <1>5, <1>6, <1>7 DEF Outcome

\* Remember only records whether the page changed.
LEMMA RememberOK ==
    ASSUME changed \in [Client -> BOOLEAN], NEW k, NEW o, Remember(k, o)
    PROVE  changed' \in [Client -> BOOLEAN]
<1>1. PICK b \in BOOLEAN : changed' = [changed EXCEPT ![k.peer] = b]
  BY DEF Remember, UnderSentData
<1> QED BY <1>1

\* Slot c, in use, becomes what an outcome of the same client says.
LEMMA ApplyOK ==
    ASSUME NEW c \in Slot, conns[c].st # "CLOSED", ServerTypes, NetTypes,
           NEW o \in OutcomeType, o.conn.peer = conns[c].peer, Apply(c, o)
    PROVE  /\ conns' \in [Slot -> ConnType] /\ get_string_global' \in URL
           /\ toClient' \in SUBSET FromServer
           /\ SlotsKept
<1>1. o.conn \in ConnType /\ o.url \in URL /\ o.out \in SUBSET FromServer
  BY DEF OutcomeType
<1> QED BY <1>1 DEF Apply, SentTo, ServerTypes, NetTypes, SlotsKept

-----------------------------------------------------------------------------
(* The actions of the server.                                              *)

StepOK == ServerTypes' /\ NetTypes' /\ SlotsKept

\* What the actions have in common: slots keep their clients, segments are taken.
LEMMA StepFrom ==
    ASSUME ServerTypes, NetTypes, SlotsKept, toServer' \subseteq toServer,
           toClient' \in SUBSET FromServer, conns' \in [Slot -> ConnType],
           get_string_global' \in URL, UNCHANGED opened, changed' \in [Client -> BOOLEAN]
    PROVE  StepOK
BY DEF StepOK, ServerTypes, NetTypes, SlotsKept

\* An outcome of the connection in slot c is applied.
LEMMA AnswerStep ==
    ASSUME ServerTypes, NetTypes, NEW c \in Slot, conns[c].st # "CLOSED",
           NEW o \in OutcomeType, o.conn.peer = conns[c].peer, Apply(c, o),
           toServer' \subseteq toServer, UNCHANGED opened, changed' \in [Client -> BOOLEAN]
    PROVE  StepOK
<1>1. /\ conns' \in [Slot -> ConnType] /\ get_string_global' \in URL
      /\ toClient' \in SUBSET FromServer /\ SlotsKept
  BY ApplyOK
<1> QED BY <1>1, StepFrom

\* Only slot c changes, and it keeps its client or is closed.
LEMMA SlotStep ==
    ASSUME ServerTypes, NetTypes, NEW c \in Slot, NEW k \in ConnType,
           k.st # "CLOSED" => conns[c].st # "CLOSED" /\ k.peer = conns[c].peer,
           conns' = [conns EXCEPT ![c] = k], UNCHANGED <<get_string_global, toClient, opened, changed>>,
           toServer' \subseteq toServer
    PROVE  StepOK
<1>1. conns' \in [Slot -> ConnType] /\ SlotsKept
  BY DEF ServerTypes, SlotsKept
<1> QED BY <1>1, StepFrom DEF ServerTypes, NetTypes

\* uip_input for a connection that is there.
LEMMA FoundStep ==
    ASSUME ServerTypes, NetTypes, NEW s \in toServer, NEW c \in Slot,
           \/ ResetInput(s, c) \/ AckOnly(s, c) \/ SynRcvdInput(s, c)
           \/ EstablishedInput(s, c) \/ EstablishedFin(s, c) \/ ClosingInput(s, c)
    PROVE  StepOK
<1>1. s \in FromClient /\ conns[c] \in ConnType /\ get_string_global \in URL
      /\ changed \in [Client -> BOOLEAN]
  BY DEF NetTypes, ServerTypes
<1>2. toServer' \subseteq toServer /\ conns[c].st # "CLOSED" /\ UNCHANGED opened
  BY DEF ResetInput, AckOnly, SynRcvdInput, EstablishedInput, EstablishedFin, ClosingInput,
         InSequence, Found, SlotOf, Live, Take, Quiet
<1>3. conns[c].peer \in Client
  BY <1>2 DEF ServerTypes
<1> DEFINE ack == AfterAck(conns[c], s)
<1>4. ack \in ConnType /\ ack.peer = conns[c].peer /\ ack.st = conns[c].st
  BY <1>1, AfterAckOK
<1>5. s.lines \in Seq(Line) /\ Len(s.lines) \in Nat /\ s.wnd \in Nat
  BY <1>1 DEF FromClient
<1>6. {"ACK"} \in SUBSET Flags /\ {"FIN", "ACK"} \in SUBSET Flags /\ <<>> \in Seq(Byte)
  BY DEF Flags
<1> HIDE DEF ack
<1>7. CASE ResetInput(s, c)
  <2> DEFINE k == [conns[c] EXCEPT !.st = "CLOSED", !.app = Told(conns[c], "ABORT")]
  <2>1. Told(conns[c], "ABORT") \in AppType
    BY <1>1, ToldType
  <2>2. k \in ConnType /\ k.st = "CLOSED"
    BY <1>1, <2>1 DEF ConnType
  <2>3. conns' = [conns EXCEPT ![c] = k] /\ UNCHANGED <<get_string_global, toClient, opened, changed>>
    BY <1>7 DEF ResetInput, Quiet
  <2> HIDE DEF k
  <2> QED BY <1>2, <2>2, <2>3, SlotStep
<1>8. CASE AckOnly(s, c)
  <2>1. PICK k \in {conns[c], ack} :
          Apply(c, Outcome(k, get_string_global, {Segment(k, {"ACK"}, <<>>)})) /\ UNCHANGED changed
    BY <1>8 DEF AckOnly, Quiet, ack
  <2>2. k \in ConnType /\ k.peer = conns[c].peer
    BY <1>1, <1>4
  <2>3. Segment(k, {"ACK"}, <<>>) \in FromServer
    BY <1>3, <1>6, <2>2, SegmentOK
  <2> DEFINE o == Outcome(k, get_string_global, {Segment(k, {"ACK"}, <<>>)})
  <2>4. o \in OutcomeType /\ o.conn = k
    BY <1>1, <2>2, <2>3 DEF Outcome, OutcomeType
  <2> HIDE DEF o
  <2>5. Apply(c, o) /\ changed' \in [Client -> BOOLEAN]
    BY <1>1, <2>1 DEF o
  <2> QED BY <1>2, <2>2, <2>4, <2>5, AnswerStep
<1>a. ASSUME UNCHANGED <<conns, get_string_global, toClient, changed>>
      PROVE  StepOK
  <2>1. SlotsKept
    BY <1>a DEF SlotsKept
  <2> QED BY <1>a, <1>2, <2>1, StepFrom DEF ServerTypes, NetTypes
<1>9. CASE SynRcvdInput(s, c)
  <2>1. CASE ~Acknowledges(conns[c], s)
    BY <1>9, <1>a, <2>1 DEF SynRcvdInput, Quiet
  <2>2. CASE Acknowledges(conns[c], s)
    <3> DEFINE k == [ack EXCEPT !.st = "ESTABLISHED", !.rcv = @ + Len(s.lines)]
               fl == {"CONNECTED"} \cup DataFlag(s)
    <3>1. "ESTABLISHED" \in AnyState /\ ack.rcv + Len(s.lines) \in Nat
      BY <1>4, <1>5 DEF AnyState, ConnType
    <3>2. k \in ConnType /\ k.peer = conns[c].peer
      BY <1>4, <3>1 DEF ConnType
    <3>3. PICK page \in Pages : Apply(c, appsend(k, AppCall(k, fl, s.lines, page)))
      BY <1>9, <2>2 DEF SynRcvdInput, ack
    <3>4. fl \in SUBSET AppFlags
      BY DEF AppFlags, DataFlag
    <3> HIDE DEF k, fl
    <3>5. AppCall(k, fl, s.lines, page) \in CallType
      BY <1>1, <1>5, <3>2, <3>4, AppCallOK
    <3> DEFINE o == appsend(k, AppCall(k, fl, s.lines, page))
    <3>6. o \in OutcomeType /\ o.conn.peer = k.peer
      BY <1>3, <3>2, <3>5, AppsendOK
    <3>7. changed' \in [Client -> BOOLEAN] /\ Apply(c, o)
      BY <1>1, <1>9, <3>3 DEF SynRcvdInput, Quiet
    <3> HIDE DEF o
    <3> QED BY <1>2, <3>2, <3>6, <3>7, AnswerStep
  <2> QED BY <2>1, <2>2
<1>10. CASE EstablishedInput(s, c)
  <2> DEFINE k == [ack EXCEPT !.mss = mssFor(conns[c], s), !.rcv = @ + Len(s.lines)]
             fl == AckFlag(conns[c], s) \cup DataFlag(s)
             o(page) == IF fl = {} THEN Outcome(k, get_string_global, {})
                        ELSE appsend(k, AppCall(k, fl, s.lines, page))
  <2>1. mssFor(conns[c], s) \in Nat /\ ack.rcv + Len(s.lines) \in Nat
    <3>1. conns[c].initialmss \in Nat /\ ack.rcv \in Nat
      BY <1>1, <1>4 DEF ConnType
    <3> QED BY <1>5, <3>1 DEF mssFor
  <2>2. k \in ConnType /\ k.peer = conns[c].peer
    BY <1>4, <2>1 DEF ConnType
  <2>3. PICK page \in Pages : Apply(c, o(page)) /\ Remember(ack, [o(page) EXCEPT !.conn = k])
    BY <1>10 DEF EstablishedInput, ack
  <2>4. fl \in SUBSET AppFlags
    BY DEF AppFlags, AckFlag, DataFlag
  <2> HIDE DEF k, fl
  <2>5. AppCall(k, fl, s.lines, page) \in CallType
    BY <1>1, <1>5, <2>2, <2>4, AppCallOK
  <2>6. appsend(k, AppCall(k, fl, s.lines, page)) \in OutcomeType
        /\ appsend(k, AppCall(k, fl, s.lines, page)).conn.peer = k.peer
    BY <1>3, <2>2, <2>5, AppsendOK
  <2>7. Outcome(k, get_string_global, {}) \in OutcomeType
        /\ Outcome(k, get_string_global, {}).conn.peer = k.peer
    BY <1>1, <2>2 DEF Outcome, OutcomeType
  <2>8. o(page) \in OutcomeType /\ o(page).conn.peer = conns[c].peer
    BY <2>2, <2>6, <2>7
  <2>9. changed' \in [Client -> BOOLEAN]
    BY <1>1, <2>3, RememberOK
  <2> HIDE DEF o
  <2> QED BY <1>2, <2>3, <2>8, <2>9, AnswerStep
<1>11. CASE EstablishedFin(s, c)
  <2>1. CASE ack.len > 0
    BY <1>11, <1>a, <2>1 DEF EstablishedFin, Quiet, ack
  <2>2. CASE ~(ack.len > 0)
    <3> DEFINE fl == {"CLOSE"} \cup AckFlag(conns[c], s) \cup DataFlag(s)
               t(page) == AppCall(ack, fl, s.lines, page)
               l(page) == [ack EXCEPT !.rcv = @ + 1 + Len(s.lines), !.len = 1, !.st = "LAST_ACK",
                                      !.nrtx = 0, !.app = t(page).app]
               o(page) == Outcome(l(page), t(page).url, {Segment(l(page), {"FIN", "ACK"}, <<>>)})
    <3>1. PICK page \in Pages : Apply(c, o(page))
      BY <1>11, <2>2 DEF EstablishedFin, ack
    <3>2. fl \in SUBSET AppFlags
      BY DEF AppFlags, AckFlag, DataFlag
    <3> HIDE DEF fl
    <3>3. t(page) \in CallType
      BY <1>1, <1>4, <1>5, <3>2, AppCallOK
    <3> HIDE DEF t
    <3>4. t(page).app \in AppType /\ t(page).url \in URL
      BY <3>3 DEF CallType
    <3>5. "LAST_ACK" \in AnyState /\ 0 \in 0 .. UIP_MAXRTX /\ ack.rcv + 1 + Len(s.lines) \in Nat
      BY <1>4, <1>5, UipAssumption DEF AnyState, ConnType
    <3>6. l(page) \in ConnType /\ l(page).peer = conns[c].peer
      BY <1>4, <3>4, <3>5 DEF ConnType
    <3> HIDE DEF l
    <3>7. Segment(l(page), {"FIN", "ACK"}, <<>>) \in FromServer
      BY <1>3, <1>6, <3>6, SegmentOK
    <3>8. o(page) \in OutcomeType /\ o(page).conn.peer = conns[c].peer
      BY <3>4, <3>6, <3>7 DEF Outcome, OutcomeType
    <3>9. changed' \in [Client -> BOOLEAN]
      BY <1>1, <1>11 DEF EstablishedFin, Quiet
    <3> HIDE DEF o
    <3> QED BY <1>2, <3>1, <3>8, <3>9, AnswerStep
  <2> QED BY <2>1, <2>2
<1>12. CASE ClosingInput(s, c)
  <2> DEFINE waits == ack.st \in {"FIN_WAIT_1", "FIN_WAIT_2"}
             fin == waits /\ "FIN" \in s.flags
             st == AfterFin(ack, s, Acknowledges(conns[c], s))
             told == fin \/ st = "CLOSED"
             app == IF told THEN Told(ack, "CLOSE") ELSE ack.app
             rcv == ack.rcv + (IF waits THEN Len(s.lines) ELSE 0) + (IF fin THEN 1 ELSE 0)
             l == [ack EXCEPT !.st = st, !.app = app, !.rcv = rcv]
             drop == ack.st = "FIN_WAIT_1" /\ Acknowledges(conns[c], s)
             out == IF fin \/ (waits /\ s.lines # <<>> /\ ~drop)
                    THEN {Segment(l, {"ACK"}, <<>>)} ELSE {}
             o == Outcome(l, get_string_global, out)
  <2>1. Apply(c, o) /\ UNCHANGED changed
    BY <1>12 DEF ClosingInput, Quiet, ack
  <2>2. st \in AnyState \cup {"CLOSED"}
    <3>1. ack.st \in {"LAST_ACK", "FIN_WAIT_1", "FIN_WAIT_2", "CLOSING"}
      BY <1>4, <1>12 DEF ClosingInput, InSequence, Found
    <3> QED BY <3>1 DEF AfterFin, AnyState
  <2> HIDE DEF st
  <2>3. app \in AppType
    <3>1. Told(ack, "CLOSE") \in AppType
      BY <1>4, ToldType
    <3> QED BY <1>4, <3>1 DEF ConnType
  <2> HIDE DEF app
  <2>4. rcv \in Nat
    <3>1. ack.rcv \in Nat
      BY <1>4 DEF ConnType
    <3> QED BY <1>5, <3>1
  <2> HIDE DEF rcv
  <2>5. l \in ConnType /\ l.peer = conns[c].peer
    BY <1>4, <2>2, <2>3, <2>4 DEF ConnType
  <2> HIDE DEF l
  <2>6. out \in SUBSET FromServer
    <3>1. Segment(l, {"ACK"}, <<>>) \in FromServer
      BY <1>3, <1>6, <2>5, SegmentOK
    <3> QED BY <3>1
  <2> HIDE DEF out
  <2>7. o \in OutcomeType /\ o.conn.peer = conns[c].peer
    BY <1>1, <2>5, <2>6 DEF Outcome, OutcomeType
  <2>8. changed' \in [Client -> BOOLEAN]
    BY <1>1, <2>1
  <2> HIDE DEF o
  <2> QED BY <1>2, <2>1, <2>7, <2>8, AnswerStep
<1> QED BY <1>7, <1>8, <1>9, <1>10, <1>11, <1>12

\* uip_periodic, and uip_init.
LEMMA PeriodicStep ==
    ASSUME ServerTypes, NetTypes, StackInit \/ \E c \in Slot : Periodic(c)
    PROVE  StepOK
<1>1. CASE StackInit
  <2>1. conns' \in [Slot -> ConnType] /\ SlotsKept
    BY <1>1 DEF StackInit, ServerTypes, SlotsKept, ConnType
  <2> QED BY <1>1, <2>1, StepFrom DEF StackInit, Tick, ServerTypes, NetTypes
<1>2. ASSUME NEW c \in Slot, Periodic(c)
      PROVE  StepOK
  <2>1. conns[c] \in ConnType /\ get_string_global \in URL /\ changed \in [Client -> BOOLEAN]
        /\ (conns[c].st # "CLOSED" => conns[c].peer \in Client)
    BY DEF ServerTypes
  <2>2. {"RST", "ACK"} \in SUBSET Flags /\ {"SYN", "ACK"} \in SUBSET Flags
        /\ {"FIN", "ACK"} \in SUBSET Flags /\ <<>> \in Seq(Byte)
    BY DEF Flags
  <2>3. ASSUME NEW k \in ConnType, NEW fl \in SUBSET Flags, k.peer = conns[c].peer,
               conns[c].st # "CLOSED", Apply(c, Outcome(k, get_string_global, {Segment(k, fl, <<>>)})),
               Tick, UNCHANGED changed
        PROVE  StepOK
    <3> DEFINE o == Outcome(k, get_string_global, {Segment(k, fl, <<>>)})
    <3>1. Segment(k, fl, <<>>) \in FromServer
      BY <2>1, <2>2, <2>3, SegmentOK
    <3>2. o \in OutcomeType /\ o.conn.peer = conns[c].peer
      BY <2>1, <2>3, <3>1 DEF Outcome, OutcomeType
    <3>3. Apply(c, o) /\ toServer' \subseteq toServer /\ UNCHANGED opened
          /\ changed' \in [Client -> BOOLEAN]
      BY <2>1, <2>3 DEF Tick
    <3> HIDE DEF o
    <3> QED BY <2>3, <3>2, <3>3, AnswerStep
  <2>4. CASE WaitExpires(c)
    <3> DEFINE k == [conns[c] EXCEPT !.st = "CLOSED"]
    <3>1. k \in ConnType /\ k.st = "CLOSED"
      BY <2>1 DEF ConnType
    <3>2. conns' = [conns EXCEPT ![c] = k]
          /\ UNCHANGED <<get_string_global, toClient, opened, changed, toServer>>
      BY <2>4 DEF WaitExpires, Tick
    <3> HIDE DEF k
    <3> QED BY <3>1, <3>2, SlotStep
  <2>5. CASE Poll(c)
    <3> DEFINE k == [conns[c] EXCEPT !.nrtx = 0]
    <3>1. 0 \in 0 .. UIP_MAXRTX
      BY UipAssumption
    <3>2. k \in ConnType /\ k.peer = conns[c].peer /\ k.st = conns[c].st
      BY <2>1, <3>1 DEF ConnType
    <3>3. conns' = [conns EXCEPT ![c] = k]
          /\ UNCHANGED <<get_string_global, toClient, opened, changed, toServer>>
      BY <2>5 DEF Poll, Tick
    <3> HIDE DEF k
    <3> QED BY <3>2, <3>3, SlotStep
  <2>6. CASE NothingDue(c)
    <3>1. SlotsKept
      BY <2>6 DEF NothingDue, vars, serverVars, SlotsKept
    <3> QED BY <2>6, <3>1, StepFrom DEF NothingDue, vars, serverVars, ServerTypes, NetTypes
  <2>7. CASE GiveUp(c)
    <3> DEFINE k == [conns[c] EXCEPT !.st = "CLOSED", !.app = Told(conns[c], "TIMEDOUT")]
    <3>1. Told(conns[c], "TIMEDOUT") \in AppType
      BY <2>1, ToldType
    <3>2. k \in ConnType /\ k.peer = conns[c].peer
      BY <2>1, <3>1 DEF ConnType
    <3>3. Apply(c, Outcome(k, get_string_global, {Segment(k, {"RST", "ACK"}, <<>>)}))
          /\ Tick /\ UNCHANGED changed /\ conns[c].st # "CLOSED"
      BY <2>7 DEF GiveUp, Outstanding, Live
    <3> HIDE DEF k
    <3> QED BY <2>2, <2>3, <3>2, <3>3
  <2>8. CASE Retransmit(c)
    <3> DEFINE k == [conns[c] EXCEPT !.nrtx = @ + 1]
    <3>1. conns[c].st # "CLOSED" /\ Tick
      BY <2>8 DEF Retransmit, Outstanding, Live
    <3>2. conns[c].nrtx + 1 \in 0 .. UIP_MAXRTX
      <4>1. conns[c].nrtx \in 0 .. UIP_MAXRTX /\ conns[c].nrtx # UIP_MAXRTX
        BY <2>1, <2>8 DEF Retransmit, GivesUp, ConnType
      <4> QED BY <4>1, UipAssumption
    <3>3. k \in ConnType /\ k.peer = conns[c].peer /\ k.st = conns[c].st
      BY <2>1, <3>2 DEF ConnType
    <3>4. CASE k.st = "SYN_RCVD"
      <4>1. Apply(c, Outcome(k, get_string_global, {Segment(k, {"SYN", "ACK"}, <<>>)}))
            /\ UNCHANGED changed
        BY <2>8, <3>4 DEF Retransmit
      <4> HIDE DEF k
      <4> QED BY <2>2, <2>3, <3>1, <3>3, <4>1
    <3>5. CASE k.st = "ESTABLISHED"
      <4>1. PICK page \in Pages :
              LET t == AppCall(k, {"REXMIT"}, <<>>, page)
                  o == apprexmit([k EXCEPT !.app = t.app], t)
              IN  Apply(c, o) /\ Remember(k, o)
        BY <2>8, <3>5 DEF Retransmit
      <4> HIDE DEF k
      <4> DEFINE t == AppCall(k, {"REXMIT"}, <<>>, page)
                 l == [k EXCEPT !.app = t.app]
                 o == apprexmit(l, t)
      <4>2. t \in CallType
        <5>1. {"REXMIT"} \in SUBSET AppFlags /\ <<>> \in Seq(Line)
          BY DEF AppFlags
        <5> QED BY <2>1, <3>3, <5>1, AppCallOK
      <4>3. l \in ConnType /\ l.peer = conns[c].peer
        <5> HIDE DEF t
        <5>1. t.app \in AppType
          BY <4>2 DEF CallType
        <5> QED BY <3>3, <5>1 DEF ConnType
      <4>4. o \in OutcomeType /\ o.conn = l
        <5> HIDE DEF l, t
        <5> QED BY <2>1, <3>1, <4>2, <4>3, ApprexmitOK
      <4>5. Apply(c, o) /\ Remember(k, o)
        BY <4>1
      <4> HIDE DEF o, l
      <4>6. changed' \in [Client -> BOOLEAN] /\ toServer' \subseteq toServer /\ UNCHANGED opened
        BY <2>1, <3>1, <4>5, RememberOK DEF Tick
      <4> QED BY <3>1, <4>3, <4>4, <4>5, <4>6, AnswerStep
    <3>6. CASE k.st \notin {"SYN_RCVD", "ESTABLISHED"}
      <4>1. Apply(c, Outcome(k, get_string_global, {Segment(k, {"FIN", "ACK"}, <<>>)}))
            /\ UNCHANGED changed
        BY <2>8, <3>6 DEF Retransmit
      <4> HIDE DEF k
      <4> QED BY <2>2, <2>3, <3>1, <3>3, <4>1
    <3> QED BY <3>4, <3>5, <3>6
  <2> QED BY <1>2, <2>4, <2>5, <2>6, <2>7, <2>8 DEF Periodic
<1> QED BY <1>1, <1>2

\* A new connection: its client had no slot.
LEMMA ListenStep ==
    ASSUME ServerTypes, NetTypes, NEW s \in toServer, NEW c \in Slot, Listen(s, c)
    PROVE  /\ ServerTypes' /\ NetTypes'
           /\ \A d \in Slot : conns[d].st # "CLOSED" => conns[d].peer # s.from
           /\ conns'[c].peer = s.from /\ \A d \in Slot \ {c} : conns'[d] = conns[d]
<1> DEFINE mss == IF s.mss = 0 THEN conns[c].initialmss ELSE Clamp(s.mss, UIP_TCP_MSS)
           mss2 == IF s.mss = 0 THEN conns[c].mss ELSE mss
           rcv == s.seq + 1
           gen == opened + 1
           k == [conns[c] EXCEPT !.st = "SYN_RCVD", !.peer = s.from, !.gen = gen, !.nrtx = 0,
                                 !.snd = 0, !.len = 1, !.rcv = rcv, !.initialmss = mss, !.mss = mss2]
           o == Outcome(k, get_string_global, {Segment(k, {"SYN", "ACK"}, <<>>)})
<1>1. s \in FromClient /\ conns \in [Slot -> ConnType] /\ get_string_global \in URL
  BY DEF NetTypes, ServerTypes
<1>2. conns[c] \in ConnType
  BY <1>1
<1>3. mss \in Nat /\ mss2 \in Nat /\ rcv \in Nat
  <2>1. conns[c].initialmss \in Nat /\ conns[c].mss \in Nat /\ s.mss \in Nat /\ s.seq \in Nat
    BY <1>1, <1>2 DEF ConnType, FromClient
  <2>2. Clamp(s.mss, UIP_TCP_MSS) \in Nat
    BY <2>1, UipAssumption DEF Clamp
  <2> QED BY <2>1, <2>2
<1>4. gen \in 1 .. MaxOpened /\ opened' = gen /\ toServer' \subseteq toServer /\ UNCHANGED changed
  BY UipAssumption DEF Listen, Take, ServerTypes
<1>5. "SYN_RCVD" \in AnyState /\ 0 \in 0 .. UIP_MAXRTX /\ s.from \in Client /\ gen \in Nat
  BY <1>1, <1>4, UipAssumption DEF AnyState, FromClient
<1>6. Apply(c, o)
  <2>1. gen = opened'
    BY <1>4
  <2> HIDE DEF gen
  <2> QED BY <2>1 DEF Listen
<1> HIDE DEF mss, mss2, rcv, gen
<1>7. k \in ConnType /\ k.peer = s.from
  BY <1>2, <1>3, <1>5 DEF ConnType
<1> HIDE DEF k
<1>8. o \in OutcomeType /\ o.conn = k
  <2>1. {"SYN", "ACK"} \in SUBSET Flags /\ <<>> \in Seq(Byte)
    BY DEF Flags
  <2>2. Segment(k, {"SYN", "ACK"}, <<>>) \in FromServer
    BY <1>5, <1>7, <2>1, SegmentOK
  <2> QED BY <1>1, <1>7, <2>2 DEF Outcome, OutcomeType
<1> HIDE DEF o
<1>9. conns' = [conns EXCEPT ![c] = k] /\ get_string_global' \in URL
      /\ toClient' \in SUBSET FromServer
  BY <1>6, <1>8 DEF Apply, SentTo, OutcomeType, NetTypes
<1>10. conns' \in [Slot -> ConnType] /\ conns'[c] = k /\ \A d \in Slot \ {c} : conns'[d] = conns[d]
  BY <1>1, <1>7, <1>9
<1>11. ServerTypes' /\ NetTypes'
  BY <1>4, <1>5, <1>7, <1>9, <1>10 DEF ServerTypes, NetTypes
<1>12. \A d \in Slot : conns[d].st # "CLOSED" => conns[d].peer # s.from
  BY DEF Listen, SlotOf, Live
<1> QED BY <1>7, <1>10, <1>11, <1>12

\* A segment that fits no connection is answered with a reset.
LEMMA NoConnectionStep ==
    ASSUME ServerTypes, NetTypes, NEW s \in toServer, NoConnection(s)
    PROVE  StepOK
<1> DEFINE g == [to |-> s.from, flags |-> {"RST", "ACK"}, gen |-> s.gen, seq |-> s.ack,
                 ack |-> s.seq + 1, data |-> <<>>]
<1>1. s.from \in Client /\ s.gen \in Nat /\ s.ack \in Nat /\ s.seq + 1 \in Nat
  BY DEF NetTypes, FromClient
<1>2. g \in FromServer
  BY <1>1 DEF FromServer, Flags
<1>3. toClient' \subseteq toClient \cup {g} /\ toServer' \subseteq toServer
  BY DEF NoConnection, SentTo, Take
<1> HIDE DEF g
<1>4. SlotsKept
  BY DEF NoConnection, serverVars, SlotsKept
<1> QED BY <1>2, <1>3, <1>4, StepFrom DEF NoConnection, serverVars, ServerTypes, NetTypes

-----------------------------------------------------------------------------
(* The clients and the network.                                            *)

\* What a client sends.
LEMMA ClientSegmentOK ==
    ASSUME NEW p \in Client, NEW k \in ClientType, NEW flags \in SUBSET Flags, NEW seq \in Nat,
           NEW lines \in Seq(Line), NEW wnd \in Nat
    PROVE  ClientSegment(p, k, flags, seq, lines, wnd) \in FromClient
BY DEF ClientSegment, FromClient, ClientType

\* Any part of the request is made of lines.
LEMMA RequestPart ==
    ASSUME NEW p \in Client, NEW m \in Nat, NEW n \in 0 .. 2, 1 <= m, m <= n + 1
    PROVE  SubSeq(RequestLines(p), m, n) \in Seq(Line)
<1> DEFINE lines == RequestLines(p)
           len == 1 + n - m
<1>1. lines[1] \in Line /\ lines[2] \in Line
  BY UipAssumption DEF RequestLines, Line
<1> HIDE DEF lines
<1>2. len \in Nat /\ \A i \in 1 .. len : i + m - 1 \in {1, 2}
  OBVIOUS
<1>3. SubSeq(lines, m, n) = [i \in 1 .. len |-> lines[i + m - 1]]
  OBVIOUS
<1>4. \A i \in 1 .. len : lines[i + m - 1] \in Line
  BY <1>1, <1>2
<1> HIDE DEF len
<1> QED BY <1>2, <1>3, <1>4 DEF lines

\* A client that sends does not touch the server.
LEMMA SendsOK ==
    ASSUME ClientTypes, NetTypes, NEW p \in Client, NEW k \in ClientType, ClientSane(k),
           NEW segs \in SUBSET FromClient, ClientSends(p, k, segs)
    PROVE  ClientTypes' /\ NetTypes' /\ UNCHANGED serverVars
<1>1. toServer' \in SUBSET FromClient /\ UNCHANGED toClient
  BY DEF ClientSends, SentBy, NetTypes
<1>2. client' = [client EXCEPT ![p] = k]
  BY DEF ClientSends
<1>3. ClientTypes'
  BY <1>2 DEF ClientTypes
<1> QED BY <1>1, <1>3 DEF ClientSends, NetTypes

\* What a client takes over from a segment.
LEMMA ReceivedOK ==
    ASSUME NEW k \in ClientType, ClientSane(k), NEW g \in FromServer
    PROVE  /\ Received(k, g) \in ClientType /\ ClientSane(Received(k, g))
           /\ Received(k, g).st = k.st /\ Received(k, g).snt = k.snt
<1> DEFINE inOrder == g.seq = k.nxt
           fin == inOrder /\ "FIN" \in g.flags
           una == IF g.ack > k.una THEN g.ack ELSE k.una
           got == IF inOrder THEN k.got \o g.data ELSE k.got
           nxt == k.nxt + (IF inOrder THEN Len(g.data) ELSE 0) + (IF fin THEN 1 ELSE 0)
           eof == k.eof \/ fin
<1>1. g.ack \in Nat /\ g.data \in Seq(Byte) /\ k.una \in Nat /\ k.nxt \in Nat /\ k.got \in Seq(Byte)
      /\ k.eof \in BOOLEAN
  BY DEF FromServer, ClientType
<1>2. una \in Nat /\ una >= k.una /\ got \in Seq(Byte) /\ nxt \in Nat /\ eof \in BOOLEAN
  BY <1>1
<1>3. Received(k, g) = [k EXCEPT !.una = una, !.got = got, !.nxt = nxt, !.eof = eof]
  BY DEF Received
<1> HIDE DEF una, got, nxt, eof
<1>4. [k EXCEPT !.una = una, !.got = got, !.nxt = nxt, !.eof = eof] \in ClientType
  BY <1>2 DEF ClientType
<1>5. Received(k, g).una = una /\ Received(k, g).st = k.st /\ Received(k, g).snt = k.snt
  BY <1>3 DEF ClientType
<1> QED BY <1>1, <1>2, <1>3, <1>4, <1>5 DEF ClientSane

\* A client that has seen the end sends its own FIN.
LEMMA FinishOK ==
    ASSUME NEW k \in ClientType, ClientSane(k)
    PROVE  /\ Finish(k) \in ClientType /\ ClientSane(Finish(k))
           /\ k.st = "est" /\ Finish(k).st = "fin" => Finish(k).snt >= 1
<1>1. CASE k.st = "est" /\ k.eof
  <2>1. Finish(k) = [k EXCEPT !.st = "fin", !.snt = k.snt + 1] /\ k.snt + 1 \in Nat /\ k.snt \in Nat
    BY <1>1 DEF Finish, ClientType
  <2>2. [k EXCEPT !.st = "fin", !.snt = k.snt + 1] \in ClientType
    BY <2>1 DEF ClientType
  <2>3. Finish(k).st = "fin" /\ Finish(k).snt = k.snt + 1 /\ Finish(k).una = k.una
    BY <2>1 DEF ClientType
  <2> QED BY <1>1, <2>1, <2>2, <2>3 DEF ClientSane
<1>2. CASE ~(k.st = "est" /\ k.eof) /\ k.st = "fin" /\ k.eof /\ k.una = k.snt
  <2>1. Finish(k) = [k EXCEPT !.st = "done"]
    BY <1>2 DEF Finish
  <2> QED BY <1>2, <2>1 DEF ClientType, ClientSane
<1>3. CASE ~(k.st = "est" /\ k.eof) /\ ~(k.st = "fin" /\ k.eof /\ k.una = k.snt)
  <2>1. Finish(k) = k
    BY <1>3 DEF Finish
  <2> QED BY <2>1
<1> QED BY <1>1, <1>2, <1>3

\* What a client answers.
LEMMA AnswerOK ==
    ASSUME NEW k \in ClientType, ClientSane(k), NEW g \in FromServer
    PROVE  /\ Answer(k, g)[1] \in ClientType /\ ClientSane(Answer(k, g)[1])
           /\ Answer(k, g)[2] \in SUBSET Flags
           /\ "FIN" \in Answer(k, g)[2] => Answer(k, g)[1].snt >= 1
<1> DEFINE reset == "RST" \in g.flags
           l == Finish(Received(k, g))
           est == [k EXCEPT !.st = "est", !.gen = g.gen, !.nxt = 1, !.una = 1]
           done == [k EXCEPT !.st = "done"]
<1>1. l \in ClientType /\ ClientSane(l) /\ (k.st = "est" /\ l.st = "fin" => l.snt >= 1)
  BY ReceivedOK, FinishOK
<1>2. done \in ClientType /\ ClientSane(done)
  BY DEF ClientType, ClientSane
<1>3. k.st = "syn" => est \in ClientType /\ ClientSane(est)
  <2>1. g.gen \in Nat /\ 1 \in Nat
    BY DEF FromServer
  <2>2. est \in ClientType
    BY <2>1 DEF ClientType
  <2>3. est.st = "est" /\ est.una = 1 /\ est.snt = k.snt
    BY DEF ClientType
  <2> QED BY <2>2, <2>3 DEF ClientSane
<1>4. {"RST"} \in SUBSET Flags /\ {"ACK"} \in SUBSET Flags /\ {"FIN", "ACK"} \in SUBSET Flags
      /\ {} \in SUBSET Flags
  BY DEF Flags
<1>5. CASE k.st = "gone"
  BY <1>4, <1>5 DEF Answer
<1>6. CASE k.st = "done"
  BY <1>4, <1>6 DEF Answer
<1>7. CASE k.st = "syn"
  <2> HIDE DEF est
  <2> QED BY <1>3, <1>4, <1>7 DEF Answer, est
<1>8. CASE k.st \notin {"gone", "done", "syn"}
  <2>1. Answer(k, g) =
          IF g.gen # k.gen THEN <<k, IF reset THEN {} ELSE {"ACK"}>>
          ELSE IF reset THEN <<done, {}>>
          ELSE <<l, IF k.st = "est" /\ l.st = "fin" THEN {"FIN", "ACK"}
                    ELSE IF g.data # <<>> \/ g.flags \cap {"SYN", "FIN"} # {} THEN {"ACK"}
                    ELSE {}>>
    BY <1>8 DEF Answer
  <2> HIDE DEF l, done, reset
  <2> QED BY <1>1, <1>2, <1>4, <2>1
<1> QED BY <1>5, <1>6, <1>7, <1>8

\* No step of the clients or of the network changes the server.
LEMMA ClientStep ==
    ASSUME ClientTypes, NetTypes, Clients \/ Lose
    PROVE  ClientTypes' /\ NetTypes' /\ UNCHANGED serverVars
<1>1. CASE Lose
  BY <1>1 DEF Lose, NetTypes, ClientTypes
<1> USE UipAssumption
<1>2. ASSUME NEW p \in Client
      PROVE  client[p] \in ClientType /\ ClientSane(client[p]) /\ client[p].snt \in Nat
             /\ client[p].una \in Nat
  BY <1>2 DEF ClientTypes, ClientType
<1>3. ASSUME NEW p \in Client, NEW mss \in MssOptions
      PROVE  Syn(p, mss) \in FromClient
  <2>1. mss \in Nat /\ {"SYN"} \in SUBSET Flags /\ <<>> \in Seq(Line) /\ <<>> \in Seq(Byte)
    BY DEF Flags
  <2>2. NewClient \in ClientType
    BY <2>1 DEF NewClient, ClientType
  <2>3. ClientSegment(p, NewClient, {"SYN"}, 0, <<>>, 0) \in FromClient
    BY <2>1, <2>2, ClientSegmentOK
  <2> QED BY <2>1, <2>3 DEF Syn, FromClient
<1>4. ASSUME NEW p \in Client, Connect(p)
      PROVE  ClientTypes' /\ NetTypes' /\ UNCHANGED serverVars
  <2> DEFINE k == [client[p] EXCEPT !.st = "syn", !.snt = 1]
  <2>1. PICK mss \in MssOptions : ClientSends(p, k, {Syn(p, mss)})
    BY <1>4 DEF Connect
  <2>a. client[p] \in ClientType /\ ClientSane(client[p]) /\ client[p].una \in Nat
    BY <1>2
  <2>b. /\ k.st = "syn" /\ k.snt = 1 /\ k.una = client[p].una /\ k.gen = client[p].gen
        /\ k \in ClientType
    BY <2>a DEF ClientType
  <2>2. k \in ClientType /\ ClientSane(k)
    BY <2>a, <2>b DEF ClientSane
  <2> HIDE DEF k
  <2>3. {Syn(p, mss)} \in SUBSET FromClient
    BY <1>3
  <2> QED BY <2>1, <2>2, <2>3, SendsOK
<1>5. ASSUME NEW p \in Client, NEW n \in 1 .. 2, SendRequest(p, n)
      PROVE  ClientTypes' /\ NetTypes' /\ UNCHANGED serverVars
  <2> DEFINE c == client[p]
             k == [c EXCEPT !.snt = n + 1]
             g(wnd) == ClientSegment(p, c, {"ACK"}, c.snt, SubSeq(RequestLines(p), c.snt, n), wnd)
  <2>1. PICK wnd \in Windows : ClientSends(p, k, {g(wnd)})
    BY <1>5 DEF SendRequest
  <2>2. c \in ClientType /\ c.st = "est" /\ c.snt \in 1 .. 3 /\ c.snt <= n /\ c.una >= 1
    BY <1>2, <1>5 DEF SendRequest, ClientSane
  <2> HIDE DEF c
  <2>3. k \in ClientType /\ ClientSane(k)
    <3>1. n + 1 \in 1 .. 3 /\ n + 1 \in Nat
      OBVIOUS
    <3>2. k \in ClientType /\ k.st = "est" /\ k.snt = n + 1 /\ k.una = c.una
      BY <2>2, <3>1 DEF ClientType
    <3> QED BY <2>2, <3>1, <3>2 DEF ClientSane
  <2>4. SubSeq(RequestLines(p), c.snt, n) \in Seq(Line)
    BY <2>2, RequestPart
  <2>5. {"ACK"} \in SUBSET Flags /\ c.snt \in Nat /\ wnd \in Nat
    BY <2>2 DEF Flags
  <2>6. g(wnd) \in FromClient
    BY <2>2, <2>4, <2>5, ClientSegmentOK
  <2> HIDE DEF k, g
  <2> QED BY <2>1, <2>3, <2>6, SendsOK
<1>6. ASSUME NEW p \in Client, ClientRetransmits(p)
      PROVE  ClientTypes' /\ NetTypes' /\ UNCHANGED serverVars
  <2> DEFINE c == client[p]
             last == IF c.st = "fin" THEN c.snt - 2 ELSE c.snt - 1
             flags == {"ACK"} \cup IF c.st = "fin" THEN {"FIN"} ELSE {}
             g(wnd) == ClientSegment(p, c, flags, c.una, SubSeq(RequestLines(p), c.una, last), wnd)
  <2>1. CASE c.st = "syn" /\ \E mss \in MssOptions : ClientSends(p, c, {Syn(p, mss)})
    <3>1. PICK mss \in MssOptions : ClientSends(p, c, {Syn(p, mss)})
      BY <2>1
    <3>2. {Syn(p, mss)} \in SUBSET FromClient
      BY <1>3
    <3> QED BY <1>2, <3>1, <3>2, SendsOK
  <2>2. CASE /\ c.st \in {"est", "fin"} /\ c.una < c.snt
             /\ \E wnd \in Windows : ClientSends(p, c, {g(wnd)})
    <3>1. PICK wnd \in Windows : ClientSends(p, c, {g(wnd)})
      BY <2>2
    <3>2. c \in ClientType /\ ClientSane(c) /\ c.una \in Nat
      BY <1>2
    <3>3. last \in 0 .. 2 /\ 1 <= c.una /\ c.una <= last + 1
      BY <2>2, <3>2 DEF ClientSane
    <3>4. flags \in SUBSET Flags /\ wnd \in Nat
      BY DEF Flags
    <3> HIDE DEF last, flags
    <3>5. SubSeq(RequestLines(p), c.una, last) \in Seq(Line)
      BY <3>2, <3>3, RequestPart
    <3>6. g(wnd) \in FromClient
      BY <3>2, <3>4, <3>5, ClientSegmentOK
    <3> HIDE DEF g
    <3> QED BY <3>1, <3>2, <3>6, SendsOK
  <2> QED BY <1>6, <2>1, <2>2 DEF ClientRetransmits
<1>7. ASSUME NEW p \in Client, NEW how, LeaveEarly(p, how)
      PROVE  ClientTypes' /\ NetTypes' /\ UNCHANGED serverVars
  <2> DEFINE c == client[p]
  <2>1. c \in ClientType /\ c.st = "est" /\ c.snt \in 1 .. 3 /\ c.una >= 1 /\ c.snt \in Nat
    BY <1>2, <1>7 DEF LeaveEarly, ClientSane
  <2>2. {"RST"} \in SUBSET Flags /\ {"FIN", "ACK"} \in SUBSET Flags /\ <<>> \in Seq(Line)
    BY DEF Flags
  <2>3. CASE ClientSends(p, [c EXCEPT !.st = "done"], {ClientSegment(p, c, {"RST"}, c.snt, <<>>, 0)})
    <3> DEFINE k == [c EXCEPT !.st = "done"]
    <3>1. k \in ClientType /\ ClientSane(k)
      BY <2>1 DEF ClientType, ClientSane
    <3>2. ClientSegment(p, c, {"RST"}, c.snt, <<>>, 0) \in FromClient
      BY <2>1, <2>2, ClientSegmentOK
    <3> HIDE DEF k
    <3> QED BY <2>3, <3>1, <3>2, SendsOK DEF k
  <2>4. CASE ClientSends(p, [c EXCEPT !.st = "gone"], {})
    <3> DEFINE k == [c EXCEPT !.st = "gone"]
    <3>1. k \in ClientType /\ ClientSane(k)
      BY <2>1 DEF ClientType, ClientSane
    <3>2. ClientSends(p, k, {})
      BY <2>4
    <3> HIDE DEF k
    <3> QED BY <3>1, <3>2, SendsOK
  <2>5. CASE \E wnd \in Windows :
               ClientSends(p, [c EXCEPT !.st = "fin", !.snt = @ + 1],
                           {ClientSegment(p, c, {"FIN", "ACK"}, c.snt, <<>>, wnd)})
    <3> DEFINE k == [c EXCEPT !.st = "fin", !.snt = @ + 1]
    <3>1. PICK wnd \in Windows : ClientSends(p, k, {ClientSegment(p, c, {"FIN", "ACK"}, c.snt, <<>>, wnd)})
      BY <2>5
    <3> HIDE DEF c
    <3>2. k \in ClientType /\ ClientSane(k)
      <4>1. c.snt + 1 \in 2 .. 4 /\ c.snt + 1 \in Nat
        BY <2>1
      <4>2. k \in ClientType /\ k.st = "fin" /\ k.snt = c.snt + 1 /\ k.una = c.una
        BY <2>1, <4>1 DEF ClientType
      <4> QED BY <2>1, <4>1, <4>2 DEF ClientSane
    <3>3. ClientSegment(p, c, {"FIN", "ACK"}, c.snt, <<>>, wnd) \in FromClient
      BY <2>1, <2>2, ClientSegmentOK
    <3> HIDE DEF k
    <3> QED BY <3>1, <3>2, <3>3, SendsOK
  <2> QED BY <1>7, <2>3, <2>4, <2>5 DEF LeaveEarly
<1>8. ASSUME NEW g \in toClient, ClientReceives(g)
      PROVE  ClientTypes' /\ NetTypes' /\ UNCHANGED serverVars
  <2> DEFINE p == g.to
             k == Answer(client[p], g)[1]
             flags == Answer(client[p], g)[2]
             seq == IF "FIN" \in flags THEN k.snt - 1 ELSE k.snt
  <2>1. g \in FromServer /\ p \in Client
    BY DEF NetTypes, FromServer
  <2>2. k \in ClientType /\ ClientSane(k) /\ flags \in SUBSET Flags /\ ("FIN" \in flags => k.snt >= 1)
    BY <1>2, <2>1, AnswerOK
  <2>3. /\ toClient' \subseteq toClient
        /\ client' = [client EXCEPT ![p] = k]
        /\ \/ UNCHANGED toServer
           \/ \E wnd \in Windows : toServer' = SentBy(p, {ClientSegment(p, k, flags, seq, <<>>, wnd)})
        /\ UNCHANGED serverVars
    BY <1>8 DEF ClientReceives
  <2> HIDE DEF p, k, flags
  <2>4. seq \in Nat /\ <<>> \in Seq(Line)
    BY <2>2 DEF ClientType
  <2> HIDE DEF seq
  <2>5. \A wnd \in Windows : ClientSegment(p, k, flags, seq, <<>>, wnd) \in FromClient
    BY <2>1, <2>2, <2>4, ClientSegmentOK
  <2>6. NetTypes'
    BY <2>3, <2>5 DEF NetTypes, SentBy
  <2>7. ClientTypes'
    BY <2>1, <2>2, <2>3 DEF ClientTypes
  <2> QED BY <2>3, <2>6, <2>7
<1> QED BY <1>1, <1>4, <1>5, <1>6, <1>7, <1>8 DEF Clients

-----------------------------------------------------------------------------
(* The theorems.                                                           *)

\* What every step keeps: the types of both sides and one slot per client.
SlotInv == ServerTypes /\ NetTypes /\ ClientTypes /\ OneSlotPerClient

\* The invariant holds when the clock is started,
LEMMA InitSlots == Init => SlotInv
<1> SUFFICES ASSUME Init PROVE SlotInv
  OBVIOUS
<1>1. Closed \in ConnType /\ Closed.st = "CLOSED"
  <2>1. NewAppstate \in AppType
    BY DEF NewAppstate, AppType
  <2> QED BY <2>1, UipAssumption DEF Closed, ConnType
<1>2. NewClient \in ClientType /\ ClientSane(NewClient)
  BY DEF NewClient, ClientType, ClientSane
<1>3. conns \in [Slot -> ConnType] /\ \A c \in Slot : conns[c].st = "CLOSED"
  BY <1>1 DEF Init
<1>4. ServerTypes /\ OneSlotPerClient
  BY <1>3, UipAssumption DEF Init, ServerTypes, OneSlotPerClient, Live
<1>5. NetTypes /\ ClientTypes
  BY <1>2 DEF Init, NetTypes, ClientTypes
<1> QED BY <1>4, <1>5 DEF SlotInv

\* Slots that keep their client keep it alone.
LEMMA SlotsStep ==
    ASSUME OneSlotPerClient, SlotsKept
    PROVE  OneSlotPerClient'
BY DEF OneSlotPerClient, SlotsKept, Live

\* and every step keeps it: one step per action.
LEMMA SlotInvStep == SlotInv /\ [Next]_vars => SlotInv'
<1> SUFFICES ASSUME SlotInv, [Next]_vars PROVE SlotInv'
  OBVIOUS
<1> USE DEF SlotInv
<1>1. ASSUME StepOK, UNCHANGED client PROVE SlotInv'
  BY <1>1, SlotsStep DEF StepOK, ClientTypes
<1>2. CASE UNCHANGED vars
  BY <1>2 DEF vars, serverVars, ServerTypes, NetTypes, ClientTypes, OneSlotPerClient, Live
<1>3. CASE Clients \/ Lose
  <2>1. ClientTypes' /\ NetTypes' /\ UNCHANGED serverVars
    BY <1>3, ClientStep
  <2> QED BY <2>1 DEF serverVars, ServerTypes, OneSlotPerClient, Live
<1>4. CASE StackInit \/ \E c \in Slot : Periodic(c)
  <2>1. StepOK
    BY <1>4, PeriodicStep
  <2>2. UNCHANGED client
    BY <1>4 DEF StackInit, Periodic, WaitExpires, GiveUp, Retransmit, Poll, NothingDue, Tick, vars
  <2> QED BY <1>1, <2>1, <2>2
<1>5. ASSUME NEW s \in toServer, NoConnection(s) PROVE SlotInv'
  <2>1. StepOK /\ UNCHANGED client
    BY <1>5, NoConnectionStep DEF NoConnection
  <2> QED BY <1>1, <2>1
<1>6. ASSUME NEW s \in toServer, NEW c \in Slot, Listen(s, c) PROVE SlotInv'
  <2>1. /\ ServerTypes' /\ NetTypes'
        /\ \A d \in Slot : conns[d].st # "CLOSED" => conns[d].peer # s.from
        /\ conns'[c].peer = s.from /\ \A d \in Slot \ {c} : conns'[d] = conns[d]
    BY <1>6, ListenStep
  <2>2. OneSlotPerClient'
    BY <2>1 DEF OneSlotPerClient, Live
  <2>3. ClientTypes'
    BY <1>6 DEF Listen, ClientTypes
  <2> QED BY <2>1, <2>2, <2>3
<1>7. ASSUME NEW s \in toServer, NEW c \in Slot,
             \/ ResetInput(s, c) \/ AckOnly(s, c) \/ SynRcvdInput(s, c)
             \/ EstablishedInput(s, c) \/ EstablishedFin(s, c) \/ ClosingInput(s, c)
      PROVE  SlotInv'
  <2>1. StepOK
    BY <1>7, FoundStep
  <2>2. UNCHANGED client
    BY <1>7 DEF ResetInput, AckOnly, SynRcvdInput, EstablishedInput, EstablishedFin, ClosingInput, Quiet
  <2> QED BY <1>1, <2>1, <2>2
<1> QED BY <1>2, <1>3, <1>4, <1>5, <1>6, <1>7 DEF Next, Input

\* So it always holds.
LEMMA SlotInvariant == Spec => []SlotInv
BY InitSlots, SlotInvStep, PTL DEF Spec

\* Counters and states of uip_conns keep their types; in particular nrtx never
\* passes UIP_MAXRTX.
THEOREM ConnectionsTyped == Spec => []TypeOK
<1>1. SlotInv => TypeOK
  <2> SUFFICES ASSUME SlotInv PROVE TypeOK
    OBVIOUS
  <2>1. ASSUME NEW c \in Slot
        PROVE  LET k == conns[c]
               IN  /\ k.st \in AnyState \cup {"CLOSED"} /\ k.peer \in Client \cup {NoClient}
                   /\ {k.gen, k.snd, k.rcv, k.len, k.initialmss, k.mss} \subseteq Nat
                   /\ k.nrtx \in 0 .. UIP_MAXRTX
                   /\ {k.app.ackedCount, k.app.sentCount, k.app.cursor} \subseteq Nat
                   /\ k.app.request \in BOOLEAN
    <3>1. conns[c] \in ConnType
      BY DEF SlotInv, ServerTypes
    <3>2. conns[c].app \in AppType
      BY <3>1 DEF ConnType
    <3> QED BY <3>1, <3>2 DEF ConnType, AppType
  <2>2. \A p \in Client : client[p].got \in Seq(Byte)
    BY DEF SlotInv, ClientTypes, ClientType
  <2> QED BY <2>1, <2>2 DEF TypeOK, SlotInv, ServerTypes
<1> QED BY SlotInvariant, <1>1, PTL

\* A client never holds two connections of uip_conns, for every number of
\* slots, clients and segments, whatever the network repeats and reorders.
THEOREM ClientHoldsOneSlot == Spec => []OneSlotPerClient
BY SlotInvariant, PTL DEF SlotInv

-----------------------------------------------------------------------------
(***************************************************************************)
(* A page arrives in order (PageInOrder), and the server closes only when  *)
(* its client has all of it (ClosedAfterWholePage), for every number of    *)
(* slots, clients, pages, windows and segments under way.                  *)
(*                                                                         *)
(* Neither is inductive.  What a client appends is right because           *)
(*   - a segment with data that starts at snd was cut out of the page at   *)
(*     ackedCount, and snd = ackedCount + 1 (Connections, Numbers);        *)
(*   - that holds because the bytes acknowledged (len) are those the       *)
(*     application counted (sentCount), since the request is complete once *)
(*     only, before anything is outstanding (Requests, ConnOK);            *)
(*   - nothing beyond a FIN is under way or will be sent (Edges, Fins,     *)
(*     Ends), so that the numbers of a client stay in step with its bytes; *)
(*   - connections, and what is left of earlier ones, are told apart by    *)
(*     their initial sequence numbers (Generations, Acks).                 *)
(***************************************************************************)

Opening == {"SYN_RCVD", "ESTABLISHED"}
FinSent == {"FIN_WAIT_1", "CLOSING", "LAST_ACK"}
Waiting == {"FIN_WAIT_1", "FIN_WAIT_2", "CLOSING", "TIME_WAIT"}

\* The number after the last byte of a segment, and after the last byte of the
\* page that the connection has sent.
End(h) == h.seq + Len(h.data)
Edge(k) == IF k.st \in FinSent THEN k.snd ELSE k.snd + k.len

\* Bytes of a page, the first of them the one with the given number.
Numbered(data, from) == \A i \in DOMAIN data : data[i][2] = from + i - 1

\* What is outstanding is what the application counted and would send again.
Counted(k) ==
    /\ k.snd = k.app.ackedCount + 1
    /\ k.len > 0 => /\ k.app.sentCount = k.len
                    /\ k.len = Clamp(k.app.cursor - k.app.ackedCount, k.mss)

\* A connection in use, its client, and whether window or page changed.
ConnOK(k, q, ch) ==
    /\ k.st = "SYN_RCVD" => k.snd = 0 /\ k.len = 1 /\ k.rcv = 1
    /\ k.st = "ESTABLISHED" /\ k.len > 0 => k.rcv >= 3
    /\ k.st = "ESTABLISHED" /\ ~ch => Counted(k)
    /\ k.st # "SYN_RCVD" => q.gen = k.gen
    /\ k.st \in Opening /\ q.gen = k.gen => q.nxt <= k.snd + k.len
    /\ k.st \in Waiting /\ ~ch => Len(q.got) = k.app.cursor

\* A client counts what it got.
ClientOK(q, ch) ==
    /\ q.st \in {"idle", "syn"} => q.gen = 0
    /\ q.gen = 0 => q.got = <<>> /\ ~q.eof
    /\ q.gen # 0 => q.nxt >= 1 + Len(q.got) /\ (~q.eof => q.nxt = 1 + Len(q.got))
    /\ ~ch => Numbered(q.got, 1)

\* The lines of a request end with the empty one, at number 2.
RequestOK(s) ==
    /\ s.flags = {"SYN"} => s.seq = 0
    /\ s.lines # <<>> => s.seq + Len(s.lines) <= 3
    /\ \A i \in DOMAIN s.lines : s.lines[i] = Blank => s.seq + Len(s.lines) = 3

\* Clients acknowledge what they got, of their own connection.
AckOK(s, q) == s.gen # 0 => s.gen = q.gen /\ s.ack <= q.nxt

-----------------------------------------------------------------------------
(* The inductive invariant.                                                *)

Generations ==
    /\ \A c \in Slot : conns[c].gen <= opened /\ (conns[c].st # "CLOSED" => conns[c].gen >= 1)
    /\ \A c, d \in Slot : conns[c].st # "CLOSED" /\ conns[d].st # "CLOSED"
                              /\ conns[c].gen = conns[d].gen => c = d
    /\ \A g \in toClient : g.gen <= opened /\ (g.data # <<>> \/ "FIN" \in g.flags => g.gen >= 1)
    /\ \A p \in Client : client[p].gen <= opened

Requests == \A s \in toServer : RequestOK(s)
Acks == \A s \in toServer : AckOK(s, client[s.from])

Connections ==
    \A c \in Slot : conns[c].st # "CLOSED" =>
        ConnOK(conns[c], client[conns[c].peer], changed[conns[c].peer])

\* The segments with data.
Numbers == \A h \in toClient : ~changed[h.to] => Numbered(h.data, h.seq)
Edges ==
    \A h \in toClient, c \in Slot :
        h.data # <<>> /\ conns[c].st # "CLOSED" /\ conns[c].gen = h.gen =>
            /\ End(h) <= Edge(conns[c])
            /\ conns[c].st \in Waiting /\ ~changed[conns[c].peer] =>
                   End(h) <= conns[c].app.cursor + 1

\* After a FIN, under way or received, there is nothing more.
Fins ==
    \A g \in toClient : "FIN" \in g.flags =>
        /\ \A h \in toClient : h.data # <<>> /\ h.gen = g.gen => End(h) <= g.seq
        /\ \A c \in Slot : conns[c].st \in Opening => conns[c].gen # g.gen
Ends ==
    \A p \in Client : client[p].eof =>
        /\ \A h \in toClient : h.data # <<>> /\ h.gen = client[p].gen => End(h) < client[p].nxt
        /\ \A c \in Slot : conns[c].st \in Opening => conns[c].gen # client[p].gen

ClientsOK == \A p \in Client : ClientOK(client[p], changed[p])

PageInv ==
    /\ Generations /\ Requests /\ Acks /\ Connections /\ Numbers /\ Edges /\ Fins /\ Ends
    /\ ClientsOK

-----------------------------------------------------------------------------
(* Steps of the server.                                                    *)

\* Connection k of client q becomes l and sends new: what every case of
\* uip_process for a connection has to keep.
SlotFits(k, l, q, ch, new) ==
    /\ l.peer = k.peer /\ l.gen = k.gen
    /\ l.st # "CLOSED" => ConnOK(l, q, ch) /\ Edge(k) <= Edge(l)
    /\ l.st \in Opening => k.st \in Opening
    /\ l.st \in Waiting /\ ~ch => \/ k.st \in Waiting /\ l.app.cursor = k.app.cursor
                                  \/ Edge(l) <= l.app.cursor + 1
    /\ \A g \in new :
         /\ g.to = k.peer /\ g.gen = k.gen
         /\ ~ch => Numbered(g.data, g.seq)
         /\ g.data # <<>> => l.st \in Opening /\ End(g) <= Edge(l)
         /\ "FIN" \in g.flags => l.st \in FinSent /\ Edge(l) <= g.seq

\* Ends and edges are numbers.
LEMMA EndType == \A h \in FromServer : End(h) \in Nat /\ h.seq \in Nat /\ h.gen \in Nat
BY DEF End, FromServer
LEMMA EdgeType == \A k \in ConnType : Edge(k) \in Nat /\ k.gen \in Nat /\ k.app.cursor \in Nat
BY DEF Edge, ConnType, AppType

\* Such a step keeps the invariant.
LEMMA SlotKeeps ==
    ASSUME SlotInv, PageInv, NEW c \in Slot, conns[c].st # "CLOSED",
           NEW l \in ConnType, NEW new \in SUBSET FromServer,
           conns' = [conns EXCEPT ![c] = l], toClient' \subseteq toClient \cup new,
           toServer' \subseteq toServer, UNCHANGED <<client, opened>>,
           \A p \in Client : changed[p] => changed'[p],
           SlotFits(conns[c], l, client[conns[c].peer], changed'[conns[c].peer], new)
    PROVE  PageInv'
<1> DEFINE k == conns[c]
           q == client[k.peer]
           ch == changed'[k.peer]
<1>1. /\ conns \in [Slot -> ConnType] /\ k \in ConnType /\ k.peer \in Client
      /\ \A d \in Slot : conns[d] \in ConnType /\ (conns[d].st # "CLOSED" => conns[d].peer \in Client)
      /\ toClient \in SUBSET FromServer /\ toServer \in SUBSET FromClient
      /\ opened \in Nat
  BY UipAssumption DEF SlotInv, ServerTypes, NetTypes
<1>2. conns'[c] = l /\ \A d \in Slot \ {c} : conns'[d] = conns[d]
  BY <1>1
<1>3. \A g \in toClient' : g \in FromServer /\ g.to \in Client /\ (g \in toClient \/ g \in new)
  BY <1>1 DEF FromServer
<1>4. Generations'
  <2>1. \A d \in Slot : conns'[d].gen = conns[d].gen /\ (conns'[d].st # "CLOSED" => conns[d].st # "CLOSED")
    BY <1>2 DEF SlotFits
  <2>2. \A g \in toClient' : g.gen <= opened /\ (g.data # <<>> \/ "FIN" \in g.flags => g.gen >= 1)
    BY <1>3 DEF PageInv, Generations, SlotFits
  <2> QED BY <2>1, <2>2 DEF PageInv, Generations
<1>5. Requests' /\ Acks'
  BY DEF PageInv, Requests, Acks
<1>6. Connections'
  <2> SUFFICES ASSUME NEW d \in Slot, conns'[d].st # "CLOSED"
               PROVE  ConnOK(conns'[d], client[conns'[d].peer], changed'[conns'[d].peer])
    BY DEF Connections
  <2>1. CASE d = c
    BY <1>2, <2>1 DEF SlotFits
  <2>2. CASE d # c
    <3>1. conns'[d] = conns[d] /\ conns[d].peer \in Client
      BY <1>1, <1>2, <2>2
    <3>2. ConnOK(conns[d], client[conns[d].peer], changed[conns[d].peer])
      BY <3>1 DEF PageInv, Connections
    <3> QED BY <3>1, <3>2 DEF ConnOK
  <2> QED BY <2>1, <2>2
<1>7. Numbers'
  <2> SUFFICES ASSUME NEW h \in toClient', ~changed'[h.to] PROVE Numbered(h.data, h.seq)
    BY DEF Numbers
  <2>1. CASE h \in toClient
    BY <1>3, <2>1 DEF PageInv, Numbers
  <2>2. CASE h \in new
    BY <1>1, <2>2 DEF SlotFits
  <2> QED BY <1>3, <2>1, <2>2
<1>8. Edges'
  <2> SUFFICES ASSUME NEW h \in toClient', NEW d \in Slot, h.data # <<>>, conns'[d].st # "CLOSED",
                      conns'[d].gen = h.gen
               PROVE  /\ End(h) <= Edge(conns'[d])
                      /\ conns'[d].st \in Waiting /\ ~changed'[conns'[d].peer] =>
                             End(h) <= conns'[d].app.cursor + 1
    BY DEF Edges
  <2>1. CASE h \in toClient /\ d # c
    <3>1. conns'[d] = conns[d] /\ conns[d].peer \in Client
      BY <1>1, <1>2, <2>1
    <3> QED BY <2>1, <3>1 DEF PageInv, Edges
  <2>2. CASE h \in toClient /\ d = c
    <3>1. End(h) <= Edge(k) /\ (k.st \in Waiting /\ ~changed[k.peer] => End(h) <= k.app.cursor + 1)
      BY <1>2, <2>2 DEF PageInv, Edges, SlotFits
    <3>2. End(h) \in Nat /\ Edge(k) \in Nat /\ Edge(l) \in Nat /\ l.app.cursor \in Nat
      BY <1>1, <1>3, EndType, EdgeType
    <3>3. Edge(k) <= Edge(l) /\ l.peer = k.peer /\ (changed[k.peer] => changed'[k.peer])
          /\ (l.st \in Waiting /\ ~ch => (k.st \in Waiting /\ l.app.cursor = k.app.cursor)
                                              \/ Edge(l) <= l.app.cursor + 1)
      BY <1>1, <1>2, <2>2 DEF SlotFits
    <3>4. End(h) <= Edge(l)
      BY <3>1, <3>2, <3>3
    <3>5. ASSUME l.st \in Waiting, ~ch PROVE End(h) <= l.app.cursor + 1
      BY <3>1, <3>2, <3>3, <3>4, <3>5
    <3> QED BY <1>2, <2>2, <3>3, <3>4, <3>5
  <2>3. CASE h \in new
    <3>1. h.gen = k.gen /\ l.st \in Opening /\ End(h) <= Edge(l)
      BY <2>3 DEF SlotFits
    <3>2. d = c
      BY <1>2, <3>1 DEF PageInv, Generations, SlotFits
    <3> QED BY <1>2, <3>1, <3>2 DEF Opening, Waiting
  <2> QED BY <1>3, <2>1, <2>2, <2>3
<1>a. ASSUME NEW d \in Slot, conns'[d].st \in Opening
      PROVE  conns[d].st \in Opening /\ conns'[d].gen = conns[d].gen
  BY <1>2, <1>a DEF SlotFits
<1>9. Fins'
  <2> SUFFICES ASSUME NEW g \in toClient', "FIN" \in g.flags
               PROVE  /\ \A h \in toClient' : h.data # <<>> /\ h.gen = g.gen => End(h) <= g.seq
                      /\ \A d \in Slot : conns'[d].st \in Opening => conns'[d].gen # g.gen
    BY DEF Fins
  <2>1. CASE g \in toClient
    <3>1. \A h \in new : h.data # <<>> => h.gen # g.gen
      BY <2>1 DEF PageInv, Fins, SlotFits
    <3> QED BY <1>3, <1>a, <2>1, <3>1 DEF PageInv, Fins
  <2>2. CASE g \in new
    <3>1. g.gen = k.gen /\ l.st \in FinSent /\ l.st # "CLOSED" /\ Edge(l) <= g.seq /\ Edge(k) <= Edge(l)
          /\ g.seq \in Nat
      BY <1>3, <2>2, EndType DEF SlotFits, FinSent
    <3>2. ASSUME NEW h \in toClient', h.data # <<>>, h.gen = g.gen PROVE End(h) <= g.seq
      <4>1. h \in toClient
        BY <1>3, <3>1, <3>2 DEF SlotFits, FinSent, Opening
      <4>2. End(h) <= Edge(k)
        BY <3>1, <3>2, <4>1 DEF PageInv, Edges
      <4>3. End(h) \in Nat /\ Edge(k) \in Nat /\ Edge(l) \in Nat
        BY <1>1, <1>3, EndType, EdgeType
      <4> QED BY <3>1, <4>2, <4>3
    <3>3. ASSUME NEW d \in Slot, conns'[d].st \in Opening PROVE conns'[d].gen # g.gen
      <4>1. conns[d].st \in Opening /\ conns'[d].gen = conns[d].gen
        BY <1>a, <3>3
      <4>2. d # c
        BY <1>2, <3>1, <3>3 DEF FinSent, Opening
      <4>3. conns[d].st # "CLOSED"
        BY <4>1 DEF Opening
      <4> QED BY <3>1, <4>1, <4>2, <4>3 DEF PageInv, Generations
    <3> QED BY <3>2, <3>3
  <2> QED BY <1>3, <2>1, <2>2
<1>10. Ends'
  <2> SUFFICES ASSUME NEW p \in Client, client[p].eof
               PROVE  /\ \A h \in toClient' : h.data # <<>> /\ h.gen = client[p].gen =>
                                                  End(h) < client[p].nxt
                      /\ \A d \in Slot : conns'[d].st \in Opening => conns'[d].gen # client[p].gen
    BY DEF Ends
  <2>1. \A h \in new : h.data # <<>> => h.gen # client[p].gen
    BY DEF PageInv, Ends, SlotFits
  <2> QED BY <1>3, <1>a, <2>1 DEF PageInv, Ends
<1>11. ClientsOK'
  <2> SUFFICES ASSUME NEW p \in Client PROVE ClientOK(client[p], changed'[p])
    BY DEF ClientsOK
  <2>1. ClientOK(client[p], changed[p]) /\ (changed[p] => changed'[p])
    BY DEF PageInv, ClientsOK
  <2> QED BY <2>1 DEF ClientOK
<1> QED BY <1>4, <1>5, <1>6, <1>7, <1>8, <1>9, <1>10, <1>11 DEF PageInv

\* Slots may close, and segments without data or FIN may be sent.
LEMMA CloseKeeps ==
    ASSUME SlotInv, PageInv, NEW new,
           \A c \in Slot : conns'[c] = conns[c] \/ (conns'[c].st = "CLOSED" /\ conns'[c].gen = conns[c].gen),
           toClient' \subseteq toClient \cup new,
           \A g \in new : g.data = <<>> /\ "FIN" \notin g.flags /\ g.gen <= opened,
           toServer' \subseteq toServer, UNCHANGED <<client, opened, changed>>
    PROVE  PageInv'
<1>1. \A g \in toClient' : g \in toClient \/ (g.data = <<>> /\ "FIN" \notin g.flags /\ g.gen <= opened)
  OBVIOUS
<1>2. \A c \in Slot : conns'[c].gen = conns[c].gen /\ (conns'[c].st # "CLOSED" => conns'[c] = conns[c])
  OBVIOUS
<1>3. Generations'
  BY <1>1, <1>2 DEF PageInv, Generations
<1>4. Requests' /\ Acks' /\ ClientsOK'
  BY DEF PageInv, Requests, Acks, ClientsOK
<1>5. Connections'
  BY <1>2 DEF PageInv, Connections
<1>6. Numbers'
  <2> SUFFICES ASSUME NEW h \in toClient', ~changed[h.to] PROVE Numbered(h.data, h.seq)
    BY DEF Numbers
  <2>1. CASE h \in toClient
    BY <2>1 DEF PageInv, Numbers
  <2>2. CASE h.data = <<>>
    BY <2>2 DEF Numbered
  <2> QED BY <1>1, <2>1, <2>2
<1>7. Edges'
  BY <1>1, <1>2 DEF PageInv, Edges
<1>8. \A c \in Slot : conns'[c].st \in Opening => conns'[c] = conns[c]
  BY <1>2 DEF Opening
<1>9. Fins' /\ Ends'
  BY <1>1, <1>8 DEF PageInv, Fins, Ends
<1> QED BY <1>3, <1>4, <1>5, <1>6, <1>7, <1>9 DEF PageInv

\* uip_init.
LEMMA StackInitKeeps ==
    ASSUME SlotInv, PageInv, StackInit
    PROVE  PageInv'
<1>1. conns \in [Slot -> ConnType]
  BY DEF SlotInv, ServerTypes
<1>2. \A c \in Slot : conns'[c].st = "CLOSED" /\ conns'[c].gen = conns[c].gen
  BY <1>1 DEF StackInit, ConnType
<1> DEFINE none == {}
<1>3. toClient' \subseteq toClient \cup none /\ toServer' \subseteq toServer
      /\ UNCHANGED <<client, opened, changed>>
  BY DEF StackInit, Tick
<1>4. \A c \in Slot : conns'[c] = conns[c] \/ (conns'[c].st = "CLOSED" /\ conns'[c].gen = conns[c].gen)
  BY <1>2
<1>5. \A g \in none : g.data = <<>> /\ "FIN" \notin g.flags /\ g.gen <= opened
  OBVIOUS
<1> HIDE DEF none
<1> QED BY <1>3, <1>4, <1>5, CloseKeeps

\* A segment for no connection.
LEMMA NoConnectionKeeps ==
    ASSUME SlotInv, PageInv, NEW s \in toServer, NoConnection(s)
    PROVE  PageInv'
<1> DEFINE g == [to |-> s.from, flags |-> {"RST", "ACK"}, gen |-> s.gen, seq |-> s.ack,
                 ack |-> s.seq + 1, data |-> <<>>]
<1>1. toClient' \subseteq toClient \cup {g} /\ toServer' \subseteq toServer
      /\ UNCHANGED <<conns, client, opened, changed>>
  BY DEF NoConnection, SentTo, Take, serverVars
<1>2. s.gen <= opened
  <2>1. s \in FromClient /\ opened \in Nat
    BY UipAssumption DEF SlotInv, ServerTypes, NetTypes
  <2>2. s.from \in Client /\ s.gen \in Nat
    BY <2>1 DEF FromClient
  <2>3. client[s.from].gen <= opened /\ (s.gen # 0 => s.gen = client[s.from].gen)
    BY <2>2 DEF PageInv, Generations, Acks, AckOK
  <2> QED BY <2>1, <2>2, <2>3
<1>3. g.data = <<>> /\ "FIN" \notin g.flags /\ g.gen <= opened
  BY <1>2
<1> HIDE DEF g
<1> QED BY <1>1, <1>3, CloseKeeps

\* A new connection has a number that nothing else has.
LEMMA ListenKeeps ==
    ASSUME SlotInv, PageInv, NEW s \in toServer, NEW c \in Slot, Listen(s, c)
    PROVE  PageInv'
<1> DEFINE k == conns'[c]
           g == Segment(k, {"SYN", "ACK"}, <<>>)
<1>1. /\ k.st = "SYN_RCVD" /\ k.peer = s.from /\ k.gen = opened + 1 /\ k.snd = 0 /\ k.len = 1 /\ k.rcv = 1
      /\ \A d \in Slot \ {c} : conns'[d] = conns[d]
      /\ toClient' \subseteq toClient \cup {g}
  <2> DEFINE mss == IF s.mss = 0 THEN conns[c].initialmss ELSE Clamp(s.mss, UIP_TCP_MSS)
             l == [conns[c] EXCEPT !.st = "SYN_RCVD", !.peer = s.from, !.gen = opened', !.nrtx = 0,
                                   !.snd = 0, !.len = 1, !.rcv = s.seq + 1,
                                   !.initialmss = mss, !.mss = IF s.mss = 0 THEN @ ELSE mss]
  <2>1. Apply(c, Outcome(l, get_string_global, {Segment(l, {"SYN", "ACK"}, <<>>)}))
    BY DEF Listen
  <2>2. conns \in [Slot -> ConnType] /\ conns[c] \in ConnType
    BY DEF SlotInv, ServerTypes
  <2>3. s.seq = 0 /\ opened' = opened + 1
    BY DEF Listen, PageInv, Requests, RequestOK
  <2>4. l.st = "SYN_RCVD" /\ l.peer = s.from /\ l.gen = opened + 1 /\ l.snd = 0 /\ l.len = 1 /\ l.rcv = 1
    BY <2>2, <2>3 DEF ConnType
  <2> HIDE DEF l
  <2>5. conns' = [conns EXCEPT ![c] = l] /\ toClient' \subseteq toClient \cup {Segment(l, {"SYN", "ACK"}, <<>>)}
    BY <2>1 DEF Apply, Outcome, SentTo
  <2>6. k = l /\ \A d \in Slot \ {c} : conns'[d] = conns[d]
    BY <2>2, <2>5
  <2> QED BY <2>4, <2>5, <2>6
<1>2. g.data = <<>> /\ "FIN" \notin g.flags /\ g.gen = opened + 1
  BY <1>1 DEF Segment
<1>3. opened' = opened + 1 /\ toServer' \subseteq toServer /\ UNCHANGED <<client, changed>> /\ opened \in Nat
  BY UipAssumption DEF Listen, Take, SlotInv, ServerTypes
<1>4. \A h \in toClient' : h \in toClient \/ h = g
  BY <1>1
<1>5. /\ \A d \in Slot : conns[d].gen \in Nat /\ conns[d].gen <= opened
      /\ \A h \in toClient : h.gen \in Nat /\ h.gen <= opened
      /\ \A p \in Client : client[p].gen \in Nat /\ client[p].gen <= opened
  BY DEF PageInv, Generations, SlotInv, ServerTypes, NetTypes, ClientTypes, ConnType, FromServer, ClientType
<1> HIDE DEF g, k
<1>6. Generations'
  <2>1. \A d \in Slot : conns'[d].gen <= opened + 1 /\ (conns'[d].st # "CLOSED" => conns'[d].gen >= 1)
    BY <1>1, <1>3, <1>5 DEF k, PageInv, Generations
  <2>2. ASSUME NEW d \in Slot, NEW e \in Slot, conns'[d].st # "CLOSED", conns'[e].st # "CLOSED",
               conns'[d].gen = conns'[e].gen
        PROVE  d = e
    BY <1>1, <1>3, <1>5, <2>2 DEF k, PageInv, Generations
  <2>3. \A h \in toClient' : h.gen <= opened + 1 /\ (h.data # <<>> \/ "FIN" \in h.flags => h.gen >= 1)
    BY <1>2, <1>3, <1>4, <1>5 DEF PageInv, Generations
  <2>4. \A p \in Client : client[p].gen <= opened + 1
    BY <1>3, <1>5
  <2> QED BY <1>3, <2>1, <2>2, <2>3, <2>4 DEF Generations
<1>7. Requests' /\ Acks' /\ ClientsOK'
  BY <1>3 DEF PageInv, Requests, Acks, ClientsOK
<1>8. Connections'
  <2>1. s.from \in Client
    BY DEF SlotInv, NetTypes, FromClient
  <2>2. client[s.from].gen # k.gen
    BY <1>1, <1>3, <1>5, <2>1
  <2>3. ConnOK(k, client[k.peer], changed[k.peer])
    BY <1>1, <2>2 DEF ConnOK, Waiting
  <2> QED BY <1>1, <1>3, <2>3 DEF k, PageInv, Connections
<1>9. Numbers'
  BY <1>2, <1>3, <1>4 DEF PageInv, Numbers, Numbered
<1>a. \A h \in toClient' : h.data # <<>> \/ "FIN" \in h.flags => h \in toClient /\ h.gen # k.gen
  BY <1>1, <1>2, <1>3, <1>4, <1>5
<1>10. Edges'
  <2> SUFFICES ASSUME NEW h \in toClient', NEW d \in Slot, h.data # <<>>, conns'[d].st # "CLOSED",
                      conns'[d].gen = h.gen
               PROVE  /\ End(h) <= Edge(conns'[d])
                      /\ conns'[d].st \in Waiting /\ ~changed'[conns'[d].peer] =>
                             End(h) <= conns'[d].app.cursor + 1
    BY DEF Edges
  <2>1. h \in toClient /\ d # c
    BY <1>a DEF k
  <2> QED BY <1>1, <1>3, <2>1 DEF PageInv, Edges
<1>11. Fins'
  <2> SUFFICES ASSUME NEW f \in toClient', "FIN" \in f.flags
               PROVE  /\ \A h \in toClient' : h.data # <<>> /\ h.gen = f.gen => End(h) <= f.seq
                      /\ \A d \in Slot : conns'[d].st \in Opening => conns'[d].gen # f.gen
    BY DEF Fins
  <2>1. f \in toClient /\ f.gen # k.gen
    BY <1>a
  <2> QED BY <1>1, <1>a, <2>1 DEF k, PageInv, Fins
<1>12. Ends'
  <2> SUFFICES ASSUME NEW p \in Client, client[p].eof
               PROVE  /\ \A h \in toClient' : h.data # <<>> /\ h.gen = client[p].gen =>
                                                  End(h) < client[p].nxt
                      /\ \A d \in Slot : conns'[d].st \in Opening => conns'[d].gen # client[p].gen
    BY <1>3 DEF Ends
  <2>1. client[p].gen # k.gen
    BY <1>1, <1>3, <1>5
  <2> QED BY <1>1, <1>a, <2>1 DEF k, PageInv, Ends
<1> QED BY <1>6, <1>7, <1>8, <1>9, <1>10, <1>11, <1>12 DEF PageInv

-----------------------------------------------------------------------------
(* Calls of the application.                                               *)

\* The application wrote as much of the page as fits, from ackedCount on.
SentPage(t, mss) ==
    LET n == Clamp(t.app.cursor - t.app.ackedCount, mss)
    IN  /\ t.app.sentCount = n /\ t.slen = n
        /\ t.data = [i \in 1 .. n |-> <<t.url, t.app.ackedCount + i>>]

\* sendPage does.
LEMMA SendPageSends ==
    ASSUME NEW t \in CallType, t.slen = 0, NEW page \in [URL -> Nat]
    PROVE  LET u == sendPage(t, page)
           IN  u.app.ackedCount = t.app.ackedCount /\ u.flags = t.flags /\ SentPage(u, t.mss)
<1> DEFINE v == [t EXCEPT !.app = [@ EXCEPT !.cursor = page[t.url]]]
           n == Clamp(v.app.cursor - v.app.ackedCount, v.mss)
           a == [v.app EXCEPT !.sentCount = n]
           d == [i \in 1 .. n |-> <<v.url, v.app.ackedCount + i>>]
           u == [v EXCEPT !.app = a, !.slen = IF n > 0 THEN n ELSE v.slen, !.data = d]
<1>1. v \in CallType /\ v.app.ackedCount = t.app.ackedCount /\ v.slen = 0 /\ v.mss = t.mss
      /\ v.flags = t.flags
  BY DEF CallType, AppType
<1>2. sendPage(t, page) = u
  BY DEF sendPage, send
<1> HIDE DEF v
<1>3. v.app \in AppType /\ v.app.cursor - v.app.ackedCount \in Int /\ v.mss \in Nat
  BY <1>1 DEF CallType, AppType
<1>4. n \in Nat
  BY <1>3, ClampType
<1>5. a.sentCount = n /\ a.ackedCount = v.app.ackedCount /\ a.cursor = v.app.cursor
  BY <1>3 DEF AppType
<1>6. (IF n > 0 THEN n ELSE v.slen) = n
  BY <1>1, <1>4
<1> HIDE DEF n, a, d
<1>7. u.app = a /\ u.slen = n /\ u.data = d /\ u.flags = v.flags /\ u.url = v.url
  BY <1>1, <1>6 DEF CallType
<1> HIDE DEF u
<1>8. SentPage(u, t.mss)
  BY <1>1, <1>5, <1>7 DEF SentPage, n, d
<1> QED BY <1>1, <1>2, <1>5, <1>7, <1>8

\* A call with no end and no acknowledgement: the page is sent when the request
\* is complete.
LEMMA CallRequest ==
    ASSUME NEW app \in AppType, NEW url \in URL, NEW mss \in Nat,
           NEW flags \in SUBSET {"CONNECTED", "NEWDATA"},
           NEW pkt \in Seq(Line), NEW page \in [URL -> Nat]
    PROVE  LET t == server_task_impl(app, url, mss, flags, pkt, page)
           IN  /\ t.app.ackedCount = (IF "CONNECTED" \in flags THEN 0 ELSE app.ackedCount)
               /\ "CLOSE" \notin t.flags
               /\ t.slen = 0 \/ (SentPage(t, mss) /\ "NEWDATA" \in flags /\ RequestEnds(pkt))
<1> DEFINE t0 == [app |-> app, url |-> url, mss |-> mss, flags |-> flags, slen |-> 0, data |-> <<>>]
           t1 == WhenConnected(t0)
           t2 == processPacket(t1, pkt)
           t3 == WhenNewdata(t1, pkt, page)
           acked == IF "CONNECTED" \in flags THEN 0 ELSE app.ackedCount
<1>1. t0 \in CallType /\ t0.flags = flags /\ t0.slen = 0 /\ t0.mss = mss /\ t0.app = app
  BY DEF CallType, AppFlags
<1> HIDE DEF t0
<1>2. t1 \in CallType /\ t1.flags = flags /\ t1.slen = 0 /\ t1.mss = mss /\ t1.app.ackedCount = acked
  BY <1>1 DEF WhenConnected, CallType, AppType
<1> HIDE DEF t1, acked
<1>3. t2 \in CallType
  BY <1>2, ProcessPacketType
<1>4. t2.flags = flags /\ t2.slen = 0 /\ t2.mss = mss /\ t2.app.ackedCount = acked
  BY <1>2 DEF processPacket, CallType, AppType
<1>5. t3 = IF "NEWDATA" \notin flags THEN t1
           ELSE IF RequestEnds(pkt) /\ t2.app.request THEN sendPage(t2, page) ELSE t2
  BY <1>2 DEF WhenNewdata
<1> HIDE DEF t2, t3
<1>6. sendPage(t2, page).app.ackedCount = acked /\ sendPage(t2, page).flags = flags
      /\ SentPage(sendPage(t2, page), mss)
  BY <1>3, <1>4, SendPageSends
<1>7. /\ t3.app.ackedCount = acked /\ t3.flags = flags
      /\ t3.slen = 0 \/ (SentPage(t3, mss) /\ "NEWDATA" \in flags /\ RequestEnds(pkt))
  BY <1>2, <1>4, <1>5, <1>6
<1>8. WhenEnded(WhenAcked(t3, page)) = t3
  BY <1>7 DEF WhenEnded, WhenAcked
<1>9. flags # {"REXMIT"} /\ "CLOSE" \notin flags
  OBVIOUS
<1>10. server_task_impl(app, url, mss, flags, pkt, page) = t3
  BY <1>8, <1>9 DEF server_task_impl, t0, t1, t3
<1> QED BY <1>7, <1>9, <1>10 DEF acked

\* A call for an acknowledgement: the page is at its end, or more of it is sent.
LEMMA CallAcked ==
    ASSUME NEW app \in AppType, NEW url \in URL, NEW mss \in Nat, NEW pkt, NEW page \in [URL -> Nat]
    PROVE  LET t == server_task_impl(app, url, mss, {"ACKDATA"}, pkt, page)
           IN  /\ t.app.ackedCount = app.ackedCount + app.sentCount
               /\ "CLOSE" \in t.flags => t.app.cursor = t.app.ackedCount
               /\ "CLOSE" \notin t.flags => SentPage(t, mss)
<1> DEFINE t0 == [app |-> app, url |-> url, mss |-> mss, flags |-> {"ACKDATA"}, slen |-> 0, data |-> <<>>]
           t1 == [t0 EXCEPT !.app = [@ EXCEPT !.ackedCount = AckedSoFar(t0.app), !.sentCount = 0]]
           t2 == [t1 EXCEPT !.flags = {"CLOSE"}]
           t3 == WhenAcked(t0, page)
           acked == app.ackedCount + app.sentCount
<1>1. t0 \in CallType /\ t0.flags = {"ACKDATA"} /\ t0.slen = 0 /\ t0.mss = mss /\ t0.app = app
  BY DEF CallType, AppFlags
<1>2. WhenNewdata(WhenConnected(t0), pkt, page) = t0
  BY DEF WhenNewdata, WhenConnected
<1> HIDE DEF t0
<1>3. acked \in Nat /\ AckedSoFar(t0.app) = acked
  BY <1>1 DEF AckedSoFar, AppType
<1> HIDE DEF acked
<1>4. t1 \in CallType /\ t1.flags = {"ACKDATA"} /\ t1.slen = 0 /\ t1.mss = mss
      /\ t1.app.ackedCount = acked
  BY <1>1, <1>3 DEF CallType, AppType
<1>5. t3 = IF PageDone(t1.app) THEN t2 ELSE sendPage(t1, page)
  BY <1>1 DEF WhenAcked
<1> HIDE DEF t1, t3
<1>6. sendPage(t1, page).app.ackedCount = acked /\ sendPage(t1, page).flags = {"ACKDATA"}
      /\ SentPage(sendPage(t1, page), mss)
  BY <1>4, SendPageSends
<1>7. server_task_impl(app, url, mss, {"ACKDATA"}, pkt, page) = WhenEnded(t3)
  BY <1>2 DEF server_task_impl, t0, t3
<1>8. CASE PageDone(t1.app)
  <2>1. t3 = t2 /\ t2.app = t1.app /\ t2.flags = {"CLOSE"} /\ t2 \in CallType
    BY <1>4, <1>5, <1>8 DEF CallType, AppFlags
  <2>2. WhenEnded(t3).app.ackedCount = acked /\ WhenEnded(t3).app.cursor = t1.app.cursor
        /\ WhenEnded(t3).flags = {"CLOSE"}
    <3> HIDE DEF t2
    <3> QED BY <1>4, <2>1 DEF WhenEnded, CallType, AppType
  <2>3. t1.app.cursor = acked
    BY <1>4, <1>8 DEF PageDone
  <2> QED BY <1>7, <2>2, <2>3 DEF acked
<1>9. CASE ~PageDone(t1.app)
  <2>1. t3.app.ackedCount = acked /\ t3.flags = {"ACKDATA"} /\ SentPage(t3, mss)
    BY <1>5, <1>6, <1>9
  <2>2. WhenEnded(t3) = t3
    BY <2>1 DEF WhenEnded
  <2> QED BY <1>7, <2>1, <2>2 DEF acked
<1> QED BY <1>8, <1>9

\* A call for a retransmission: the page is sent again from where it was.
LEMMA CallRexmit ==
    ASSUME NEW app \in AppType, NEW url \in URL, NEW mss \in Nat, NEW page \in [URL -> Nat]
    PROVE  LET t == server_task_impl(app, url, mss, {"REXMIT"}, <<>>, page)
           IN  t.app.ackedCount = app.ackedCount /\ SentPage(t, mss)
<1> DEFINE t0 == [app |-> app, url |-> url, mss |-> mss, flags |-> {"REXMIT"}, slen |-> 0, data |-> <<>>]
<1>1. t0 \in CallType /\ t0.slen = 0 /\ t0.mss = mss /\ t0.app = app
  BY DEF CallType, AppFlags
<1>2. server_task_impl(app, url, mss, {"REXMIT"}, <<>>, page) = sendPage(t0, page)
  BY DEF server_task_impl
<1> HIDE DEF t0
<1> QED BY <1>1, <1>2, SendPageSends

\* An application that is told of an end still knows how long the page was.
LEMMA ToldKeeps ==
    ASSUME NEW k \in ConnType, NEW flag \in {"ABORT", "CLOSE", "TIMEDOUT"}
    PROVE  Told(k, flag).cursor = k.app.cursor
<1> DEFINE t == [app |-> k.app, url |-> get_string_global, mss |-> k.mss, flags |-> {flag},
                 slen |-> 0, data |-> <<>>]
<1>1. t.app = k.app /\ t.flags = {flag} /\ "app" \in DOMAIN t
  OBVIOUS
<1> HIDE DEF t
<1>2. WhenAcked(WhenNewdata(WhenConnected(t), <<>>, <<>>), <<>>) = t
  BY <1>1 DEF WhenAcked, WhenNewdata, WhenConnected
<1>3. k.app \in AppType
  BY DEF ConnType
<1>4. WhenEnded(t).app.cursor = k.app.cursor
  BY <1>1, <1>3 DEF WhenEnded, AppType
<1>5. {flag} # {"REXMIT"}
  OBVIOUS
<1> QED BY <1>2, <1>4, <1>5 DEF Told, AppCall, server_task_impl, t

-----------------------------------------------------------------------------
(* What a connection sends.                                                *)

\* The fields of a segment.
LEMMA SegmentIs ==
    ASSUME NEW k, NEW flags, NEW data
    PROVE  LET g == Segment(k, flags, data)
           IN  g.to = k.peer /\ g.gen = k.gen /\ g.seq = k.snd /\ g.flags = flags /\ g.data = data
BY DEF Segment

\* What was written for the outstanding bytes is numbered like them.
LEMMA PayloadNumbered ==
    ASSUME NEW k \in ConnType, NEW t \in CallType, NEW mss \in Nat,
           SentPage(t, mss), k.len = t.slen, k.snd = t.app.ackedCount + 1
    PROVE  Numbered(Payload(k, t), k.snd)
<1> DEFINE n == k.len
           a == t.app.ackedCount
<1>1. n \in Nat /\ a \in Nat
  BY DEF ConnType, CallType, AppType
<1>2. t.data = [i \in 1 .. n |-> <<t.url, a + i>>]
  BY DEF SentPage
<1>3. Payload(k, t) = [i \in 1 .. n |-> IF i \in DOMAIN t.data THEN t.data[i] ELSE Junk]
  BY DEF Payload
<1> HIDE DEF n
<1>4. DOMAIN Payload(k, t) = 1 .. n /\ \A i \in 1 .. n : Payload(k, t)[i] = <<t.url, a + i>>
  BY <1>2, <1>3
<1>5. ASSUME NEW i \in 1 .. n PROVE Payload(k, t)[i][2] = k.snd + i - 1
  BY <1>1, <1>4, <1>5
<1> QED BY <1>4, <1>5 DEF Numbered

\* apprexmit sends the outstanding bytes, or an acknowledgement without data.
LEMMA RexmitSends ==
    ASSUME NEW k \in ConnType, NEW t \in CallType, NEW g \in apprexmit(k, t).out
    PROVE  /\ g.to = k.peer /\ g.gen = k.gen /\ g.seq = k.snd /\ g.flags = {"ACK"}
           /\ g.data # <<>> => Len(g.data) = k.len
           /\ \A mss \in Nat :
                t.slen = 0 \/ (SentPage(t, mss) /\ k.len = t.slen /\ k.snd = t.app.ackedCount + 1)
                    => Numbered(g.data, g.seq)
<1>1. apprexmit(k, t).out = IF t.slen > 0 /\ k.len > 0 THEN {Segment(k, {"ACK"}, Payload(k, t))}
                            ELSE IF "NEWDATA" \in t.flags THEN {Segment(k, {"ACK"}, <<>>)}
                            ELSE {}
  BY DEF apprexmit, Outcome
<1>2. k.len \in Nat /\ t.slen \in Nat
  BY DEF ConnType, CallType
<1>3. CASE t.slen > 0 /\ k.len > 0
  <2>1. g = Segment(k, {"ACK"}, Payload(k, t))
    BY <1>1, <1>3
  <2>2. Len(Payload(k, t)) = k.len
    BY <1>2 DEF Payload
  <2>3. g.data = Payload(k, t) /\ g.to = k.peer /\ g.gen = k.gen /\ g.seq = k.snd /\ g.flags = {"ACK"}
    BY <2>1, SegmentIs
  <2> QED BY <1>3, <2>2, <2>3, PayloadNumbered
<1>4. CASE ~(t.slen > 0 /\ k.len > 0)
  <2>1. g = Segment(k, {"ACK"}, <<>>)
    BY <1>1, <1>4
  <2>2. g.data = <<>> /\ g.to = k.peer /\ g.gen = k.gen /\ g.seq = k.snd /\ g.flags = {"ACK"}
    BY <2>1, SegmentIs
  <2> QED BY <2>2 DEF Numbered
<1> QED BY <1>3, <1>4

\* appsend with nothing outstanding sends what the application wrote.
LEMMA AppsendSends ==
    ASSUME NEW k \in ConnType, k.peer \in Client, k.len = 0, NEW t \in CallType,
           "CLOSE" \notin t.flags, t.slen = 0 \/ SentPage(t, k.mss)
    PROVE  LET o == appsend(k, t)
               l == o.conn
           IN  /\ l.st = k.st /\ l.peer = k.peer /\ l.gen = k.gen /\ l.snd = k.snd /\ l.rcv = k.rcv
               /\ l.app = t.app /\ l.len = t.slen
               /\ k.snd = t.app.ackedCount + 1 => Counted(l)
               /\ \A g \in o.out :
                    /\ g.to = k.peer /\ g.gen = k.gen /\ g.seq = k.snd /\ g.flags = {"ACK"}
                    /\ g.data # <<>> => Len(g.data) = l.len
                    /\ k.snd = t.app.ackedCount + 1 => Numbered(g.data, g.seq)
<1> DEFINE len == IF t.slen > 0 /\ k.len = 0 THEN Clamp(t.slen, k.mss) ELSE k.len
           l == [k EXCEPT !.app = t.app, !.nrtx = 0, !.len = len]
<1>1. t.app \in AppType /\ t.slen \in Nat /\ k.mss \in Nat
  BY DEF CallType, ConnType
<1>2. t.app.cursor - t.app.ackedCount \in Int
  BY <1>1 DEF AppType
<1>3. len = t.slen
  <2>1. CASE t.slen = 0
    BY <2>1
  <2>2. CASE SentPage(t, k.mss)
    <3>1. t.slen = Clamp(t.app.cursor - t.app.ackedCount, k.mss)
      BY <2>2 DEF SentPage
    <3> QED BY <1>1, <1>2, <3>1 DEF Clamp
  <2> QED BY <2>1, <2>2
<1>4. appsend(k, t) = apprexmit(l, t)
  BY DEF appsend
<1> HIDE DEF len
<1>5. l \in ConnType
  <2>1. 0 \in 0 .. UIP_MAXRTX /\ len \in Nat
    BY <1>1, <1>3, UipAssumption
  <2> QED BY <1>1, <2>1 DEF ConnType
<1>6. /\ l.st = k.st /\ l.peer = k.peer /\ l.gen = k.gen /\ l.snd = k.snd /\ l.rcv = k.rcv
      /\ l.app = t.app /\ l.len = t.slen /\ l.mss = k.mss
  BY <1>3 DEF ConnType
<1> HIDE DEF l
<1>7. apprexmit(l, t).conn = l
  BY <1>5, <1>6, ApprexmitOK
<1>8. k.snd = t.app.ackedCount + 1 => Counted(l)
  BY <1>1, <1>6 DEF SentPage, Counted
<1>9. ASSUME NEW g \in apprexmit(l, t).out
      PROVE  /\ g.to = k.peer /\ g.gen = k.gen /\ g.seq = k.snd /\ g.flags = {"ACK"}
             /\ g.data # <<>> => Len(g.data) = l.len
             /\ k.snd = t.app.ackedCount + 1 => Numbered(g.data, g.seq)
  BY <1>1, <1>5, <1>6, <1>9, RexmitSends
<1> QED BY <1>4, <1>6, <1>7, <1>8, <1>9

-----------------------------------------------------------------------------
(* The steps of a connection.                                              *)

\* An outcome that fits keeps the invariant.
LEMMA ApplyKeeps ==
    ASSUME SlotInv, PageInv, NEW c \in Slot, conns[c].st # "CLOSED",
           NEW o \in OutcomeType, Apply(c, o), toServer' \subseteq toServer, UNCHANGED <<client, opened>>,
           \A p \in Client : changed[p] => changed'[p],
           SlotFits(conns[c], o.conn, client[conns[c].peer], changed'[conns[c].peer], o.out)
    PROVE  PageInv'
<1>1. o.conn \in ConnType /\ o.out \in SUBSET FromServer
  BY DEF OutcomeType
<1>2. conns' = [conns EXCEPT ![c] = o.conn] /\ toClient' \subseteq toClient \cup o.out
  BY DEF Apply, SentTo
<1> QED BY <1>1, <1>2, SlotKeeps

\* A step that leaves the numbers of the connection alone.
LEMMA SameFits ==
    ASSUME NEW k \in ConnType, NEW l \in ConnType, NEW q, NEW ch, ConnOK(k, q, ch),
           l.st = k.st, l.peer = k.peer, l.gen = k.gen, l.snd = k.snd, l.len = k.len, l.rcv = k.rcv,
           l.app = k.app, l.mss = k.mss, NEW new,
           \A g \in new : g.to = k.peer /\ g.gen = k.gen /\ g.data = <<>> /\ "FIN" \notin g.flags
    PROVE  SlotFits(k, l, q, ch, new)
<1>1. ConnOK(l, q, ch)
  BY DEF ConnOK, Counted
<1>2. Edge(k) <= Edge(l)
  BY EdgeType DEF Edge
<1>3. \A g \in new : Numbered(g.data, g.seq)
  BY DEF Numbered
<1> QED BY <1>1, <1>2, <1>3 DEF SlotFits

\* A step after the FIN was sent.
LEMMA ClosingFits ==
    ASSUME NEW k \in ConnType, NEW l \in ConnType, NEW q, NEW ch, ConnOK(k, q, ch),
           k.st \in Waiting \cup {"LAST_ACK"}, l.st \in Waiting \cup {"LAST_ACK", "CLOSED"},
           l.st \in Waiting => k.st \in Waiting, l.st \in FinSent => k.st \in FinSent,
           l.peer = k.peer, l.gen = k.gen, l.app.cursor = k.app.cursor,
           l.snd >= k.snd, l.snd + l.len = k.snd + k.len, NEW new,
           \A g \in new : /\ g.to = k.peer /\ g.gen = k.gen /\ g.data = <<>>
                          /\ "FIN" \in g.flags => l.st \in FinSent /\ g.seq = l.snd
    PROVE  SlotFits(k, l, q, ch, new)
<1>1. /\ k.snd \in Nat /\ k.len \in Nat /\ l.snd \in Nat /\ l.len \in Nat
  BY DEF ConnType
<1>2. Edge(k) <= Edge(l)
  BY <1>1 DEF Edge
<1>3. l.st \notin Opening /\ k.st \notin Opening
  BY DEF Opening, Waiting
<1>4. l.st # "CLOSED" => ConnOK(l, q, ch)
  BY <1>3 DEF ConnOK, Opening, Waiting
<1>5. \A g \in new : Numbered(g.data, g.seq) /\ ("FIN" \in g.flags => Edge(l) <= g.seq)
  BY <1>1 DEF Numbered, Edge
<1> QED BY <1>2, <1>3, <1>4, <1>5 DEF SlotFits

\* What is known of a connection, its client and a segment for it.
LEMMA KnownOf ==
    ASSUME SlotInv, PageInv, NEW c \in Slot, conns[c].st # "CLOSED"
    PROVE  /\ conns[c] \in ConnType /\ conns[c].peer \in Client /\ conns[c].gen >= 1
           /\ client[conns[c].peer] \in ClientType
           /\ ConnOK(conns[c], client[conns[c].peer], changed[conns[c].peer])
           /\ get_string_global \in URL /\ changed \in [Client -> BOOLEAN] /\ opened \in Nat
           /\ conns[c].gen <= opened
           /\ \A s \in toServer : s \in FromClient /\ RequestOK(s) /\ AckOK(s, client[s.from])
<1>1. conns[c] \in ConnType /\ conns[c].peer \in Client /\ conns[c].gen >= 1 /\ conns[c].gen <= opened
  BY DEF SlotInv, ServerTypes, PageInv, Generations
<1>2. client[conns[c].peer] \in ClientType
      /\ ConnOK(conns[c], client[conns[c].peer], changed[conns[c].peer])
  BY <1>1 DEF SlotInv, ClientTypes, PageInv, Connections
<1>3. \A s \in toServer : s \in FromClient /\ RequestOK(s) /\ AckOK(s, client[s.from])
  BY DEF SlotInv, NetTypes, PageInv, Requests, Acks
<1> QED BY <1>1, <1>2, <1>3, UipAssumption DEF SlotInv, ServerTypes

\* Nothing happens to the connections.
LEMMA NothingKeeps ==
    ASSUME SlotInv, PageInv, UNCHANGED <<conns, client, opened, changed>>,
           toClient' \subseteq toClient, toServer' \subseteq toServer
    PROVE  PageInv'
<1> DEFINE none == {}
<1>1. toClient' \subseteq toClient \cup none
  OBVIOUS
<1>2. \A g \in none : g.data = <<>> /\ "FIN" \notin g.flags /\ g.gen <= opened
  OBVIOUS
<1>3. \A c \in Slot : conns'[c] = conns[c] \/ (conns'[c].st = "CLOSED" /\ conns'[c].gen = conns[c].gen)
  OBVIOUS
<1> HIDE DEF none
<1> QED BY <1>1, <1>2, <1>3, CloseKeeps

\* A connection is closed, and a reset may be sent.
LEMMA EndKeeps ==
    ASSUME SlotInv, PageInv, NEW c \in Slot, NEW k, k.st = "CLOSED", k.gen = conns[c].gen,
           conns' = [conns EXCEPT ![c] = k], NEW new, toClient' \subseteq toClient \cup new,
           \A g \in new : g.data = <<>> /\ "FIN" \notin g.flags /\ g.gen = k.gen,
           toServer' \subseteq toServer, UNCHANGED <<client, opened, changed>>
    PROVE  PageInv'
<1>1. conns \in [Slot -> ConnType] /\ conns[c].gen <= opened
  BY DEF SlotInv, ServerTypes, PageInv, Generations
<1>2. \A d \in Slot : conns'[d] = conns[d] \/ (conns'[d].st = "CLOSED" /\ conns'[d].gen = conns[d].gen)
  BY <1>1
<1>3. \A g \in new : g.data = <<>> /\ "FIN" \notin g.flags /\ g.gen <= opened
  BY <1>1
<1> QED BY <1>2, <1>3, CloseKeeps

\* A reset kills the connection.
LEMMA ResetKeeps ==
    ASSUME SlotInv, PageInv, NEW s \in toServer, NEW c \in Slot, ResetInput(s, c)
    PROVE  PageInv'
<1> DEFINE k == [conns[c] EXCEPT !.st = "CLOSED", !.app = Told(conns[c], "ABORT")]
           none == {}
<1>1. conns' = [conns EXCEPT ![c] = k] /\ toClient' \subseteq toClient \cup none
      /\ toServer' \subseteq toServer /\ UNCHANGED <<client, opened, changed>>
  BY DEF ResetInput, Found, Take, Quiet
<1>2. conns[c] \in ConnType
  BY DEF SlotInv, ServerTypes
<1>3. k.st = "CLOSED" /\ k.gen = conns[c].gen
  BY <1>2 DEF ConnType
<1>4. \A g \in none : g.data = <<>> /\ "FIN" \notin g.flags /\ g.gen = k.gen
  OBVIOUS
<1> HIDE DEF k, none
<1> QED BY <1>1, <1>3, <1>4, EndKeeps

\* The numbers of a connection after an acknowledgement.
LEMMA AfterAckIs ==
    ASSUME NEW k \in ConnType, NEW s \in FromClient
    PROVE  LET l == AfterAck(k, s)
           IN  /\ l \in ConnType /\ l.st = k.st /\ l.peer = k.peer /\ l.gen = k.gen /\ l.rcv = k.rcv
               /\ l.app = k.app /\ l.mss = k.mss /\ l.snd >= k.snd /\ l.snd + l.len = k.snd + k.len
               /\ Acknowledges(k, s) => l.len = 0 /\ l.snd = k.snd + k.len
               /\ ~Acknowledges(k, s) => l = k
<1>1. AfterAck(k, s) \in ConnType
  BY AfterAckOK
<1>2. k.snd \in Nat /\ k.len \in Nat
  BY DEF ConnType
<1>3. CASE Acknowledges(k, s)
  <2> DEFINE n == k.snd + k.len
             l == [k EXCEPT !.snd = n, !.len = 0]
  <2>1. AfterAck(k, s) = l
    BY <1>3 DEF AfterAck
  <2>2. n \in Nat /\ n >= k.snd /\ n + 0 = k.snd + k.len
    BY <1>2
  <2> HIDE DEF n
  <2>3. /\ l.st = k.st /\ l.peer = k.peer /\ l.gen = k.gen /\ l.rcv = k.rcv
        /\ l.app = k.app /\ l.mss = k.mss /\ l.snd = n /\ l.len = 0
    BY DEF ConnType
  <2> HIDE DEF l
  <2> QED BY <1>1, <1>3, <2>1, <2>2, <2>3 DEF n
<1>4. CASE ~Acknowledges(k, s)
  <2>1. AfterAck(k, s) = k
    BY <1>4 DEF AfterAck
  <2> QED BY <1>2, <1>4, <2>1
<1> QED BY <1>3, <1>4

\* An acknowledgement is sent and nothing else.
LEMMA AckOnlyKeeps ==
    ASSUME SlotInv, PageInv, NEW s \in toServer, NEW c \in Slot, AckOnly(s, c)
    PROVE  PageInv'
<1> DEFINE k == conns[c]
           q == client[k.peer]
           ch == changed'[k.peer]
<1>1. k.st # "CLOSED" /\ toServer' \subseteq toServer /\ UNCHANGED <<client, opened, changed>>
  BY DEF AckOnly, Found, SlotOf, Live, Take, Quiet
<1>2. k \in ConnType /\ k.peer \in Client /\ ConnOK(k, q, ch) /\ s \in FromClient
      /\ get_string_global \in URL
  BY <1>1, KnownOf
<1>3. PICK l \in ConnType :
        /\ Apply(c, Outcome(l, get_string_global, {Segment(l, {"ACK"}, <<>>)}))
        /\ l = k \/ (k.st = "TIME_WAIT" /\ l = AfterAck(k, s))
  BY <1>2, AfterAckOK DEF AckOnly
<1> DEFINE g == Segment(l, {"ACK"}, <<>>)
           o == Outcome(l, get_string_global, {g})
<1>4. l.peer = k.peer /\ l.gen = k.gen
  BY <1>2, <1>3, AfterAckIs
<1>5. g \in FromServer
  <2>1. {"ACK"} \in SUBSET Flags /\ <<>> \in Seq(Byte)
    BY DEF Flags
  <2> QED BY <1>2, <1>4, <2>1, SegmentOK
<1>6. g.to = k.peer /\ g.gen = k.gen /\ g.data = <<>> /\ "FIN" \notin g.flags
  BY <1>4, SegmentIs
<1> HIDE DEF g
<1>7. SlotFits(k, l, q, ch, {g})
  <2>1. CASE l = k
    BY <1>2, <1>6, <2>1, SameFits
  <2>2. CASE k.st = "TIME_WAIT" /\ l = AfterAck(k, s)
    <3>1. l.st = "TIME_WAIT" /\ l.app = k.app /\ l.snd >= k.snd /\ l.snd + l.len = k.snd + k.len
      BY <1>2, <2>2, AfterAckIs
    <3>2. /\ k.st \in Waiting \cup {"LAST_ACK"} /\ l.st \in Waiting \cup {"LAST_ACK", "CLOSED"}
          /\ k.st \in Waiting /\ l.st \notin FinSent
      BY <2>2, <3>1 DEF Waiting, FinSent
    <3> HIDE DEF k, q, ch
    <3> QED BY <1>2, <1>4, <1>6, <3>1, <3>2, ClosingFits
  <2> QED BY <1>3, <2>1, <2>2
<1>8. o \in OutcomeType /\ o.conn = l /\ o.out = {g} /\ Apply(c, o)
  BY <1>2, <1>3, <1>5 DEF Outcome, OutcomeType, g
<1> HIDE DEF o
<1>9. \A p \in Client : changed[p] => changed'[p]
  BY <1>1
<1> QED BY <1>1, <1>7, <1>8, <1>9, ApplyKeeps

\* What fits when an established connection answers with the application's call.
LEMMA EstablishedFits ==
    ASSUME NEW k \in ConnType, NEW a \in ConnType, NEW q \in ClientType, NEW ch,
           k.st \in Opening, a.st = "ESTABLISHED", a.peer = k.peer, a.gen = k.gen, a.peer \in Client,
           a.len = 0, a.snd = k.snd + k.len, q.gen = a.gen, q.nxt <= a.snd,
           NEW t \in CallType, "CLOSE" \notin t.flags, t.slen = 0 \/ SentPage(t, a.mss),
           t.slen > 0 => a.rcv >= 3, ~ch => a.snd = t.app.ackedCount + 1
    PROVE  SlotFits(k, appsend(a, t).conn, q, ch, appsend(a, t).out)
<1> DEFINE o == appsend(a, t)
           l == o.conn
<1>1. /\ l.st = a.st /\ l.peer = a.peer /\ l.gen = a.gen /\ l.snd = a.snd /\ l.rcv = a.rcv
      /\ l.app = t.app /\ l.len = t.slen
      /\ a.snd = t.app.ackedCount + 1 => Counted(l)
      /\ \A g \in o.out :
           /\ g.to = a.peer /\ g.gen = a.gen /\ g.seq = a.snd /\ g.flags = {"ACK"}
           /\ g.data # <<>> => Len(g.data) = l.len
           /\ a.snd = t.app.ackedCount + 1 => Numbered(g.data, g.seq)
  BY AppsendSends
<1> HIDE DEF o, l
<1>2. a.snd \in Nat /\ t.slen \in Nat /\ q.nxt \in Nat /\ k.snd \in Nat /\ k.len \in Nat
  BY DEF ConnType, CallType, ClientType
<1>3. Edge(l) = a.snd + t.slen /\ Edge(k) = k.snd + k.len
  BY <1>1 DEF Edge, FinSent, Opening
<1>4. ConnOK(l, q, ch)
  BY <1>1, <1>2 DEF ConnOK, Waiting
<1>5. ASSUME NEW g \in o.out
      PROVE  /\ g.to = k.peer /\ g.gen = k.gen
             /\ ~ch => Numbered(g.data, g.seq)
             /\ g.data # <<>> => l.st \in Opening /\ End(g) <= Edge(l)
             /\ "FIN" \notin g.flags
  BY <1>1, <1>2, <1>3, <1>5 DEF End, Opening
<1> QED BY <1>1, <1>2, <1>3, <1>4, <1>5 DEF SlotFits, Waiting, o, l

\* The request completes only when it has its last line.
LEMMA RequestEndsAt ==
    ASSUME NEW s \in FromClient, RequestOK(s), RequestEnds(s.lines), NEW k \in ConnType,
           ~OutOfSequence(k, s)
    PROVE  k.rcv + Len(s.lines) = 3
<1>1. PICK i \in DOMAIN s.lines : s.lines[i] = Blank
  BY DEF RequestEnds
<1>2. s.lines \in Seq(Line)
  BY DEF FromClient
<1>3. s.lines # <<>> /\ s.seq + Len(s.lines) = 3
  BY <1>1, <1>2 DEF RequestOK
<1> QED BY <1>3 DEF OutOfSequence

\* The SYNACK is acknowledged.
LEMMA SynRcvdKeeps ==
    ASSUME SlotInv, PageInv, NEW s \in toServer, NEW c \in Slot, SynRcvdInput(s, c)
    PROVE  PageInv'
<1> DEFINE k == conns[c]
           q == client[k.peer]
           ch == changed'[k.peer]
<1>1. k.st = "SYN_RCVD" /\ k.peer = s.from /\ ~OutOfSequence(k, s)
      /\ toServer' \subseteq toServer /\ UNCHANGED <<client, opened, changed>>
  BY DEF SynRcvdInput, InSequence, Found, SlotOf, Take, Quiet
<1>2. /\ k \in ConnType /\ k.peer \in Client /\ k.gen >= 1 /\ q \in ClientType
      /\ ConnOK(k, q, ch) /\ get_string_global \in URL
      /\ s \in FromClient /\ RequestOK(s) /\ AckOK(s, q)
  BY <1>1, KnownOf
<1>3. k.snd = 0 /\ k.len = 1 /\ k.rcv = 1
  BY <1>1, <1>2 DEF ConnOK
<1>4. CASE ~Acknowledges(k, s)
  <2>1. UNCHANGED <<conns, toClient>>
    BY <1>4 DEF SynRcvdInput
  <2> QED BY <1>1, <2>1, NothingKeeps
<1>5. CASE Acknowledges(k, s)
  <2> DEFINE b == AfterAck(k, s)
             a == [b EXCEPT !.st = "ESTABLISHED", !.rcv = @ + Len(s.lines)]
             fl == {"CONNECTED"} \cup DataFlag(s)
  <2>1. PICK page \in Pages : Apply(c, appsend(a, AppCall(a, fl, s.lines, page)))
    BY <1>5 DEF SynRcvdInput
  <2> DEFINE t == AppCall(a, fl, s.lines, page)
             o == appsend(a, t)
  <2>2. /\ b \in ConnType /\ b.peer = k.peer /\ b.gen = k.gen /\ b.rcv = 1 /\ b.len = 0 /\ b.snd = 1
    <3>1. b.snd = k.snd + k.len
      BY <1>2, <1>5, AfterAckIs
    <3>2. b \in ConnType /\ b.peer = k.peer /\ b.gen = k.gen /\ b.rcv = k.rcv /\ b.len = 0
      BY <1>2, <1>5, AfterAckIs
    <3> HIDE DEF b, k
    <3> QED BY <1>3, <3>1, <3>2
  <2> HIDE DEF b
  <2>3. s.lines \in Seq(Line) /\ Len(s.lines) \in Nat /\ "ESTABLISHED" \in AnyState
    BY <1>2 DEF FromClient, AnyState
  <2>4. /\ a \in ConnType /\ a.st = "ESTABLISHED" /\ a.peer = k.peer /\ a.gen = k.gen
        /\ a.rcv = k.rcv + Len(s.lines) /\ a.len = 0 /\ a.snd = 1
    <3>1. b.rcv + Len(s.lines) \in Nat
      BY <2>2, <2>3
    <3> QED BY <1>3, <2>2, <2>3, <3>1 DEF ConnType
  <2> HIDE DEF a
  <2>5. fl \in SUBSET {"CONNECTED", "NEWDATA"} /\ "CONNECTED" \in fl /\ fl \in SUBSET AppFlags
    BY DEF DataFlag, AppFlags
  <2> HIDE DEF fl
  <2>6. t \in CallType
    BY <1>2, <2>3, <2>4, <2>5, AppCallOK
  <2>7. /\ t.app.ackedCount = 0 /\ "CLOSE" \notin t.flags
        /\ t.slen = 0 \/ (SentPage(t, a.mss) /\ RequestEnds(s.lines))
    <3>1. a.app \in AppType /\ a.mss \in Nat /\ page \in [URL -> Nat]
      BY <2>4, UipAssumption DEF ConnType
    <3>2. t = server_task_impl(a.app, get_string_global, a.mss, fl, s.lines, page)
      BY DEF AppCall
    <3> HIDE DEF t
    <3> QED BY <1>2, <2>3, <2>5, <3>1, <3>2, CallRequest
  <2>8. o \in OutcomeType
    BY <1>2, <2>4, <2>6, AppsendOK
  <2> HIDE DEF t
  <2>9. t.slen > 0 => a.rcv >= 3
    BY <1>1, <1>2, <2>4, <2>7, RequestEndsAt
  <2>10. q.gen = a.gen /\ q.nxt <= a.snd
    <3>1. s.gen = k.gen /\ k.gen # 0
      BY <1>2, <1>5 DEF Acknowledges
    <3>2. q.gen = k.gen
      BY <1>2, <3>1 DEF AckOK
    <3>3. q.nxt <= k.snd + k.len
      BY <1>1, <1>2, <3>2 DEF ConnOK, Opening
    <3> QED BY <1>3, <2>4, <3>2, <3>3
  <2>11. k.st \in Opening /\ a.snd = k.snd + k.len /\ a.snd = t.app.ackedCount + 1
    BY <1>1, <1>3, <2>4, <2>7 DEF Opening
  <2>12. SlotFits(k, o.conn, q, ch, o.out)
    <3> HIDE DEF k, q, ch
    <3> QED BY <1>2, <2>4, <2>6, <2>7, <2>9, <2>10, <2>11, EstablishedFits
  <2>13. Apply(c, o) /\ k.st # "CLOSED" /\ \A p \in Client : changed[p] => changed'[p]
    BY <1>1, <2>1 DEF t
  <2> HIDE DEF o
  <2> QED BY <1>1, <2>8, <2>12, <2>13, ApplyKeeps
<1> QED BY <1>4, <1>5

\* The client of an established connection has as many bytes as it counts.
LEMMA EstablishedClient ==
    ASSUME SlotInv, PageInv, NEW c \in Slot, conns[c].st = "ESTABLISHED"
    PROVE  LET q == client[conns[c].peer]
           IN  q.gen = conns[c].gen /\ q.nxt = 1 + Len(q.got) /\ q.nxt <= conns[c].snd + conns[c].len
<1> DEFINE k == conns[c]
           q == client[k.peer]
<1>1. k.peer \in Client /\ k.gen >= 1 /\ ConnOK(k, q, changed[k.peer]) /\ k \in ConnType
  BY KnownOf
<1>2. q.gen = k.gen /\ q.nxt <= k.snd + k.len /\ k.st \in Opening
  BY <1>1 DEF ConnOK, Opening
<1>3. ~q.eof
  BY <1>1, <1>2 DEF PageInv, Ends
<1>4. q.gen # 0
  BY <1>1, <1>2 DEF ConnType
<1>5. q.nxt = 1 + Len(q.got)
  BY <1>1, <1>3, <1>4 DEF PageInv, ClientsOK, ClientOK
<1> QED BY <1>2, <1>5

\* The application closes: the client has everything.
LEMMA CloseFits ==
    ASSUME NEW k \in ConnType, NEW a \in ConnType, NEW q \in ClientType, NEW ch,
           k.st = "ESTABLISHED", a.peer = k.peer, a.gen = k.gen, a.peer \in Client,
           a.snd = k.snd + k.len, q.gen = a.gen,
           NEW t \in CallType, "CLOSE" \in t.flags,
           ~ch => Len(q.got) = t.app.cursor /\ a.snd = t.app.cursor + 1
    PROVE  SlotFits(k, appsend(a, t).conn, q, ch, appsend(a, t).out)
<1> DEFINE l == [a EXCEPT !.app = t.app, !.len = 1, !.st = "FIN_WAIT_1", !.nrtx = 0]
           g == Segment(l, {"FIN", "ACK"}, <<>>)
<1>1. appsend(a, t).conn = l /\ appsend(a, t).out = {g}
  BY DEF appsend, Outcome
<1>2. l.st = "FIN_WAIT_1" /\ l.peer = k.peer /\ l.gen = k.gen /\ l.snd = a.snd /\ l.app = t.app
  BY DEF ConnType
<1> HIDE DEF l
<1>3. g.to = k.peer /\ g.gen = k.gen /\ g.seq = a.snd /\ g.flags = {"FIN", "ACK"} /\ g.data = <<>>
  BY <1>2, SegmentIs
<1> HIDE DEF g
<1>4. a.snd \in Nat /\ k.snd \in Nat /\ k.len \in Nat
  BY DEF ConnType
<1>5. Edge(l) = a.snd /\ Edge(k) = a.snd
  BY <1>2 DEF Edge, FinSent
<1>6. ConnOK(l, q, ch)
  BY <1>2 DEF ConnOK, Opening
<1>7. Numbered(g.data, g.seq)
  BY <1>3 DEF Numbered
<1>8. l.st \notin Opening /\ l.st \in FinSent
  BY <1>2 DEF Opening, FinSent
<1>9. ~ch => Edge(l) <= l.app.cursor + 1
  BY <1>2, <1>4, <1>5
<1>10. Edge(k) <= Edge(l) /\ Edge(l) <= g.seq
  BY <1>3, <1>4, <1>5
<1> QED BY <1>1, <1>2, <1>3, <1>6, <1>7, <1>8, <1>9, <1>10 DEF SlotFits

\* Nothing for the application: only the window may have changed.
LEMMA WindowFits ==
    ASSUME NEW k \in ConnType, NEW a \in ConnType, NEW q, NEW ch0, NEW ch, ConnOK(k, q, ch0),
           k.st = "ESTABLISHED", a.st = k.st, a.peer = k.peer, a.gen = k.gen, a.snd = k.snd,
           a.len = k.len, a.rcv = k.rcv, a.app = k.app,
           ~ch => ~ch0 /\ (k.len > 0 => a.mss = k.mss)
    PROVE  SlotFits(k, a, q, ch, {})
<1>1. ConnOK(a, q, ch)
  BY DEF ConnOK, Counted, Waiting
<1>2. Edge(k) <= Edge(a)
  BY EdgeType DEF Edge
<1> QED BY <1>1, <1>2 DEF SlotFits, Waiting

\* Remember keeps what was recorded and adds what it is told.
LEMMA RememberIs ==
    ASSUME changed \in [Client -> BOOLEAN], NEW k, k.peer \in Client, NEW o, Remember(k, o)
    PROVE  /\ \A p \in Client : changed[p] => changed'[p]
           /\ ~changed'[k.peer] => ~changed[k.peer] /\ ~UnderSentData(k, o)
<1> DEFINE b == changed[k.peer] \/ UnderSentData(k, o)
<1>1. changed' = [changed EXCEPT ![k.peer] = b]
  BY DEF Remember
<1>2. changed'[k.peer] = b /\ \A p \in Client : p # k.peer => changed'[p] = changed[p]
  BY <1>1
<1> QED BY <1>2

\* Data and acknowledgements of an established connection.
LEMMA EstablishedKeeps ==
    ASSUME SlotInv, PageInv, NEW s \in toServer, NEW c \in Slot, EstablishedInput(s, c)
    PROVE  PageInv'
<1> DEFINE k == conns[c]
           q == client[k.peer]
           ch == changed'[k.peer]
           b == AfterAck(k, s)
           a == [b EXCEPT !.mss = mssFor(k, s), !.rcv = @ + Len(s.lines)]
           fl == AckFlag(k, s) \cup DataFlag(s)
           out(page) == IF fl = {} THEN Outcome(a, get_string_global, {})
                        ELSE appsend(a, AppCall(a, fl, s.lines, page))
<1>1. k.st = "ESTABLISHED" /\ k.peer = s.from /\ ~OutOfSequence(k, s)
      /\ toServer' \subseteq toServer /\ UNCHANGED <<client, opened>>
  BY DEF EstablishedInput, InSequence, Found, SlotOf, Take
<1>2. PICK page \in Pages : Apply(c, out(page)) /\ Remember(b, [out(page) EXCEPT !.conn = a])
  BY DEF EstablishedInput
<1> DEFINE t == AppCall(a, fl, s.lines, page)
           o == out(page)
<1>3. /\ k \in ConnType /\ k.peer \in Client /\ q \in ClientType
      /\ ConnOK(k, q, changed[k.peer]) /\ get_string_global \in URL /\ changed \in [Client -> BOOLEAN]
      /\ s \in FromClient /\ RequestOK(s) /\ AckOK(s, q)
  BY <1>1, KnownOf
<1>4. q.gen = k.gen /\ q.nxt = 1 + Len(q.got) /\ q.nxt <= k.snd + k.len
  BY <1>1, EstablishedClient
<1>5. /\ b \in ConnType /\ b.st = k.st /\ b.peer = k.peer /\ b.gen = k.gen /\ b.rcv = k.rcv
      /\ b.app = k.app /\ b.mss = k.mss /\ b.snd + b.len = k.snd + k.len
      /\ Acknowledges(k, s) => b.len = 0 /\ b.snd = k.snd + k.len
      /\ ~Acknowledges(k, s) => b = k
  BY <1>3, AfterAckIs
<1> HIDE DEF b
<1>6. s.lines \in Seq(Line) /\ Len(s.lines) \in Nat /\ s.wnd \in Nat /\ s.seq \in Nat /\ s.ack \in Nat
      /\ (s.lines # <<>> => Len(s.lines) > 0)
  BY <1>3 DEF FromClient
<1>7. /\ a \in ConnType /\ a.st = k.st /\ a.peer = k.peer /\ a.gen = k.gen /\ a.snd = b.snd /\ a.len = b.len
      /\ a.rcv = k.rcv + Len(s.lines) /\ a.app = k.app
  <2>1. mssFor(k, s) \in Nat /\ b.rcv + Len(s.lines) \in Nat
    <3>1. k.initialmss \in Nat /\ b.rcv \in Nat
      BY <1>3, <1>5 DEF ConnType
    <3> HIDE DEF k
    <3> QED BY <1>6, <3>1 DEF mssFor
  <2> QED BY <1>5, <2>1 DEF ConnType
<1> HIDE DEF a
<1>8. fl \in SUBSET AppFlags
  BY DEF AckFlag, DataFlag, AppFlags
<1>9. t \in CallType
  BY <1>3, <1>6, <1>7, <1>8, AppCallOK
<1>10. o \in OutcomeType /\ Apply(c, o) /\ o = IF fl = {} THEN Outcome(a, get_string_global, {}) ELSE appsend(a, t)
  <2>1. appsend(a, t) \in OutcomeType
    <3> HIDE DEF t
    <3> QED BY <1>3, <1>7, <1>9, AppsendOK
  <2>2. Outcome(a, get_string_global, {}) \in OutcomeType
    BY <1>3, <1>7 DEF Outcome, OutcomeType
  <2> QED BY <1>2, <2>1, <2>2
<1>11. t = server_task_impl(a.app, get_string_global, a.mss, fl, s.lines, page)
  BY DEF AppCall
<1>12. a.app \in AppType /\ a.mss \in Nat /\ page \in [URL -> Nat]
       /\ k.snd \in Nat /\ k.len \in Nat /\ k.rcv \in Nat /\ k.app.ackedCount \in Nat
       /\ k.app.sentCount \in Nat /\ k.app \in AppType
  <2>1. a.app \in AppType /\ a.mss \in Nat /\ k.app \in AppType
        /\ k.snd \in Nat /\ k.len \in Nat /\ k.rcv \in Nat
    <3> HIDE DEF k
    <3> QED BY <1>3, <1>7 DEF ConnType
  <2>2. page \in [URL -> Nat]
    BY UipAssumption
  <2> HIDE DEF k
  <2> QED BY <2>1, <2>2 DEF AppType
<1>13. /\ \A p \in Client : changed[p] => changed'[p]
       /\ ~ch => ~changed[k.peer] /\ (b.len > 0 => a.mss = b.mss)
  <2>1. Remember(b, [o EXCEPT !.conn = a]) /\ b.peer \in Client /\ [o EXCEPT !.conn = a].conn = a
    BY <1>2, <1>3, <1>5, <1>10 DEF OutcomeType
  <2> HIDE DEF o
  <2>2. /\ \A p \in Client : changed[p] => changed'[p]
        /\ ~changed'[b.peer] => ~changed[b.peer] /\ ~UnderSentData(b, [o EXCEPT !.conn = a])
    BY <1>3, <2>1, RememberIs
  <2> QED BY <1>5, <2>1, <2>2 DEF UnderSentData
<1> HIDE DEF t, o
<1>14. SlotFits(k, o.conn, q, ch, o.out)
  <2>1. CASE fl = {}
    <3>1. ~Acknowledges(k, s) /\ s.lines = <<>>
      BY <2>1 DEF AckFlag, DataFlag
    <3>2. a.snd = k.snd /\ a.len = k.len /\ a.rcv = k.rcv
      BY <1>5, <1>7, <1>12, <3>1
    <3>3. ~ch => ~changed[k.peer] /\ (k.len > 0 => a.mss = k.mss)
      BY <1>5, <1>13, <3>1
    <3>4. o.conn = a /\ o.out = {}
      BY <1>10, <2>1 DEF Outcome
    <3> HIDE DEF k, q, ch
    <3>5. SlotFits(k, a, q, ch, {})
      BY <1>1, <1>3, <1>7, <3>2, <3>3, WindowFits
    <3> QED BY <3>4, <3>5
  <2>2. CASE Acknowledges(k, s)
    <3>1. k.len > 0 /\ k.rcv >= 3 /\ s.gen = k.gen /\ s.ack = k.snd + k.len
      BY <1>1, <1>3, <2>2 DEF Acknowledges, ConnOK
    <3>2. s.lines = <<>>
      <4> SUFFICES ASSUME s.lines # <<>> PROVE FALSE
        OBVIOUS
      <4>1. s.seq = k.rcv /\ s.seq + Len(s.lines) <= 3
        BY <1>1, <1>3 DEF OutOfSequence, RequestOK
      <4> QED BY <1>6, <1>12, <3>1, <4>1
    <3>3. fl = {"ACKDATA"} /\ a.rcv >= 3
      BY <1>7, <1>12, <2>2, <3>1, <3>2 DEF AckFlag, DataFlag
    <3>4. /\ t.app.ackedCount = k.app.ackedCount + k.app.sentCount
          /\ "CLOSE" \in t.flags => t.app.cursor = t.app.ackedCount
          /\ "CLOSE" \notin t.flags => SentPage(t, a.mss)
      <4> DEFINE lines == s.lines
                 url == get_string_global
      <4>1. url \in URL /\ a.app = k.app /\ t = server_task_impl(a.app, url, a.mss, {"ACKDATA"}, lines, page)
        BY <1>3, <1>7, <1>11, <3>3
      <4> HIDE DEF fl, k, lines, url
      <4>2. /\ t.app.ackedCount = a.app.ackedCount + a.app.sentCount
            /\ "CLOSE" \in t.flags => t.app.cursor = t.app.ackedCount
            /\ "CLOSE" \notin t.flags => SentPage(t, a.mss)
        BY <1>12, <4>1, CallAcked
      <4> QED BY <4>1, <4>2
    <3>5. a.len = 0 /\ a.snd = k.snd + k.len
      BY <1>5, <1>7, <2>2
    <3>6. ~ch => a.snd = t.app.ackedCount + 1
      <4>1. ~ch => Counted(k)
        BY <1>1, <1>3, <1>13 DEF ConnOK
      <4>2. ~ch => k.snd = k.app.ackedCount + 1 /\ k.app.sentCount = k.len
        BY <3>1, <4>1 DEF Counted
      <4> QED BY <1>12, <3>4, <3>5, <4>2
    <3>7. o = appsend(a, t)
      BY <1>10, <3>3
    <3>8. k.st \in Opening /\ a.st = "ESTABLISHED" /\ a.peer \in Client /\ q.gen = a.gen /\ q.nxt <= a.snd
      BY <1>1, <1>3, <1>4, <1>7, <3>5 DEF Opening
    <3>9. CASE "CLOSE" \notin t.flags
      <4> HIDE DEF k, q, ch
      <4>1. SlotFits(k, appsend(a, t).conn, q, ch, appsend(a, t).out)
        BY <1>3, <1>7, <1>9, <3>3, <3>4, <3>5, <3>6, <3>8, <3>9, EstablishedFits
      <4> QED BY <3>7, <4>1
    <3>10. CASE "CLOSE" \in t.flags
      <4>1. s.ack <= q.nxt
        BY <1>3, <3>1, KnownOf, <1>1 DEF AckOK
      <4>2. q.nxt \in Nat /\ q.got \in Seq(Byte) /\ Len(q.got) \in Nat
        BY <1>3 DEF ClientType
      <4>3. q.nxt = k.snd + k.len
        <5> HIDE DEF k, q
        <5> QED BY <1>4, <1>6, <1>12, <3>1, <4>1, <4>2
      <4>4. t.app.ackedCount \in Nat
        BY <1>9 DEF CallType, AppType
      <4>5. ~ch => Len(q.got) = t.app.cursor /\ a.snd = t.app.cursor + 1
        BY <1>4, <3>4, <3>5, <3>6, <3>10, <4>2, <4>3, <4>4
      <4> HIDE DEF k, q, ch
      <4>6. SlotFits(k, appsend(a, t).conn, q, ch, appsend(a, t).out)
        BY <1>1, <1>3, <1>7, <1>9, <3>5, <3>8, <3>10, <4>5, CloseFits
      <4> QED BY <3>7, <4>6
    <3> QED BY <3>9, <3>10
  <2>3. CASE ~Acknowledges(k, s) /\ fl # {}
    <3>1. s.lines # <<>> /\ fl = {"NEWDATA"} /\ b = k
      BY <1>5, <2>3 DEF AckFlag, DataFlag
    <3>2. s.seq = k.rcv /\ s.seq + Len(s.lines) <= 3
      BY <1>1, <1>3, <3>1 DEF OutOfSequence, RequestOK
    <3>3. k.len = 0
      <4>1. ~(k.rcv >= 3)
        BY <1>6, <1>12, <3>1, <3>2
      <4>2. ~(k.len > 0)
        BY <1>1, <1>3, <4>1 DEF ConnOK
      <4> QED BY <1>12, <4>2
    <3>4. /\ t.app.ackedCount = k.app.ackedCount /\ "CLOSE" \notin t.flags
          /\ t.slen = 0 \/ (SentPage(t, a.mss) /\ RequestEnds(s.lines))
      <4>1. fl \in SUBSET {"CONNECTED", "NEWDATA"} /\ "CONNECTED" \notin fl
        BY <3>1
      <4> DEFINE lines == s.lines
                 url == get_string_global
      <4>2. lines \in Seq(Line) /\ url \in URL /\ a.app = k.app
            /\ t = server_task_impl(a.app, url, a.mss, fl, lines, page)
        BY <1>3, <1>6, <1>7, <1>11
      <4> HIDE DEF fl, k, lines, url
      <4>3. /\ t.app.ackedCount = a.app.ackedCount /\ "CLOSE" \notin t.flags
            /\ t.slen = 0 \/ (SentPage(t, a.mss) /\ RequestEnds(lines))
        BY <1>12, <4>1, <4>2, CallRequest
      <4> QED BY <4>2, <4>3 DEF lines
    <3>5. a.len = 0 /\ a.snd = k.snd + k.len
      BY <1>7, <1>12, <3>1, <3>3
    <3>6. ~ch => a.snd = t.app.ackedCount + 1
      <4>1. ~ch => Counted(k)
        BY <1>1, <1>3, <1>13 DEF ConnOK
      <4> QED BY <1>12, <3>3, <3>4, <3>5, <4>1 DEF Counted
    <3>7. t.slen > 0 => a.rcv >= 3
      BY <1>1, <1>3, <1>7, <3>4, RequestEndsAt
    <3>8. o = appsend(a, t)
      BY <1>10, <2>3
    <3>9. k.st \in Opening /\ a.st = "ESTABLISHED" /\ a.peer \in Client /\ q.gen = a.gen /\ q.nxt <= a.snd
      BY <1>1, <1>3, <1>4, <1>7, <3>5 DEF Opening
    <3> HIDE DEF k, q, ch
    <3>10. SlotFits(k, appsend(a, t).conn, q, ch, appsend(a, t).out)
      BY <1>3, <1>7, <1>9, <3>4, <3>5, <3>6, <3>7, <3>9, EstablishedFits
    <3> QED BY <3>8, <3>10
  <2> QED BY <2>1, <2>2, <2>3
<1>15. k.st # "CLOSED"
  BY <1>1
<1> QED BY <1>1, <1>10, <1>13, <1>14, <1>15, ApplyKeeps

\* The client's FIN, while nothing is outstanding: this side sends its own.
LEMMA EstablishedFinKeeps ==
    ASSUME SlotInv, PageInv, NEW s \in toServer, NEW c \in Slot, EstablishedFin(s, c)
    PROVE  PageInv'
<1> DEFINE k == conns[c]
           q == client[k.peer]
           ch == changed'[k.peer]
           b == AfterAck(k, s)
<1>1. k.st = "ESTABLISHED" /\ toServer' \subseteq toServer /\ UNCHANGED <<client, opened, changed>>
  BY DEF EstablishedFin, InSequence, Found, Take, Quiet
<1>2. /\ k \in ConnType /\ k.peer \in Client /\ ConnOK(k, q, ch) /\ get_string_global \in URL
      /\ s \in FromClient
  BY <1>1, KnownOf
<1>3. b \in ConnType /\ b.peer = k.peer /\ b.gen = k.gen /\ b.snd + b.len = k.snd + k.len
  BY <1>2, AfterAckIs
<1>4. CASE b.len > 0
  <2>1. UNCHANGED <<conns, toClient>>
    BY <1>4 DEF EstablishedFin
  <2> QED BY <1>1, <2>1, NothingKeeps
<1>5. CASE ~(b.len > 0)
  <2> DEFINE fl == {"CLOSE"} \cup AckFlag(k, s) \cup DataFlag(s)
             t(page) == AppCall(b, fl, s.lines, page)
             l0(page) == [b EXCEPT !.rcv = @ + 1 + Len(s.lines), !.len = 1, !.st = "LAST_ACK",
                                   !.nrtx = 0, !.app = t(page).app]
  <2>1. PICK page \in Pages :
          Apply(c, Outcome(l0(page), t(page).url, {Segment(l0(page), {"FIN", "ACK"}, <<>>)}))
    BY <1>5 DEF EstablishedFin
  <2> HIDE DEF b
  <2>2. fl \in SUBSET AppFlags /\ s.lines \in Seq(Line) /\ Len(s.lines) \in Nat
    BY <1>2 DEF AppFlags, AckFlag, DataFlag, FromClient
  <2> HIDE DEF fl
  <2>3. t(page) \in CallType
    BY <1>2, <1>3, <2>2, AppCallOK
  <2> HIDE DEF t
  <2>4. t(page).app \in AppType /\ t(page).url \in URL
    BY <2>3 DEF CallType
  <2> DEFINE l == l0(page)
             url == t(page).url
             g == Segment(l, {"FIN", "ACK"}, <<>>)
             o == Outcome(l, url, {g})
  <2>5. /\ l \in ConnType /\ l.st = "LAST_ACK" /\ l.peer = k.peer /\ l.gen = k.gen /\ l.snd = b.snd
    <3>1. "LAST_ACK" \in AnyState /\ 0 \in 0 .. UIP_MAXRTX /\ b.rcv + 1 + Len(s.lines) \in Nat
      BY <1>3, <2>2, UipAssumption DEF AnyState, ConnType
    <3> HIDE DEF k
    <3> QED BY <1>3, <2>4, <3>1 DEF ConnType
  <2>6. Apply(c, o)
    BY <2>1
  <2> HIDE DEF l, url
  <2>7. g.to = k.peer /\ g.gen = k.gen /\ g.seq = l.snd /\ g.flags = {"FIN", "ACK"} /\ g.data = <<>>
    BY <2>5, SegmentIs
  <2>8. g \in FromServer
    <3>1. {"FIN", "ACK"} \in SUBSET Flags /\ <<>> \in Seq(Byte)
      BY DEF Flags
    <3> QED BY <1>2, <2>5, <3>1, SegmentOK
  <2> HIDE DEF g
  <2>9. Edge(l) = b.snd /\ Edge(k) = b.snd /\ b.snd \in Nat
    <3>1. b.len = 0 /\ b.snd \in Nat
      BY <1>3, <1>5 DEF ConnType
    <3>2. k.snd + k.len = b.snd
      BY <1>3, <3>1
    <3> QED BY <1>1, <2>5, <3>1, <3>2 DEF Edge, FinSent
  <2>10. ConnOK(l, q, ch)
    <3>1. q.gen = k.gen
      BY <1>1, <1>2 DEF ConnOK
    <3> QED BY <2>5, <3>1 DEF ConnOK, Opening, Waiting
  <2>11. SlotFits(k, l, q, ch, {g})
    <3>1. Numbered(g.data, g.seq)
      BY <2>7 DEF Numbered
    <3>2. l.st \notin Opening /\ l.st \in FinSent /\ l.st \notin Waiting
      BY <2>5 DEF Opening, FinSent, Waiting
    <3>3. Edge(k) <= Edge(l) /\ Edge(l) <= g.seq
      BY <2>5, <2>7, <2>9
    <3> HIDE DEF k, q, ch
    <3> QED BY <2>5, <2>7, <2>10, <3>1, <3>2, <3>3 DEF SlotFits
  <2>12. o \in OutcomeType /\ o.conn = l /\ o.out = {g}
    BY <2>4, <2>5, <2>8 DEF Outcome, OutcomeType, url
  <2>13. k.st # "CLOSED" /\ \A p \in Client : changed[p] => changed'[p]
    BY <1>1
  <2>14. Apply(c, o)
    BY <2>6 DEF g
  <2> HIDE DEF o
  <2> QED BY <1>1, <2>11, <2>12, <2>13, <2>14, ApplyKeeps
<1> QED BY <1>4, <1>5

\* After this side's FIN the connection only goes towards its end.
LEMMA ClosingKeeps ==
    ASSUME SlotInv, PageInv, NEW s \in toServer, NEW c \in Slot, ClosingInput(s, c)
    PROVE  PageInv'
<1> DEFINE k == conns[c]
           q == client[k.peer]
           ch == changed'[k.peer]
           b == AfterAck(k, s)
           waits == b.st \in {"FIN_WAIT_1", "FIN_WAIT_2"}
           fin == waits /\ "FIN" \in s.flags
           st == AfterFin(b, s, Acknowledges(k, s))
           told == fin \/ st = "CLOSED"
           app == IF told THEN Told(b, "CLOSE") ELSE b.app
           rcv == b.rcv + (IF waits THEN Len(s.lines) ELSE 0) + (IF fin THEN 1 ELSE 0)
           l == [b EXCEPT !.st = st, !.app = app, !.rcv = rcv]
           drop == b.st = "FIN_WAIT_1" /\ Acknowledges(k, s)
           out == IF fin \/ (waits /\ s.lines # <<>> /\ ~drop)
                  THEN {Segment(l, {"ACK"}, <<>>)} ELSE {}
           o == Outcome(l, get_string_global, out)
<1>1. /\ k.st \in {"LAST_ACK", "FIN_WAIT_1", "FIN_WAIT_2", "CLOSING"} /\ k.st # "CLOSED"
      /\ toServer' \subseteq toServer /\ UNCHANGED <<client, opened, changed>>
  BY DEF ClosingInput, InSequence, Found, Take, Quiet
<1>2. /\ k \in ConnType /\ k.peer \in Client /\ ConnOK(k, q, ch) /\ get_string_global \in URL
      /\ s \in FromClient
  BY <1>1, KnownOf
<1>3. Apply(c, o)
  BY DEF ClosingInput
<1>4. /\ b \in ConnType /\ b.st = k.st /\ b.peer = k.peer /\ b.gen = k.gen /\ b.app = k.app
      /\ b.snd >= k.snd /\ b.snd + b.len = k.snd + k.len
  BY <1>2, AfterAckIs
<1> HIDE DEF b
<1>5. /\ st \in Waiting \cup {"LAST_ACK", "CLOSED"} /\ st \in AnyState \cup {"CLOSED"}
      /\ st \in Waiting => k.st \in Waiting
      /\ st \in FinSent => k.st \in FinSent
      /\ k.st \in Waiting \cup {"LAST_ACK"}
  BY <1>1, <1>4 DEF AfterFin, Waiting, FinSent, AnyState
<1> HIDE DEF st
<1>6. app \in AppType /\ app.cursor = k.app.cursor
  <2>1. Told(b, "CLOSE") \in AppType /\ Told(b, "CLOSE").cursor = b.app.cursor
    BY <1>4, ToldType, ToldKeeps
  <2>2. b.app \in AppType
    BY <1>4 DEF ConnType
  <2> HIDE DEF told, k
  <2> QED BY <1>4, <2>1, <2>2
<1> HIDE DEF app
<1>7. rcv \in Nat
  <2>1. b.rcv \in Nat /\ s.lines \in Seq(Line)
    BY <1>2, <1>4 DEF ConnType, FromClient
  <2> HIDE DEF waits, fin
  <2> QED BY <2>1
<1> HIDE DEF rcv
<1>8. /\ l \in ConnType /\ l.st = st /\ l.peer = k.peer /\ l.gen = k.gen /\ l.app = app
      /\ l.snd = b.snd /\ l.len = b.len
  <2> HIDE DEF k
  <2> QED BY <1>4, <1>5, <1>6, <1>7 DEF ConnType
<1> HIDE DEF l
<1>9. \A g \in out : g = Segment(l, {"ACK"}, <<>>)
  OBVIOUS
<1>10. out \in SUBSET FromServer
  <2>1. {"ACK"} \in SUBSET Flags /\ <<>> \in Seq(Byte)
    BY DEF Flags
  <2>2. Segment(l, {"ACK"}, <<>>) \in FromServer
    BY <1>2, <1>8, <2>1, SegmentOK
  <2> QED BY <1>9, <2>2
<1> HIDE DEF out
<1>11. \A g \in out : g.to = k.peer /\ g.gen = k.gen /\ g.data = <<>> /\ "FIN" \notin g.flags
  BY <1>8, <1>9, SegmentIs
<1>12. SlotFits(k, l, q, ch, out)
  <2> HIDE DEF k, q, ch
  <2> QED BY <1>2, <1>4, <1>5, <1>6, <1>8, <1>11, ClosingFits
<1>13. o \in OutcomeType /\ o.conn = l /\ o.out = out
  BY <1>2, <1>8, <1>10 DEF Outcome, OutcomeType
<1>14. \A p \in Client : changed[p] => changed'[p]
  BY <1>1
<1> HIDE DEF o
<1> QED BY <1>1, <1>3, <1>12, <1>13, <1>14, ApplyKeeps

-----------------------------------------------------------------------------
(* The periodic timer.                                                     *)

\* A retransmission by the application repeats what is outstanding.
LEMMA RexmitFits ==
    ASSUME NEW k \in ConnType, NEW a \in ConnType, NEW l \in ConnType, NEW q, NEW ch0, NEW ch,
           ConnOK(k, q, ch0), k.st = "ESTABLISHED", k.len > 0,
           a.st = k.st, a.peer = k.peer, a.gen = k.gen, a.snd = k.snd, a.len = k.len, a.rcv = k.rcv,
           a.app = k.app, a.mss = k.mss, NEW t \in CallType, SentPage(t, a.mss),
           t.app.ackedCount = k.app.ackedCount,
           l.st = a.st, l.peer = a.peer, l.gen = a.gen, l.snd = a.snd, l.len = a.len, l.rcv = a.rcv,
           l.mss = a.mss, l.app = t.app,
           ~ch => ~ch0 /\ l.app.cursor = k.app.cursor
    PROVE  SlotFits(k, l, q, ch, apprexmit(l, t).out)
<1>1. k.snd \in Nat /\ k.len \in Nat /\ k.mss \in Nat
  BY DEF ConnType
<1>2. ASSUME ~ch PROVE Counted(l) /\ l.len = t.slen /\ l.snd = t.app.ackedCount + 1
  <2>1. Counted(k)
    BY <1>2 DEF ConnOK
  <2>2. k.snd = k.app.ackedCount + 1 /\ k.len = Clamp(k.app.cursor - k.app.ackedCount, k.mss)
    BY <2>1 DEF Counted
  <2>3. t.slen = Clamp(t.app.cursor - t.app.ackedCount, k.mss) /\ t.app.sentCount = t.slen
    BY DEF SentPage
  <2>4. t.slen = k.len
    BY <1>2, <2>2, <2>3
  <2> QED BY <2>2, <2>3, <2>4 DEF Counted
<1>3. ConnOK(l, q, ch)
  BY <1>2 DEF ConnOK, Waiting
<1>4. Edge(k) = k.snd + k.len /\ Edge(l) = k.snd + k.len /\ l.st \in Opening /\ l.st \notin Waiting
      /\ k.st \in Opening
  BY DEF Edge, FinSent, Opening, Waiting
<1>5. ASSUME NEW g \in apprexmit(l, t).out
      PROVE  /\ g.to = k.peer /\ g.gen = k.gen
             /\ ~ch => Numbered(g.data, g.seq)
             /\ g.data # <<>> => l.st \in Opening /\ End(g) <= Edge(l)
             /\ "FIN" \notin g.flags
  <2>1. /\ g.to = k.peer /\ g.gen = k.gen /\ g.seq = k.snd /\ g.flags = {"ACK"}
        /\ g.data # <<>> => Len(g.data) = k.len
    BY RexmitSends
  <2>2. ~ch => Numbered(g.data, g.seq)
    BY <1>1, <1>2, RexmitSends
  <2>3. g.data # <<>> => End(g) <= Edge(l)
    BY <1>1, <1>4, <2>1 DEF End
  <2> QED BY <1>4, <2>1, <2>2, <2>3
<1>6. Edge(k) <= Edge(l)
  BY <1>1, <1>4
<1> QED BY <1>3, <1>4, <1>5, <1>6 DEF SlotFits

\* The retransmission timer has run out.
LEMMA RetransmitKeeps ==
    ASSUME SlotInv, PageInv, NEW c \in Slot, Retransmit(c)
    PROVE  PageInv'
<1> DEFINE k == conns[c]
           q == client[k.peer]
           ch == changed'[k.peer]
           a == [k EXCEPT !.nrtx = @ + 1]
<1>1. /\ k.st # "CLOSED" /\ k.st \notin {"TIME_WAIT", "FIN_WAIT_2"} /\ k.len > 0
      /\ toServer' \subseteq toServer /\ UNCHANGED <<client, opened>>
  BY DEF Retransmit, Outstanding, Live, Tick
<1>2. /\ k \in ConnType /\ k.peer \in Client /\ ConnOK(k, q, changed[k.peer])
      /\ get_string_global \in URL /\ changed \in [Client -> BOOLEAN]
  BY <1>1, KnownOf
<1>3. /\ a \in ConnType /\ a.st = k.st /\ a.peer = k.peer /\ a.gen = k.gen /\ a.snd = k.snd
      /\ a.len = k.len /\ a.rcv = k.rcv /\ a.app = k.app /\ a.mss = k.mss
  <2>1. k.nrtx + 1 \in 0 .. UIP_MAXRTX
    <3>1. k.nrtx \in 0 .. UIP_MAXRTX /\ k.nrtx # UIP_MAXRTX
      BY <1>2 DEF Retransmit, GivesUp, ConnType
    <3> QED BY <3>1, UipAssumption
  <2> HIDE DEF k
  <2> QED BY <1>2, <2>1 DEF ConnType
<1>4. ASSUME NEW fl \in SUBSET Flags, UNCHANGED changed,
             Apply(c, Outcome(a, get_string_global, {Segment(a, fl, <<>>)})),
             SlotFits(k, a, q, ch, {Segment(a, fl, <<>>)})
      PROVE  PageInv'
  <2> DEFINE g == Segment(a, fl, <<>>)
             o == Outcome(a, get_string_global, {g})
  <2> HIDE DEF a
  <2>1. g \in FromServer
    <3>1. <<>> \in Seq(Byte)
      OBVIOUS
    <3> QED BY <1>2, <1>3, <1>4, <3>1, SegmentOK
  <2>2. o \in OutcomeType /\ o.conn = a /\ o.out = {g}
    BY <1>2, <1>3, <2>1 DEF Outcome, OutcomeType
  <2>3. Apply(c, o) /\ SlotFits(k, a, q, ch, {g}) /\ \A p \in Client : changed[p] => changed'[p]
    BY <1>4
  <2> HIDE DEF o, g
  <2> QED BY <1>1, <2>2, <2>3, ApplyKeeps
<1>5. {"SYN", "ACK"} \in SUBSET Flags /\ {"FIN", "ACK"} \in SUBSET Flags
  BY DEF Flags
<1>6. CASE k.st = "SYN_RCVD"
  <2> DEFINE g == Segment(a, {"SYN", "ACK"}, <<>>)
  <2>1. Apply(c, Outcome(a, get_string_global, {g})) /\ UNCHANGED changed
    BY <1>3, <1>6 DEF Retransmit
  <2> HIDE DEF a
  <2>2. g.to = k.peer /\ g.gen = k.gen /\ g.data = <<>> /\ "FIN" \notin g.flags
    BY <1>3, SegmentIs
  <2> HIDE DEF g
  <2>3. ConnOK(k, q, ch)
    BY <1>2, <2>1
  <2>4. SlotFits(k, a, q, ch, {g})
    <3> HIDE DEF k, q, ch
    <3> QED BY <1>2, <1>3, <2>2, <2>3, SameFits
  <2> QED BY <1>4, <1>5, <2>1, <2>4 DEF g
<1>7. CASE k.st \notin {"SYN_RCVD", "ESTABLISHED"}
  <2> DEFINE g == Segment(a, {"FIN", "ACK"}, <<>>)
  <2>1. Apply(c, Outcome(a, get_string_global, {g})) /\ UNCHANGED changed
    BY <1>3, <1>7 DEF Retransmit
  <2> HIDE DEF a
  <2>2. g.to = k.peer /\ g.gen = k.gen /\ g.data = <<>> /\ g.seq = a.snd
    BY <1>3, SegmentIs
  <2> HIDE DEF g
  <2>3. ConnOK(k, q, ch)
    BY <1>2, <2>1
  <2>4. k.st \in AnyState \cup {"CLOSED"} /\ k.snd \in Nat
    BY <1>2 DEF ConnType
  <2>5. k.st \in FinSent /\ k.st \in Waiting \cup {"LAST_ACK"}
    BY <1>1, <1>7, <2>4 DEF AnyState, FinSent, Waiting
  <2>6. SlotFits(k, a, q, ch, {g})
    <3>1. a.st \in Waiting \cup {"LAST_ACK", "CLOSED"} /\ a.snd >= k.snd
      BY <1>3, <2>4, <2>5
    <3> HIDE DEF k, q, ch
    <3> QED BY <1>2, <1>3, <2>2, <2>3, <2>5, <3>1, ClosingFits
  <2> QED BY <1>4, <1>5, <2>1, <2>6 DEF g
<1>8. CASE k.st = "ESTABLISHED"
  <2>1. PICK page \in Pages :
          LET t == AppCall(a, {"REXMIT"}, <<>>, page)
              o == apprexmit([a EXCEPT !.app = t.app], t)
          IN  Apply(c, o) /\ Remember(a, o)
    BY <1>3, <1>8 DEF Retransmit
  <2> HIDE DEF a
  <2> DEFINE t == AppCall(a, {"REXMIT"}, <<>>, page)
             l == [a EXCEPT !.app = t.app]
             o == apprexmit(l, t)
  <2>2. t \in CallType
    <3>1. {"REXMIT"} \in SUBSET AppFlags /\ <<>> \in Seq(Line)
      BY DEF AppFlags
    <3> QED BY <1>2, <1>3, <3>1, AppCallOK
  <2>3. t.app.ackedCount = a.app.ackedCount /\ SentPage(t, a.mss)
    <3>1. t = server_task_impl(a.app, get_string_global, a.mss, {"REXMIT"}, <<>>, page)
      BY DEF AppCall
    <3>2. a.app \in AppType /\ a.mss \in Nat /\ page \in [URL -> Nat]
      BY <1>3, UipAssumption DEF ConnType
    <3> HIDE DEF t
    <3> QED BY <1>2, <3>1, <3>2, CallRexmit
  <2>4. Apply(c, o) /\ Remember(a, o)
    BY <2>1
  <2> HIDE DEF t
  <2>5. /\ l \in ConnType /\ l.st = a.st /\ l.peer = a.peer /\ l.gen = a.gen /\ l.snd = a.snd
        /\ l.len = a.len /\ l.rcv = a.rcv /\ l.mss = a.mss /\ l.app = t.app
    <3>1. t.app \in AppType
      BY <2>2 DEF CallType
    <3> QED BY <1>3, <3>1 DEF ConnType
  <2> HIDE DEF l
  <2>6. o \in OutcomeType /\ o.conn = l
    BY <1>2, <1>3, <2>2, <2>5, ApprexmitOK
  <2>7. /\ \A p \in Client : changed[p] => changed'[p]
        /\ ~ch => ~changed[k.peer] /\ ~UnderSentData(a, o)
    <3>1. a.peer \in Client
      BY <1>2, <1>3
    <3> HIDE DEF o
    <3>2. /\ \A p \in Client : changed[p] => changed'[p]
          /\ ~changed'[a.peer] => ~changed[a.peer] /\ ~UnderSentData(a, o)
      BY <1>2, <2>4, <3>1, RememberIs
    <3> QED BY <1>3, <3>2
  <2>8. ~ch => ~changed[k.peer] /\ l.app.cursor = k.app.cursor
    <3> HIDE DEF o
    <3> QED BY <1>1, <1>3, <2>6, <2>7 DEF UnderSentData
  <2>9. SlotFits(k, l, q, ch, o.out)
    <3> DEFINE ch0 == changed[k.peer]
    <3>1. ConnOK(k, q, ch0) /\ (~ch => ~ch0 /\ l.app.cursor = k.app.cursor)
          /\ t.app.ackedCount = k.app.ackedCount
      BY <1>2, <1>3, <2>3, <2>8
    <3> HIDE DEF k, q, ch, ch0
    <3> QED BY <1>1, <1>2, <1>3, <1>8, <2>2, <2>3, <2>5, <3>1, RexmitFits
  <2> HIDE DEF o
  <2> QED BY <1>1, <2>4, <2>6, <2>7, <2>9, ApplyKeeps
<1> QED BY <1>6, <1>7, <1>8

\* uip_periodic for one connection.
LEMMA PeriodicKeeps ==
    ASSUME SlotInv, PageInv, NEW c \in Slot, Periodic(c)
    PROVE  PageInv'
<1> DEFINE none == {}
<1>1. conns[c] \in ConnType /\ \A g \in none : FALSE
  BY DEF SlotInv, ServerTypes
<1> HIDE DEF none
<1>2. CASE WaitExpires(c)
  <2> DEFINE k == [conns[c] EXCEPT !.st = "CLOSED"]
  <2>1. k.st = "CLOSED" /\ k.gen = conns[c].gen
    BY <1>1 DEF ConnType
  <2>2. conns' = [conns EXCEPT ![c] = k] /\ toClient' \subseteq toClient \cup none
        /\ toServer' \subseteq toServer /\ UNCHANGED <<client, opened, changed>>
    BY <1>2 DEF WaitExpires, Tick
  <2>3. \A g \in none : g.data = <<>> /\ "FIN" \notin g.flags /\ g.gen = k.gen
    BY <1>1
  <2> HIDE DEF k
  <2> QED BY <2>1, <2>2, <2>3, EndKeeps
<1>3. CASE GiveUp(c)
  <2> DEFINE k == [conns[c] EXCEPT !.st = "CLOSED", !.app = Told(conns[c], "TIMEDOUT")]
             g == Segment(k, {"RST", "ACK"}, <<>>)
  <2>1. k.st = "CLOSED" /\ k.gen = conns[c].gen
    BY <1>1 DEF ConnType
  <2>2. Apply(c, Outcome(k, get_string_global, {g})) /\ Tick /\ UNCHANGED changed
    BY <1>3 DEF GiveUp
  <2> HIDE DEF k
  <2>3. g.data = <<>> /\ "FIN" \notin g.flags /\ g.gen = k.gen
    BY SegmentIs
  <2> HIDE DEF g
  <2> DEFINE new == {g}
  <2>4. conns' = [conns EXCEPT ![c] = k] /\ toClient' \subseteq toClient \cup new
        /\ toServer' \subseteq toServer /\ UNCHANGED <<client, opened, changed>>
    BY <2>2 DEF Apply, Outcome, SentTo, Tick
  <2>5. \A h \in new : h.data = <<>> /\ "FIN" \notin h.flags /\ h.gen = k.gen
    BY <2>3
  <2> HIDE DEF new
  <2> QED BY <2>1, <2>4, <2>5, EndKeeps
<1>4. CASE Poll(c)
  <2> DEFINE k == conns[c]
             q == client[k.peer]
             ch == changed'[k.peer]
             l == [k EXCEPT !.nrtx = 0]
  <2>1. /\ k.st # "CLOSED" /\ toServer' \subseteq toServer /\ UNCHANGED <<client, opened, changed>>
        /\ toClient' \subseteq toClient \cup none /\ conns' = [conns EXCEPT ![c] = l]
    BY <1>4 DEF Poll, Tick
  <2>2. k \in ConnType /\ ConnOK(k, q, ch)
    BY <2>1, KnownOf
  <2>3. /\ l \in ConnType /\ l.st = k.st /\ l.peer = k.peer /\ l.gen = k.gen /\ l.snd = k.snd
        /\ l.len = k.len /\ l.rcv = k.rcv /\ l.app = k.app /\ l.mss = k.mss
    <3>1. 0 \in 0 .. UIP_MAXRTX
      BY UipAssumption
    <3> HIDE DEF k
    <3> QED BY <2>2, <3>1 DEF ConnType
  <2> HIDE DEF l
  <2>4. SlotFits(k, l, q, ch, none)
    <3>1. \A g \in none : g.to = k.peer /\ g.gen = k.gen /\ g.data = <<>> /\ "FIN" \notin g.flags
      BY <1>1
    <3> HIDE DEF k, q, ch
    <3> QED BY <2>2, <2>3, <3>1, SameFits
  <2>5. none \in SUBSET FromServer /\ \A p \in Client : changed[p] => changed'[p]
    BY <1>1, <2>1
  <2> QED BY <2>1, <2>3, <2>4, <2>5, SlotKeeps
<1>5. CASE NothingDue(c)
  BY <1>5, NothingKeeps DEF NothingDue, vars, serverVars
<1>6. CASE Retransmit(c)
  BY <1>6, RetransmitKeeps
<1> QED BY <1>2, <1>3, <1>4, <1>5, <1>6 DEF Periodic

-----------------------------------------------------------------------------
(* The clients.                                                            *)

\* Client p may become k.
ClientFits(p, k) ==
    /\ k.gen <= opened
    /\ \A s \in toServer : s.from = p => AckOK(s, k)
    /\ \A c \in Slot : conns[c].st # "CLOSED" /\ conns[c].peer = p => ConnOK(conns[c], k, changed[p])
    /\ ClientOK(k, changed[p])
    /\ k.eof => /\ \A h \in toClient : h.data # <<>> /\ h.gen = k.gen => End(h) < k.nxt
                /\ \A c \in Slot : conns[c].st \in Opening => conns[c].gen # k.gen

\* A step of a client that fits keeps the invariant.
LEMMA ClientKeeps ==
    ASSUME SlotInv, PageInv, NEW p \in Client, NEW k, ClientFits(p, k),
           client' = [client EXCEPT ![p] = k], NEW new, toServer' \subseteq toServer \cup new,
           \A s \in new : s.from = p /\ RequestOK(s) /\ AckOK(s, k),
           toClient' \subseteq toClient, UNCHANGED serverVars
    PROVE  PageInv'
<1>1. UNCHANGED <<conns, opened, changed>>
  BY DEF serverVars
<1>2. client'[p] = k /\ \A r \in Client : r # p => client'[r] = client[r]
  BY DEF SlotInv, ClientTypes
<1>3. /\ \A s \in toServer : s.from \in Client
      /\ \A c \in Slot : conns[c].st # "CLOSED" => conns[c].peer \in Client
  BY DEF SlotInv, ServerTypes, NetTypes, FromClient
<1>4. Generations'
  BY <1>1, <1>2 DEF PageInv, Generations, ClientFits
<1>5. Requests'
  BY DEF PageInv, Requests
<1>6. Acks'
  <2> SUFFICES ASSUME NEW s \in toServer' PROVE AckOK(s, client'[s.from])
    BY DEF Acks
  <2>1. CASE s \in toServer
    <3>1. CASE s.from = p
      BY <1>2, <2>1, <3>1 DEF ClientFits
    <3>2. CASE s.from # p
      BY <1>2, <1>3, <2>1, <3>2 DEF PageInv, Acks
    <3> QED BY <3>1, <3>2
  <2>2. CASE s \in new
    BY <1>2, <2>2
  <2> QED BY <2>1, <2>2
<1>7. Connections'
  <2> SUFFICES ASSUME NEW c \in Slot, conns[c].st # "CLOSED"
               PROVE  ConnOK(conns[c], client'[conns[c].peer], changed[conns[c].peer])
    BY <1>1 DEF Connections
  <2>1. CASE conns[c].peer = p
    BY <1>2, <2>1 DEF ClientFits
  <2>2. CASE conns[c].peer # p
    BY <1>2, <1>3, <2>2 DEF PageInv, Connections
  <2> QED BY <2>1, <2>2
<1>8. Numbers' /\ Edges' /\ Fins'
  BY <1>1 DEF PageInv, Numbers, Edges, Fins
<1>9. Ends'
  <2> SUFFICES ASSUME NEW r \in Client, client'[r].eof
               PROVE  /\ \A h \in toClient : h.data # <<>> /\ h.gen = client'[r].gen =>
                                                 End(h) < client'[r].nxt
                      /\ \A c \in Slot : conns[c].st \in Opening => conns[c].gen # client'[r].gen
    BY <1>1 DEF Ends
  <2>1. CASE r = p
    BY <1>2, <2>1 DEF ClientFits
  <2>2. CASE r # p
    BY <1>2, <2>2 DEF PageInv, Ends
  <2> QED BY <2>1, <2>2
<1>10. ClientsOK'
  <2> SUFFICES ASSUME NEW r \in Client PROVE ClientOK(client'[r], changed[r])
    BY <1>1 DEF ClientsOK
  <2>1. CASE r = p
    BY <1>2, <2>1 DEF ClientFits
  <2>2. CASE r # p
    BY <1>2, <2>2 DEF PageInv, ClientsOK
  <2> QED BY <2>1, <2>2
<1> QED BY <1>4, <1>5, <1>6, <1>7, <1>8, <1>9, <1>10 DEF PageInv

\* A client that learns nothing new.
LEMMA QuietFits ==
    ASSUME SlotInv, PageInv, NEW p \in Client, NEW k,
           k.gen = client[p].gen, k.nxt = client[p].nxt, k.got = client[p].got, k.eof = client[p].eof,
           k.st \in {"idle", "syn"} => client[p].st \in {"idle", "syn"}
    PROVE  ClientFits(p, k)
<1>1. k.gen <= opened
  BY DEF PageInv, Generations
<1>2. \A s \in toServer : s.from = p => AckOK(s, k)
  BY DEF PageInv, Acks, AckOK
<1>3. ASSUME NEW c \in Slot, conns[c].st # "CLOSED", conns[c].peer = p
      PROVE  ConnOK(conns[c], k, changed[p])
  <2>1. ConnOK(conns[c], client[p], changed[p])
    BY <1>3 DEF PageInv, Connections
  <2> QED BY <2>1 DEF ConnOK
<1>4. ClientOK(k, changed[p])
  <2>1. ClientOK(client[p], changed[p])
    BY DEF PageInv, ClientsOK
  <2> QED BY <2>1 DEF ClientOK
<1>5. k.eof => /\ \A h \in toClient : h.data # <<>> /\ h.gen = k.gen => End(h) < k.nxt
               /\ \A c \in Slot : conns[c].st \in Opening => conns[c].gen # k.gen
  BY DEF PageInv, Ends
<1> QED BY <1>1, <1>2, <1>3, <1>4, <1>5 DEF ClientFits

\* A client takes over the initial number of the connection from the SYNACK.
LEMMA AdoptFits ==
    ASSUME SlotInv, PageInv, NEW g \in toClient, client[g.to].st = "syn",
           NEW k, k.st = "est", k.gen = g.gen, k.nxt = 1, k.got = client[g.to].got,
           k.eof = client[g.to].eof
    PROVE  ClientFits(g.to, k)
<1> DEFINE p == g.to
           o == client[p]
<1>1. p \in Client /\ g.gen \in Nat
  BY DEF SlotInv, NetTypes, FromServer
<1>2. o.gen = 0 /\ o.got = <<>> /\ ~o.eof
  BY <1>1 DEF PageInv, ClientsOK, ClientOK
<1>3. k.gen <= opened
  BY DEF PageInv, Generations
<1>4. \A s \in toServer : s.from = p => AckOK(s, k)
  BY <1>2 DEF PageInv, Acks, AckOK
<1>5. ASSUME NEW c \in Slot, conns[c].st # "CLOSED", conns[c].peer = p
      PROVE  ConnOK(conns[c], k, changed[p])
  <2>1. ConnOK(conns[c], o, changed[p]) /\ conns[c].gen >= 1
    BY <1>5 DEF PageInv, Connections, Generations
  <2>2. conns[c].st = "SYN_RCVD"
    BY <1>2, <2>1 DEF ConnOK
  <2>3. conns[c].snd = 0 /\ conns[c].len = 1 /\ conns[c].rcv = 1
    BY <2>1, <2>2 DEF ConnOK
  <2> QED BY <2>2, <2>3 DEF ConnOK, Waiting
<1>6. ClientOK(k, changed[p])
  BY <1>1, <1>2 DEF ClientOK, Numbered
<1> QED BY <1>2, <1>3, <1>4, <1>5, <1>6 DEF ClientFits

\* Bytes that follow in order are numbered on.
LEMMA NumberedOn ==
    ASSUME NEW got \in Seq(Byte), NEW data \in Seq(Byte), Numbered(got, 1),
           Numbered(data, 1 + Len(got))
    PROVE  Numbered(got \o data, 1)
<1> DEFINE all == got \o data
           m == Len(got)
           n == Len(data)
<1>1. m \in Nat /\ n \in Nat /\ DOMAIN all = 1 .. (m + n) /\ DOMAIN got = 1 .. m /\ DOMAIN data = 1 .. n
      /\ \A i \in 1 .. (m + n) : all[i] = IF i <= m THEN got[i] ELSE data[i - m]
  OBVIOUS
<1>2. /\ \A i \in 1 .. m : got[i][2] = 1 + i - 1
      /\ \A i \in 1 .. n : data[i][2] = 1 + m + i - 1
  BY <1>1 DEF Numbered
<1> HIDE DEF all, m, n
<1>3. ASSUME NEW i \in 1 .. (m + n) PROVE all[i][2] = 1 + i - 1
  <2>1. CASE i <= m
    BY <1>1, <1>2, <2>1
  <2>2. CASE ~(i <= m)
    <3>1. i - m \in 1 .. n /\ all[i] = data[i - m]
      BY <1>1, <2>2
    <3>2. data[i - m][2] = 1 + m + (i - m) - 1
      BY <1>2, <3>1
    <3> QED BY <1>1, <3>1, <3>2
  <2> QED BY <2>1, <2>2
<1> QED BY <1>1, <1>3 DEF Numbered, all

\* A client takes over what is in order, and nothing else.
LEMMA ReceivedFits ==
    ASSUME SlotInv, PageInv, NEW g \in toClient, client[g.to].gen = g.gen, g.seq = client[g.to].nxt,
           NEW k, NEW fin \in BOOLEAN, fin <=> "FIN" \in g.flags,
           k.gen = client[g.to].gen, k.got = client[g.to].got \o g.data,
           k.nxt = client[g.to].nxt + Len(g.data) + (IF fin THEN 1 ELSE 0),
           k.eof <=> client[g.to].eof \/ fin,
           k.st \in {"idle", "syn"} => client[g.to].st \in {"idle", "syn"}
    PROVE  ClientFits(g.to, k)
<1> DEFINE p == g.to
           o == client[p]
           n == Len(g.data)
           m == Len(o.got)
<1>1. /\ p \in Client /\ g \in FromServer /\ o \in ClientType
      /\ g.gen \in Nat /\ g.seq \in Nat /\ g.data \in Seq(Byte) /\ o.nxt \in Nat /\ o.got \in Seq(Byte)
  <2>1. g \in FromServer
    BY DEF SlotInv, NetTypes
  <2>2. g.to \in Client /\ g.gen \in Nat /\ g.seq \in Nat /\ g.data \in Seq(Byte)
    BY <2>1 DEF FromServer
  <2>3. o \in ClientType
    BY <2>2 DEF SlotInv, ClientTypes
  <2> QED BY <2>1, <2>2, <2>3 DEF ClientType
<1>2. /\ n \in Nat /\ m \in Nat /\ End(g) = o.nxt + n /\ (g.data # <<>> <=> n > 0) /\ Len(k.got) = m + n
  BY <1>1 DEF End
<1>3. fin => n = 0
  <2>1. "FIN" \in g.flags /\ g.data # <<>> => End(g) <= g.seq
    BY DEF PageInv, Fins
  <2> HIDE DEF n
  <2> QED BY <1>1, <1>2, <2>1
<1>4. ClientOK(o, changed[p])
  BY <1>1 DEF PageInv, ClientsOK
<1>5. n > 0 => ~o.eof /\ o.gen # 0 /\ o.nxt = 1 + m
  <2>1. n > 0 => ~o.eof
    <3>1. o.eof /\ g.data # <<>> => End(g) < o.nxt
      BY <1>1 DEF PageInv, Ends
    <3> HIDE DEF n, o
    <3> QED BY <1>1, <1>2, <3>1
  <2>2. n > 0 => g.gen >= 1
    BY <1>2 DEF PageInv, Generations
  <2> HIDE DEF n, m
  <2> QED BY <1>1, <1>4, <2>1, <2>2 DEF ClientOK, m
<1>6. n = 0 => k.got = o.got
  <2>1. n = 0 => g.data = <<>>
    BY <1>2
  <2>2. \A got \in Seq(Byte) : got \o <<>> = got
    OBVIOUS
  <2> QED BY <1>1, <2>1, <2>2
<1>7. k.nxt = o.nxt + n + (IF fin THEN 1 ELSE 0) /\ k.nxt \in Nat /\ k.nxt >= o.nxt
  <2>1. k.nxt = o.nxt + n + (IF fin THEN 1 ELSE 0)
    OBVIOUS
  <2> HIDE DEF n, o
  <2> QED BY <1>1, <1>2, <2>1
<1> HIDE DEF n, m
<1>8. k.gen <= opened
  BY <1>1 DEF PageInv, Generations
<1>9. ASSUME NEW s \in toServer, s.from = p PROVE AckOK(s, k)
  <2>1. AckOK(s, o) /\ s.ack \in Nat
    BY <1>9 DEF PageInv, Acks, SlotInv, NetTypes, FromClient
  <2> QED BY <1>1, <1>7, <2>1 DEF AckOK
<1>10. ASSUME NEW c \in Slot, conns[c].st # "CLOSED", conns[c].peer = p
       PROVE  ConnOK(conns[c], k, changed[p])
  <2> DEFINE b == conns[c]
             ch == changed[p]
  <2>1. ConnOK(b, o, ch) /\ b \in ConnType
    BY <1>1, <1>10 DEF PageInv, Connections, SlotInv, ServerTypes
  <2>2. b.snd \in Nat /\ b.len \in Nat /\ b.app.cursor \in Nat
    BY <2>1 DEF ConnType, AppType
  <2>3. n > 0 /\ o.gen = b.gen => /\ End(g) <= Edge(b)
                                  /\ b.st \in Waiting /\ ~ch => End(g) <= b.app.cursor + 1
    BY <1>2, <1>10 DEF PageInv, Edges
  <2>4. fin /\ b.st \in Opening => b.gen # o.gen
    BY DEF PageInv, Fins
  <2>5. ASSUME b.st \in Opening, k.gen = b.gen PROVE k.nxt <= b.snd + b.len
    <3>1. ~fin /\ o.nxt <= b.snd + b.len
      BY <2>1, <2>4, <2>5 DEF ConnOK
    <3>2. Edge(b) = b.snd + b.len
      BY <2>5 DEF Edge, Opening, FinSent
    <3> HIDE DEF b, o
    <3>3. CASE n > 0
      BY <1>1, <1>2, <1>7, <2>2, <2>3, <2>5, <3>1, <3>2, <3>3 DEF o
    <3>4. CASE n = 0
      BY <1>1, <1>7, <2>2, <3>1, <3>4
    <3> QED BY <1>2, <3>3, <3>4
  <2>6. ASSUME b.st \in Waiting, ~ch PROVE Len(k.got) = b.app.cursor
    <3>1. m = b.app.cursor /\ o.gen = b.gen
      BY <2>1, <2>6 DEF ConnOK, Waiting, m
    <3>2. ~(n > 0)
      <4> HIDE DEF b, o, ch
      <4> QED BY <1>1, <1>2, <1>5, <2>2, <2>3, <2>6, <3>1
    <3> QED BY <1>2, <3>1, <3>2
  <2> HIDE DEF ch
  <2> QED BY <2>1, <2>5, <2>6 DEF ConnOK, ch
<1>11. ClientOK(k, changed[p])
  <2>1. k.st \in {"idle", "syn"} => k.gen = 0
    BY <1>4 DEF ClientOK
  <2>2. k.gen = 0 => k.got = <<>> /\ ~k.eof
    <3>1. g.gen = 0 => ~fin
      BY DEF PageInv, Generations
    <3>2. o.gen = 0 => n = 0 /\ ~o.eof /\ o.got = <<>>
      BY <1>2, <1>4, <1>5 DEF ClientOK
    <3> QED BY <1>6, <3>1, <3>2
  <2>3. k.gen # 0 => k.nxt >= 1 + Len(k.got) /\ (~k.eof => k.nxt = 1 + Len(k.got))
    <3>1. o.gen # 0 => o.nxt >= 1 + m /\ (~o.eof => o.nxt = 1 + m)
      BY <1>4 DEF ClientOK, m
    <3>2. k.nxt = o.nxt + n + (IF fin THEN 1 ELSE 0) /\ Len(k.got) = m + n
      BY <1>2, <1>7
    <3>3. o.gen # 0 => k.nxt >= 1 + Len(k.got)
      <4> HIDE DEF o
      <4> QED BY <1>1, <1>2, <3>1, <3>2
    <3>4. o.gen # 0 /\ o.nxt = 1 + m /\ ~fin => k.nxt = 1 + Len(k.got)
      <4> HIDE DEF o
      <4> QED BY <1>1, <1>2, <3>2
    <3> QED BY <3>1, <3>3, <3>4
  <2>4. ASSUME ~changed[p] PROVE Numbered(k.got, 1)
    <3>1. Numbered(o.got, 1) /\ Numbered(g.data, g.seq)
      BY <1>4, <2>4 DEF ClientOK, PageInv, Numbers
    <3>2. CASE n > 0
      <4>1. g.seq = 1 + Len(o.got)
        BY <1>5, <3>2 DEF m
      <4> QED BY <1>1, <3>1, <4>1, NumberedOn
    <3>3. CASE n = 0
      BY <1>6, <3>1, <3>3
    <3> QED BY <1>2, <3>2, <3>3
  <2> QED BY <2>1, <2>2, <2>3, <2>4 DEF ClientOK
<1>12. ASSUME k.eof
       PROVE  /\ \A h \in toClient : h.data # <<>> /\ h.gen = k.gen => End(h) < k.nxt
              /\ \A c \in Slot : conns[c].st \in Opening => conns[c].gen # k.gen
  <2>1. CASE fin
    <3>1. /\ \A h \in toClient : h.data # <<>> /\ h.gen = k.gen => End(h) <= o.nxt
          /\ \A c \in Slot : conns[c].st \in Opening => conns[c].gen # k.gen
      BY <2>1 DEF PageInv, Fins
    <3>2. \A h \in toClient : End(h) \in Nat
      BY EndType DEF SlotInv, NetTypes
    <3>3. k.nxt = o.nxt + 1
      BY <1>1, <1>3, <1>7, <2>1
    <3> HIDE DEF o
    <3> QED BY <1>1, <3>1, <3>2, <3>3
  <2>2. CASE ~fin
    <3>1. o.eof
      BY <1>12, <2>2
    <3>2. k.nxt = o.nxt
      BY <1>1, <1>2, <1>5, <1>7, <2>2, <3>1
    <3> QED BY <1>1, <3>1, <3>2 DEF PageInv, Ends
  <2> QED BY <2>1, <2>2
<1> QED BY <1>8, <1>9, <1>10, <1>11, <1>12 DEF ClientFits

\* A client sends and learns nothing.
LEMMA SendsKeeps ==
    ASSUME SlotInv, PageInv, NEW p \in Client, NEW k, NEW new, ClientSends(p, k, new),
           k.gen = client[p].gen, k.nxt = client[p].nxt, k.got = client[p].got, k.eof = client[p].eof,
           k.st \in {"idle", "syn"} => client[p].st \in {"idle", "syn"},
           \A s \in new : s.from = p /\ RequestOK(s) /\ AckOK(s, k)
    PROVE  PageInv'
<1>1. ClientFits(p, k)
  BY QuietFits
<1>2. client' = [client EXCEPT ![p] = k] /\ toServer' \subseteq toServer \cup new
      /\ toClient' \subseteq toClient /\ UNCHANGED serverVars
  BY DEF ClientSends, SentBy
<1> QED BY <1>1, <1>2, ClientKeeps

\* Any part of the request ends with the empty line if it has it.
LEMMA RequestPartEnds ==
    ASSUME NEW p \in Client, NEW m \in Nat, NEW n \in 0 .. 2, 1 <= m, m <= n + 1
    PROVE  LET lines == SubSeq(RequestLines(p), m, n)
           IN  /\ m + Len(lines) <= 3
               /\ \A i \in DOMAIN lines : lines[i] = Blank => m + Len(lines) = 3
<1> DEFINE all == RequestLines(p)
           len == 1 + n - m
           lines == SubSeq(all, m, n)
<1>1. all[1] # Blank
  BY UipAssumption DEF RequestLines
<1> HIDE DEF all
<1>2. len \in Nat /\ lines = [i \in 1 .. len |-> all[i + m - 1]]
  OBVIOUS
<1> HIDE DEF lines
<1>3. Len(lines) = len /\ DOMAIN lines = 1 .. len /\ \A i \in 1 .. len : lines[i] = all[i + m - 1]
  <2> HIDE DEF len
  <2> QED BY <1>2
<1>4. ASSUME NEW i \in 1 .. len, lines[i] = Blank PROVE n = 2
  <2>1. i + m - 1 # 1
    BY <1>1, <1>3, <1>4
  <2> QED BY <2>1
<1>5. m + len = n + 1
  OBVIOUS
<1> QED BY <1>3, <1>4, <1>5 DEF lines, all

\* A segment of a client: what it acknowledges is what the client got.
LEMMA ClientSegmentFits ==
    ASSUME NEW p, NEW o \in ClientType, NEW k, k.gen = o.gen, k.nxt = o.nxt, NEW flags, flags # {"SYN"},
           NEW seq \in Nat, NEW lines, NEW wnd,
           lines # <<>> => seq + Len(lines) <= 3,
           \A i \in DOMAIN lines : lines[i] = Blank => seq + Len(lines) = 3
    PROVE  LET s == ClientSegment(p, o, flags, seq, lines, wnd)
           IN  s.from = p /\ RequestOK(s) /\ AckOK(s, k)
<1> DEFINE s == ClientSegment(p, o, flags, seq, lines, wnd)
<1>1. /\ s.from = p /\ s.flags = flags /\ s.seq = seq /\ s.lines = lines /\ s.gen = o.gen
      /\ s.ack = o.nxt
  BY DEF ClientSegment
<1> HIDE DEF s
<1>2. RequestOK(s)
  BY <1>1 DEF RequestOK
<1>3. AckOK(s, k)
  <2>1. o.nxt \in Nat
    BY DEF ClientType
  <2> QED BY <1>1, <2>1 DEF AckOK
<1> QED BY <1>1, <1>2, <1>3 DEF s

\* A SYN.
LEMMA SynFits ==
    ASSUME NEW p, NEW k, NEW mss
    PROVE  Syn(p, mss).from = p /\ RequestOK(Syn(p, mss)) /\ AckOK(Syn(p, mss), k)
<1> DEFINE s == Syn(p, mss)
<1>1. s.from = p /\ s.flags = {"SYN"} /\ s.gen = 0 /\ s.seq = 0 /\ s.lines = <<>>
  BY DEF Syn, ClientSegment, NewClient
<1> HIDE DEF s
<1>2. RequestOK(s) /\ AckOK(s, k)
  BY <1>1 DEF RequestOK, AckOK
<1> QED BY <1>1, <1>2 DEF s

\* What a client does by itself.
LEMMA ClientActs ==
    ASSUME SlotInv, PageInv, NEW p \in Client,
           \/ Connect(p) \/ ClientRetransmits(p)
           \/ \E n \in 1 .. 2 : SendRequest(p, n)
           \/ \E how \in Leaves : LeaveEarly(p, how)
    PROVE  PageInv'
<1> DEFINE o == client[p]
<1>1. o \in ClientType /\ ClientSane(o) /\ o.snt \in Nat /\ o.una \in Nat
  BY DEF SlotInv, ClientTypes, ClientType
<1>2. CASE Connect(p)
  <2> DEFINE k == [o EXCEPT !.st = "syn", !.snt = 1]
  <2>1. PICK mss \in MssOptions : ClientSends(p, k, {Syn(p, mss)}) /\ o.st = "idle"
    BY <1>2 DEF Connect
  <2> DEFINE s == Syn(p, mss)
             new == {s}
  <2>2. k.gen = o.gen /\ k.nxt = o.nxt /\ k.got = o.got /\ k.eof = o.eof
    <3> HIDE DEF o
    <3> QED BY <1>1 DEF ClientType
  <2>3. \A x \in new : x.from = p /\ RequestOK(x) /\ AckOK(x, k)
    BY SynFits
  <2>4. ClientSends(p, k, new) /\ o.st \in {"idle", "syn"}
    BY <2>1
  <2> HIDE DEF k, new
  <2> QED BY <2>2, <2>3, <2>4, SendsKeeps
<1>3. ASSUME NEW n \in 1 .. 2, SendRequest(p, n) PROVE PageInv'
  <2> DEFINE k == [o EXCEPT !.snt = n + 1]
             lines == SubSeq(RequestLines(p), o.snt, n)
             s(wnd) == ClientSegment(p, o, {"ACK"}, o.snt, lines, wnd)
  <2>1. PICK wnd \in Windows : ClientSends(p, k, {s(wnd)})
    BY <1>3 DEF SendRequest
  <2>2. o.st = "est" /\ o.snt \in 1 .. 3 /\ o.snt <= n /\ o.snt >= 1 /\ o.snt <= n + 1
    BY <1>1, <1>3 DEF SendRequest, ClientSane
  <2>3. k.gen = o.gen /\ k.nxt = o.nxt /\ k.got = o.got /\ k.eof = o.eof /\ k.st = o.st
    <3> HIDE DEF o
    <3> QED BY <1>1 DEF ClientType
  <2> HIDE DEF k
  <2>4. /\ o.snt + Len(lines) <= 3
        /\ \A i \in DOMAIN lines : lines[i] = Blank => o.snt + Len(lines) = 3
    <3>1. n \in 0 .. 2
      OBVIOUS
    <3> HIDE DEF o
    <3> QED BY <1>1, <2>2, <3>1, RequestPartEnds
  <2> DEFINE new == {s(wnd)}
  <2>5. \A x \in new : x.from = p /\ RequestOK(x) /\ AckOK(x, k)
    <3> DEFINE flags == {"ACK"}
               x == ClientSegment(p, o, flags, o.snt, lines, wnd)
    <3>1. flags # {"SYN"} /\ new = {x}
      OBVIOUS
    <3> HIDE DEF lines, o, flags, new
    <3>2. x.from = p /\ RequestOK(x) /\ AckOK(x, k)
      BY <1>1, <2>3, <2>4, <3>1, ClientSegmentFits
    <3> QED BY <3>1, <3>2
  <2>6. ClientSends(p, k, new)
    BY <2>1
  <2> HIDE DEF new
  <2> QED BY <2>2, <2>3, <2>5, <2>6, SendsKeeps
<1>4. CASE ClientRetransmits(p)
  <2> DEFINE last == IF o.st = "fin" THEN o.snt - 2 ELSE o.snt - 1
             flags == {"ACK"} \cup IF o.st = "fin" THEN {"FIN"} ELSE {}
             lines == SubSeq(RequestLines(p), o.una, last)
             s(wnd) == ClientSegment(p, o, flags, o.una, lines, wnd)
  <2>1. CASE o.st = "syn" /\ \E mss \in MssOptions : ClientSends(p, o, {Syn(p, mss)})
    <3>1. PICK mss \in MssOptions : ClientSends(p, o, {Syn(p, mss)})
      BY <2>1
    <3> DEFINE new == {Syn(p, mss)}
    <3>2. \A x \in new : x.from = p /\ RequestOK(x) /\ AckOK(x, o)
      BY SynFits
    <3>3. ClientSends(p, o, new)
      BY <3>1
    <3> HIDE DEF new
    <3> QED BY <3>2, <3>3, SendsKeeps
  <2>2. CASE /\ o.st \in {"est", "fin"} /\ o.una < o.snt
             /\ \E wnd \in Windows : ClientSends(p, o, {s(wnd)})
    <3>1. PICK wnd \in Windows : ClientSends(p, o, {s(wnd)})
      BY <2>2
    <3>2. last \in 0 .. 2 /\ 1 <= o.una /\ o.una <= last + 1
      BY <1>1, <2>2 DEF ClientSane
    <3>3. flags # {"SYN"}
      OBVIOUS
    <3> HIDE DEF last, flags
    <3>4. /\ o.una + Len(lines) <= 3
          /\ \A i \in DOMAIN lines : lines[i] = Blank => o.una + Len(lines) = 3
      <4> HIDE DEF o
      <4> QED BY <1>1, <3>2, RequestPartEnds
    <3> DEFINE new == {s(wnd)}
    <3>5. \A x \in new : x.from = p /\ RequestOK(x) /\ AckOK(x, o)
      <4> DEFINE x == ClientSegment(p, o, flags, o.una, lines, wnd)
      <4>1. new = {x}
        OBVIOUS
      <4> HIDE DEF lines, o, new
      <4>2. x.from = p /\ RequestOK(x) /\ AckOK(x, o)
        BY <1>1, <3>3, <3>4, ClientSegmentFits
      <4> QED BY <4>1, <4>2
    <3>6. ClientSends(p, o, new)
      BY <3>1
    <3> HIDE DEF new
    <3> QED BY <3>5, <3>6, SendsKeeps
  <2> QED BY <1>4, <2>1, <2>2 DEF ClientRetransmits
<1>5. ASSUME NEW how, LeaveEarly(p, how) PROVE PageInv'
  <2>1. PICK k, new :
          /\ ClientSends(p, k, new)
          /\ k.gen = o.gen /\ k.nxt = o.nxt /\ k.got = o.got /\ k.eof = o.eof
          /\ k.st \notin {"idle", "syn"}
          /\ \A x \in new : \E flags, wnd : /\ flags # {"SYN"}
                                            /\ x = ClientSegment(p, o, flags, o.snt, <<>>, wnd)
    <3>1. CASE ClientSends(p, [o EXCEPT !.st = "done"], {ClientSegment(p, o, {"RST"}, o.snt, <<>>, 0)})
      <4> DEFINE k == [o EXCEPT !.st = "done"]
                 new == {ClientSegment(p, o, {"RST"}, o.snt, <<>>, 0)}
      <4>1. k.gen = o.gen /\ k.nxt = o.nxt /\ k.got = o.got /\ k.eof = o.eof /\ k.st = "done"
        <5> HIDE DEF o
        <5> QED BY <1>1 DEF ClientType
      <4>2. \A x \in new : \E flags, wnd : /\ flags # {"SYN"}
                                           /\ x = ClientSegment(p, o, flags, o.snt, <<>>, wnd)
        <5>1. {"RST"} # {"SYN"}
          OBVIOUS
        <5> QED BY <5>1, Zenon
      <4>3. ClientSends(p, k, new)
        BY <3>1
      <4> HIDE DEF k, new, o
      <4> QED BY <4>1, <4>2, <4>3
    <3>2. CASE ClientSends(p, [o EXCEPT !.st = "gone"], {})
      <4> DEFINE k == [o EXCEPT !.st = "gone"]
                 new == {}
      <4>1. k.gen = o.gen /\ k.nxt = o.nxt /\ k.got = o.got /\ k.eof = o.eof /\ k.st = "gone"
        <5> HIDE DEF o
        <5> QED BY <1>1 DEF ClientType
      <4>2. \A x \in new : FALSE
        OBVIOUS
      <4>3. ClientSends(p, k, new)
        BY <3>2
      <4> HIDE DEF k, new, o
      <4> QED BY <4>1, <4>2, <4>3
    <3>3. CASE \E wnd \in Windows :
                 ClientSends(p, [o EXCEPT !.st = "fin", !.snt = @ + 1],
                             {ClientSegment(p, o, {"FIN", "ACK"}, o.snt, <<>>, wnd)})
      <4> DEFINE k == [o EXCEPT !.st = "fin", !.snt = @ + 1]
      <4>1. PICK wnd \in Windows : ClientSends(p, k, {ClientSegment(p, o, {"FIN", "ACK"}, o.snt, <<>>, wnd)})
        BY <3>3
      <4> DEFINE new == {ClientSegment(p, o, {"FIN", "ACK"}, o.snt, <<>>, wnd)}
      <4>2. k.gen = o.gen /\ k.nxt = o.nxt /\ k.got = o.got /\ k.eof = o.eof /\ k.st = "fin"
        <5> HIDE DEF o
        <5> QED BY <1>1 DEF ClientType
      <4>3. \A x \in new : \E flags, w : /\ flags # {"SYN"}
                                         /\ x = ClientSegment(p, o, flags, o.snt, <<>>, w)
        <5>1. {"FIN", "ACK"} # {"SYN"}
          OBVIOUS
        <5> QED BY <5>1, Zenon
      <4>4. ClientSends(p, k, new)
        BY <4>1
      <4> HIDE DEF k, new, o
      <4> QED BY <4>2, <4>3, <4>4
    <3> QED BY <1>5, <3>1, <3>2, <3>3 DEF LeaveEarly
  <2>2. \A x \in new : x.from = p /\ RequestOK(x) /\ AckOK(x, k)
    <3> SUFFICES ASSUME NEW x \in new PROVE x.from = p /\ RequestOK(x) /\ AckOK(x, k)
      OBVIOUS
    <3>1. PICK flags, wnd : flags # {"SYN"} /\ x = ClientSegment(p, o, flags, o.snt, <<>>, wnd)
      BY <2>1
    <3> DEFINE lines == <<>>
    <3>2. (lines # <<>> => o.snt + Len(lines) <= 3)
          /\ \A i \in DOMAIN lines : lines[i] = Blank => o.snt + Len(lines) = 3
      OBVIOUS
    <3>3. x = ClientSegment(p, o, flags, o.snt, lines, wnd)
      BY <3>1
    <3> HIDE DEF lines, o
    <3> QED BY <1>1, <2>1, <3>1, <3>2, <3>3, ClientSegmentFits
  <2> QED BY <2>1, <2>2, SendsKeeps
<1> QED BY <1>2, <1>3, <1>4, <1>5

\* What a client keeps and counts of a segment of its connection.
LEMMA FinishedIs ==
    ASSUME NEW o \in ClientType, ClientSane(o), NEW g \in FromServer
    PROVE  LET k == Finish(Received(o, g))
               fin == g.seq = o.nxt /\ "FIN" \in g.flags
           IN  /\ k.gen = o.gen
               /\ k.got = (IF g.seq = o.nxt THEN o.got \o g.data ELSE o.got)
               /\ k.nxt = o.nxt + (IF g.seq = o.nxt THEN Len(g.data) ELSE 0) + (IF fin THEN 1 ELSE 0)
               /\ k.eof = (o.eof \/ fin)
               /\ k.st \in {"idle", "syn"} => o.st \in {"idle", "syn"}
<1> DEFINE fin == g.seq = o.nxt /\ "FIN" \in g.flags
           una == IF g.ack > o.una THEN g.ack ELSE o.una
           got == IF g.seq = o.nxt THEN o.got \o g.data ELSE o.got
           nxt == o.nxt + (IF g.seq = o.nxt THEN Len(g.data) ELSE 0) + (IF fin THEN 1 ELSE 0)
           eof == o.eof \/ fin
           r == Received(o, g)
           k == Finish(r)
<1>1. r = [o EXCEPT !.una = una, !.got = got, !.nxt = nxt, !.eof = eof]
  BY DEF Received
<1> HIDE DEF una, got, nxt, eof
<1>2. r.gen = o.gen /\ r.got = got /\ r.nxt = nxt /\ r.eof = eof /\ r.st = o.st
  BY <1>1 DEF ClientType
<1>3. r \in ClientType
  BY ReceivedOK
<1> HIDE DEF r
<1>4. k.gen = r.gen /\ k.got = r.got /\ k.nxt = r.nxt /\ k.eof = r.eof
      /\ k.st \in {r.st, "fin", "done"}
  BY <1>3 DEF Finish, ClientType
<1> HIDE DEF k
<1>5. k.gen = o.gen /\ k.got = got /\ k.nxt = nxt /\ k.eof = eof
      /\ (k.st \in {"idle", "syn"} => o.st \in {"idle", "syn"})
  BY <1>2, <1>4
<1> QED BY <1>5 DEF got, nxt, eof, k, r

\* A segment of the client's own connection.
LEMMA OwnFits ==
    ASSUME SlotInv, PageInv, NEW g \in toClient, client[g.to].gen = g.gen
    PROVE  ClientFits(g.to, Finish(Received(client[g.to], g)))
<1> DEFINE p == g.to
           o == client[p]
           k == Finish(Received(o, g))
           fin == "FIN" \in g.flags
<1>1. g \in FromServer /\ p \in Client /\ o \in ClientType /\ ClientSane(o)
  BY DEF SlotInv, NetTypes, FromServer, ClientTypes
<1>2. o.nxt \in Nat /\ o.eof \in BOOLEAN /\ Len(g.data) \in Nat
  BY <1>1 DEF ClientType, FromServer
<1>3. /\ k.gen = o.gen
      /\ k.got = (IF g.seq = o.nxt THEN o.got \o g.data ELSE o.got)
      /\ k.nxt = o.nxt + (IF g.seq = o.nxt THEN Len(g.data) ELSE 0)
                       + (IF g.seq = o.nxt /\ fin THEN 1 ELSE 0)
      /\ k.eof = (o.eof \/ (g.seq = o.nxt /\ fin))
      /\ k.st \in {"idle", "syn"} => o.st \in {"idle", "syn"}
  <2> HIDE DEF o
  <2> QED BY <1>1, FinishedIs
<1> HIDE DEF k
<1>4. CASE g.seq = o.nxt
  <2>1. /\ k.gen = o.gen /\ k.got = o.got \o g.data
        /\ k.nxt = o.nxt + Len(g.data) + (IF fin THEN 1 ELSE 0)
    BY <1>3, <1>4
  <2>2. k.eof <=> o.eof \/ fin
    <3>1. k.eof = (o.eof \/ (TRUE /\ fin))
      BY <1>3, <1>4, Zenon
    <3> QED BY <1>2, <3>1
  <2>3. fin \in BOOLEAN /\ (fin <=> "FIN" \in g.flags)
    OBVIOUS
  <2> HIDE DEF fin
  <2> QED BY <1>3, <1>4, <2>1, <2>2, <2>3, ReceivedFits DEF k
<1>5. CASE g.seq # o.nxt
  <2>1. k.gen = o.gen /\ k.got = o.got
    BY <1>3, <1>5
  <2>2. k.nxt = o.nxt
    <3> HIDE DEF o
    <3> QED BY <1>2, <1>3, <1>5
  <2>3. k.eof = o.eof
    <3>1. k.eof = (o.eof \/ FALSE)
      BY <1>3, <1>5, Zenon
    <3> QED BY <1>2, <3>1
  <2> QED BY <1>1, <1>3, <2>1, <2>2, <2>3, QuietFits DEF k
<1> QED BY <1>4, <1>5

\* What a client makes of any segment, and what it answers.
LEMMA AnswerFits ==
    ASSUME SlotInv, PageInv, NEW g \in toClient
    PROVE  ClientFits(g.to, Answer(client[g.to], g)[1]) /\ Answer(client[g.to], g)[2] # {"SYN"}
<1> DEFINE p == g.to
           o == client[p]
           reset == "RST" \in g.flags
           l == Finish(Received(o, g))
           est == [o EXCEPT !.st = "est", !.gen = g.gen, !.nxt = 1, !.una = 1]
           done == [o EXCEPT !.st = "done"]
<1>1. g \in FromServer /\ p \in Client /\ o \in ClientType
  BY DEF SlotInv, NetTypes, FromServer, ClientTypes
<1>2. ClientFits(p, o)
  BY <1>1, QuietFits
<1>3. ClientFits(p, done)
  <2>1. done.gen = o.gen /\ done.nxt = o.nxt /\ done.got = o.got /\ done.eof = o.eof /\ done.st = "done"
    <3> HIDE DEF o
    <3> QED BY <1>1 DEF ClientType
  <2> HIDE DEF done
  <2> QED BY <1>1, <2>1, QuietFits
<1>4. o.st = "syn" => ClientFits(p, est)
  <2>1. est.st = "est" /\ est.gen = g.gen /\ est.nxt = 1 /\ est.got = o.got /\ est.eof = o.eof
    <3> HIDE DEF o
    <3> QED BY <1>1 DEF ClientType
  <2> HIDE DEF est
  <2> QED BY <2>1, AdoptFits
<1>5. o.gen = g.gen => ClientFits(p, l)
  BY OwnFits
<1>6. {"RST"} # {"SYN"} /\ {"ACK"} # {"SYN"} /\ {"FIN", "ACK"} # {"SYN"} /\ {} # {"SYN"}
  OBVIOUS
<1> HIDE DEF o, done, est, l
<1>7. CASE o.st = "gone"
  BY <1>2, <1>6, <1>7 DEF Answer, o
<1>8. CASE o.st = "done"
  BY <1>2, <1>6, <1>8 DEF Answer, o
<1>9. CASE o.st = "syn"
  BY <1>2, <1>4, <1>6, <1>9 DEF Answer, est, o
<1>10. CASE o.st \notin {"gone", "done", "syn"}
  <2>1. Answer(o, g) =
          IF g.gen # o.gen THEN <<o, IF reset THEN {} ELSE {"ACK"}>>
          ELSE IF reset THEN <<done, {}>>
          ELSE <<l, IF o.st = "est" /\ l.st = "fin" THEN {"FIN", "ACK"}
                    ELSE IF g.data # <<>> \/ g.flags \cap {"SYN", "FIN"} # {} THEN {"ACK"}
                    ELSE {}>>
    BY <1>10 DEF Answer, done, l
  <2> HIDE DEF reset
  <2>2. ClientFits(p, Answer(o, g)[1]) /\ Answer(o, g)[2] # {"SYN"}
    BY <1>2, <1>3, <1>5, <1>6, <2>1
  <2> QED BY <2>2 DEF o
<1> QED BY <1>7, <1>8, <1>9, <1>10

\* A client receives a segment.
LEMMA ReceivesKeeps ==
    ASSUME SlotInv, PageInv, NEW g \in toClient, ClientReceives(g)
    PROVE  PageInv'
<1> DEFINE p == g.to
           k == Answer(client[p], g)[1]
           flags == Answer(client[p], g)[2]
           seq == IF "FIN" \in flags THEN k.snt - 1 ELSE k.snt
           s(wnd) == ClientSegment(p, k, flags, seq, <<>>, wnd)
<1>1. g \in FromServer /\ p \in Client /\ client[p] \in ClientType /\ ClientSane(client[p])
  BY DEF SlotInv, NetTypes, FromServer, ClientTypes
<1>2. k \in ClientType /\ ("FIN" \in flags => k.snt >= 1)
  BY <1>1, AnswerOK
<1>3. ClientFits(p, k) /\ flags # {"SYN"}
  BY AnswerFits
<1>4. /\ toClient' \subseteq toClient /\ client' = [client EXCEPT ![p] = k] /\ UNCHANGED serverVars
      /\ UNCHANGED toServer \/ \E wnd \in Windows : toServer' = SentBy(p, {s(wnd)})
  BY DEF ClientReceives
<1> HIDE DEF k, flags
<1>5. seq \in Nat
  BY <1>2 DEF ClientType
<1> HIDE DEF seq
<1>6. CASE UNCHANGED toServer
  <2> DEFINE none == {}
  <2>1. toServer' \subseteq toServer \cup none /\ \A x \in none : x.from = p /\ RequestOK(x) /\ AckOK(x, k)
    BY <1>6
  <2> HIDE DEF none
  <2> QED BY <1>1, <1>3, <1>4, <2>1, ClientKeeps
<1>7. ASSUME NEW wnd \in Windows, toServer' = SentBy(p, {s(wnd)}) PROVE PageInv'
  <2> DEFINE lines == <<>>
             x == ClientSegment(p, k, flags, seq, lines, wnd)
             new == {x}
  <2>1. toServer' \subseteq toServer \cup new
    BY <1>7 DEF SentBy
  <2>2. (lines # <<>> => seq + Len(lines) <= 3)
        /\ \A i \in DOMAIN lines : lines[i] = Blank => seq + Len(lines) = 3
    OBVIOUS
  <2> HIDE DEF lines
  <2>3. x.from = p /\ RequestOK(x) /\ AckOK(x, k)
    BY <1>2, <1>3, <1>5, <2>2, ClientSegmentFits
  <2>4. \A y \in new : y.from = p /\ RequestOK(y) /\ AckOK(y, k)
    BY <2>3
  <2> HIDE DEF new
  <2> QED BY <1>1, <1>3, <1>4, <2>1, <2>4, ClientKeeps
<1> QED BY <1>4, <1>6, <1>7

-----------------------------------------------------------------------------
(* The theorems.                                                           *)

\* The invariant holds when the clock is started,
LEMMA InitPage == Init => PageInv
<1> SUFFICES ASSUME Init PROVE PageInv
  OBVIOUS
<1>1. /\ \A c \in Slot : conns[c].st = "CLOSED" /\ conns[c].gen = 0
      /\ \A p \in Client : /\ client[p].st = "idle" /\ client[p].gen = 0 /\ client[p].got = <<>>
                           /\ client[p].eof = FALSE
      /\ toServer = {} /\ toClient = {} /\ opened = 0
  BY DEF Init, Closed, NewClient
<1>2. Generations
  BY <1>1 DEF Generations
<1>3. Requests /\ Acks /\ Numbers /\ Edges /\ Fins
  BY <1>1 DEF Requests, Acks, Numbers, Edges, Fins
<1>4. Connections /\ Ends
  BY <1>1 DEF Connections, Ends
<1>5. ClientsOK
  BY <1>1 DEF ClientsOK, ClientOK, Numbered
<1> QED BY <1>2, <1>3, <1>4, <1>5 DEF PageInv

\* and every step keeps it: one step per action.
LEMMA PageInvStep == SlotInv /\ PageInv /\ [Next]_vars => PageInv'
<1> SUFFICES ASSUME SlotInv, PageInv, [Next]_vars PROVE PageInv'
  OBVIOUS
<1>1. CASE UNCHANGED vars
  BY <1>1, NothingKeeps DEF vars, serverVars
<1>2. CASE Lose
  BY <1>2, NothingKeeps DEF Lose, serverVars
<1>3. CASE StackInit
  BY <1>3, StackInitKeeps
<1>4. ASSUME NEW c \in Slot, Periodic(c) PROVE PageInv'
  BY <1>4, PeriodicKeeps
<1>5. ASSUME NEW s \in toServer, NoConnection(s) PROVE PageInv'
  BY <1>5, NoConnectionKeeps
<1>6. ASSUME NEW s \in toServer, NEW c \in Slot,
             \/ Listen(s, c) \/ ResetInput(s, c) \/ AckOnly(s, c)
             \/ SynRcvdInput(s, c) \/ EstablishedInput(s, c) \/ EstablishedFin(s, c)
             \/ ClosingInput(s, c)
      PROVE  PageInv'
  BY <1>6, ListenKeeps, ResetKeeps, AckOnlyKeeps, SynRcvdKeeps, EstablishedKeeps,
     EstablishedFinKeeps, ClosingKeeps
<1>7. CASE Clients
  BY <1>7, ClientActs, ReceivesKeeps DEF Clients
<1> QED BY <1>1, <1>2, <1>3, <1>4, <1>5, <1>6, <1>7 DEF Next, Input

\* So it always holds.
LEMMA PageInvariant == Spec => []PageInv
BY InitPage, SlotInvariant, PageInvStep, PTL DEF Spec

\* A client receives the bytes of a page in their order, none twice and none
\* left out, for every number of slots, clients, windows, page lengths and
\* segments that the network loses, repeats or reorders; unless the window or
\* the page changed while data was unacknowledged.
THEOREM PageArrivesInOrder == Spec => []PageInOrder
<1>1. SlotInv /\ PageInv => PageInOrder
  <2> SUFFICES ASSUME SlotInv, PageInv, NEW p \in Client, ~changed[p], NEW i \in DOMAIN client[p].got
               PROVE  client[p].got[i][2] = i
    BY DEF PageInOrder
  <2>1. client[p].got[i][2] = 1 + i - 1
    BY DEF PageInv, ClientsOK, ClientOK, Numbered
  <2>2. i \in Nat
    BY DEF SlotInv, ClientTypes, ClientType
  <2> QED BY <2>1, <2>2
<1> QED BY SlotInvariant, PageInvariant, <1>1, PTL

\* uip_close of the server comes only when its client has the page to the last
\* byte, whatever acknowledgements the network repeats.
THEOREM ClosesAfterWholePage == Spec => []ClosedAfterWholePage
<1>1. SlotInv /\ PageInv => ClosedAfterWholePage
  <2> SUFFICES ASSUME PageInv, NEW c \in Slot,
                      conns[c].st \in {"FIN_WAIT_1", "FIN_WAIT_2", "CLOSING", "TIME_WAIT"},
                      ~changed[conns[c].peer]
               PROVE  Len(client[conns[c].peer].got) = conns[c].app.cursor
    BY DEF ClosedAfterWholePage
  <2>1. conns[c].st # "CLOSED" /\ conns[c].st \in Waiting
    BY DEF Waiting
  <2> QED BY <2>1 DEF PageInv, Connections, ConnOK
<1> QED BY SlotInvariant, PageInvariant, <1>1, PTL

=============================================================================
