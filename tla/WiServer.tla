------------------------------- MODULE WiServer -------------------------------
(***************************************************************************)
(* The server part of WiServer.cpp: what one call of server_task_impl does *)
(* to the application state of the current connection.  A page is a        *)
(* virtual buffer that is generated from its first byte at every call; the *)
(* bytes from ackedCount on, as many as fit into a segment, are sent.      *)
(*                                                                         *)
(* Byte i of the page of url is <<url, i>>: the header, the content or the *)
(* 404 message, whichever the callback yields.  A request is a sequence of *)
(* lines: a URL stands for the GET line that names it, Blank for the empty *)
(* line that ends it.                                                      *)
(***************************************************************************)
EXTENDS Integers, Sequences, FiniteSetsExt

CONSTANTS URL, Blank

\* uip_tcp_appstate_t: request is the test request # NULL, since every
\* request points to the one buffer get_string_global.
NewAppstate == [ackedCount |-> 0, sentCount |-> 0, cursor |-> 0, request |-> FALSE]

Clamp(n, hi) == IF n < 0 THEN 0 ELSE IF n > hi THEN hi ELSE n

-----------------------------------------------------------------------------
(* A call is a record: app and url (get_string_global), the mss of the     *)
(* connection, uip_flags, uip_slen and the data in uip_appdata.            *)

\* send(): the intersection of the virtual buffer with the real one.  uip_send
\* does nothing for a length of zero.
send(t) ==
    LET len == Clamp(t.app.cursor - t.app.ackedCount, t.mss)
    IN  [t EXCEPT !.app = [@ EXCEPT !.sentCount = len],
                  !.slen = IF len > 0 THEN len ELSE @,
                  !.data = [i \in 1 .. len |-> <<t.url, t.app.ackedCount + i>>]]

\* sendPage(): from cursor 0 on the callback writes the page of the URL, whose
\* length is page[url] at this moment.
sendPage(t, page) == send([t EXCEPT !.app = [@ EXCEPT !.cursor = page[t.url]]])

\* The lines of a packet that processPacket gives to processLine: all up to
\* the first empty one.
Processed(pkt) ==
    {i \in DOMAIN pkt : \A j \in 1 .. (i - 1) : pkt[j] # Blank}

\* processPacket and processLine: the first GET line is copied, if the
\* connection has no request yet.
processPacket(t, pkt) ==
    LET gets == {i \in Processed(pkt) : pkt[i] \in URL}
    IN  IF t.app.request \/ gets = {} THEN t
        ELSE [t EXCEPT !.app = [@ EXCEPT !.request = TRUE], !.url = pkt[Min(gets)]]

\* processPacket returns TRUE: an empty line was found.
RequestEnds(pkt) == \E i \in DOMAIN pkt : pkt[i] = Blank

WhenConnected(t) ==
    IF "CONNECTED" \notin t.flags THEN t
    ELSE [t EXCEPT !.app = [@ EXCEPT !.ackedCount = 0, !.request = FALSE]]

WhenNewdata(t, pkt, page) ==
    IF "NEWDATA" \notin t.flags THEN t
    ELSE LET u == processPacket(t, pkt)
         IN  IF RequestEnds(pkt) /\ u.app.request THEN sendPage(u, page) ELSE u

\* Mutant of AckedSoFar: the bytes of earlier segments are forgotten.
AckedSoFarLast(app) == app.sentCount

\* "Record the bytes that were successfully sent".
AckedSoFar(app) == app.ackedCount + app.sentCount

PageDone(app) == app.ackedCount = app.cursor

WhenAcked(t, page) ==
    IF "ACKDATA" \notin t.flags THEN t
    ELSE LET u == [t EXCEPT !.app = [@ EXCEPT !.ackedCount = AckedSoFar(t.app), !.sentCount = 0]]
         IN  IF PageDone(u.app) THEN [u EXCEPT !.flags = {"CLOSE"}] ELSE sendPage(u, page)

WhenEnded(t) ==
    IF t.flags \cap {"ABORT", "CLOSE", "TIMEDOUT"} = {} THEN t
    ELSE [t EXCEPT !.app = [@ EXCEPT !.request = FALSE]]

\* server_task_impl(), called with flags for a packet pkt.  uip_process sets
\* REXMIT alone: "Send the same data again (same ackedCount value)".
server_task_impl(app, url, mss, flags, pkt, page) ==
    LET t == [app |-> app, url |-> url, mss |-> mss, flags |-> flags, slen |-> 0, data |-> <<>>]
    IN  IF flags = {"REXMIT"} THEN sendPage(t, page)
        ELSE WhenEnded(WhenAcked(WhenNewdata(WhenConnected(t), pkt, page), page))

=============================================================================
