------------------------------ MODULE WifiDriver ------------------------------
(***************************************************************************)
(* The driver of the ZG2100 radio (g2100.c), the connection states of      *)
(* Server::server_task and the use stack_process makes of the driver.      *)
(*                                                                         *)
(* One buffer, uip_buf, holds the frame to transmit, the frame received,   *)
(* commands and the radio's messages; buf names what is in it.  The radio  *)
(* puts messages into two FIFOs, holds its interrupt line low while one is *)
(* announced, and raises the (edge sensitive) EINT1 interrupt when the     *)
(* line falls.  EINT1_IRQHandler only sets intr_occured, so it is part of  *)
(* the radio's step.  pc is where the main loop is in server_task.         *)
(***************************************************************************)
EXTENDS Integers, FiniteSets

CONSTANT SecurityTypes    \* kinds of security_type this build may be set to

AllSecurityTypes == {"NONE", "WEP", "WPA", "PRECALC"}

ASSUME SecurityAssumption == SecurityTypes \subseteq AllSecurityTypes

Fifo == {0, 1}

None == "none"

\* Management requests.  The confirmation of one that succeeded is named after
\* it; a refusal is the same to the driver whatever was asked.
Requests == {"GET_PARAM", "WEP_KEY", "CALC_PSK", "PMK_KEY", "CONNECT_MANAGE", "CONNECT", "SCAN"}
Messages == Requests \cup {"REFUSED", "TXDATA_CONFIRM", "RXDATA_INDICATE",
                           "DISASSOC", "STATUS_DOWN", "STATUS_UP"}

VARIABLES
    pc, caller,                  \* caller: where zg_drv_process returns to
    state,                       \* of server_task
    zg_drv_state, zg_conn_status,
    intr_occured, intr_valid, tx_ready, rx_ready, cnf_pending,
    scan,                        \* newScanData with scan_cnt: "off", "asked", "found"
    buf,
    security,                    \* security_type
    fifo,                        \* the messages announced; a FIFO's bit is set while it has one
    radio                        \* the rest of the radio's state

flags == <<zg_drv_state, zg_conn_status, tx_ready, rx_ready, cnf_pending>>
chip  == <<fifo, radio>>
vars  == <<pc, caller, state, flags, intr_occured, intr_valid, scan, buf, security, chip>>

\* The radio after a reset.
NewRadio == [requests |-> {}, key |-> FALSE, managed |-> FALSE, link |-> "off", frames |-> 0]

Init ==
    /\ pc = "loop" /\ caller = None
    /\ state = "DISCONNECTED"
    /\ zg_drv_state = "INIT" /\ zg_conn_status = FALSE
    /\ tx_ready = FALSE /\ rx_ready = FALSE /\ cnf_pending = FALSE
    /\ intr_occured = FALSE /\ intr_valid = FALSE
    /\ scan = "off"
    /\ buf = None /\ security \in SecurityTypes
    /\ fifo = [f \in Fifo |-> None]
    /\ radio = NewRadio

Goto(from, to) == pc = from /\ pc' = to

-----------------------------------------------------------------------------
(* zg_drv_process.                                                         *)

\* Mutants of MaySend: the confirmation is not waited for; a frame waits for
\* the next interrupt.
MaySendAtOnce == tx_ready
MaySendInterrupted == tx_ready /\ ~cnf_pending /\ intr_occured

MaySend == tx_ready /\ ~cnf_pending

\* Where server_task calls zg_drv_process.
CallsDriver == pc = "loop" \/ (pc = "task" /\ state = "CONNECTING")

\* "TX frame": zg_send gives the buffer to the radio.
SendFrame ==
    IF MaySend
    THEN /\ tx_ready' = FALSE /\ cnf_pending' = TRUE
         /\ radio' = [radio EXCEPT !.frames = @ + 1]
    ELSE UNCHANGED <<tx_ready, cnf_pending, radio>>

\* zg_process_isr reads the interrupt register, clears one of its bits, that of
\* FIFO 1 first, and reads the message into the buffer, over whatever is there.
ReadFifo ==
    LET set == {f \in Fifo : fifo[f] # None}
        sel == IF 1 \in set THEN 1 ELSE 0
    IN  IF set = {}
        THEN UNCHANGED <<buf, intr_valid, fifo>>
        ELSE /\ buf' = fifo[sel] /\ fifo' = [fifo EXCEPT ![sel] = None]
             /\ intr_valid' = TRUE

\* The first half of zg_drv_process, up to the end of zg_process_isr (the radio
\* takes longer than that to confirm the frame it was just given).
DrvBegin ==
    /\ CallsDriver
    /\ caller' = IF pc = "loop" THEN "task" ELSE "connecting"
    /\ SendFrame
    /\ IF intr_occured THEN pc' = "isr_end" /\ ReadFifo
       ELSE pc' = "drv_msg" /\ UNCHANGED <<buf, intr_valid, fifo>>
    /\ UNCHANGED <<state, zg_drv_state, zg_conn_status, rx_ready, intr_occured, scan, security>>

\* What a message in the buffer changes: the driver state and the connection.
NextDrvState ==
    IF ~intr_valid THEN zg_drv_state
    ELSE CASE buf = "GET_PARAM" -> "SETUP_SECURITY"
           [] buf \in {"WEP_KEY", "PMK_KEY"} -> "ENABLE_CONN_MANAGE"
           [] buf = "CALC_PSK" -> "INSTALL_PSK"
           [] buf \in {"CONNECT_MANAGE", "DISASSOC"} -> "START_CONN"
           [] buf = "RXDATA_INDICATE" -> "PROCESS_RX"
           [] OTHER -> zg_drv_state

NextConnStatus ==
    CASE intr_valid /\ (buf = "CONNECT" \/ buf = "STATUS_UP") -> TRUE
      [] intr_valid /\ buf \in {"DISASSOC", "STATUS_DOWN"} -> FALSE
      [] OTHER -> zg_conn_status

\* Mutant of StillPending: every message from the radio confirms the frame.
StillPendingNone == cnf_pending /\ ~intr_valid

\* cnf_pending after the message.
StillPending == cnf_pending /\ ~(intr_valid /\ buf = "TXDATA_CONFIRM")

\* Mutant of KeyRequest: the connection is set up without a key.
KeyRequestSkipped == None

\* The request SETUP_SECURITY makes, if any.
KeyRequest ==
    CASE security = "WEP" -> "WEP_KEY" [] security = "WPA" -> "CALC_PSK" [] OTHER -> None

\* The state machine at the end: the next state and the request made on the way.
DrvStep(s) ==
    CASE s = "INIT"               -> <<"GET_MAC", None>>
      [] s = "GET_MAC"            -> <<"IDLE", "GET_PARAM">>
      [] s = "SETUP_SECURITY"     -> IF KeyRequest # None THEN <<"IDLE", KeyRequest>>
                                     ELSE IF security = "PRECALC" THEN <<"INSTALL_PSK", None>>
                                     ELSE <<"ENABLE_CONN_MANAGE", None>>
      [] s = "INSTALL_PSK"        -> <<"IDLE", "PMK_KEY">>
      [] s = "ENABLE_CONN_MANAGE" -> <<"IDLE", "CONNECT_MANAGE">>
      [] s = "START_CONN"         -> <<"IDLE", "CONNECT">>
      [] OTHER                    -> <<"IDLE", None>>

\* zg_process_isr ends with "intr_occured = 0", without a look at the line.
IsrEnd == intr_occured' = (intr_occured /\ pc # "isr_end")

\* The second half: the end of zg_process_isr if it ran, then message and state
\* machine.  A request is put together in the buffer.
DrvEnd ==
    /\ pc \in {"isr_end", "drv_msg"} /\ pc' = caller /\ caller' = None
    /\ IsrEnd
    /\ LET s == NextDrvState
           req == DrvStep(s)[2]
       IN  /\ zg_drv_state' = DrvStep(s)[1]
           /\ rx_ready' = (rx_ready \/ s = "PROCESS_RX")
           /\ IF req = None THEN UNCHANGED <<buf, radio>>
              ELSE buf' = "command" /\ radio' = [radio EXCEPT !.requests = @ \cup {req}]
    /\ zg_conn_status' = NextConnStatus
    /\ cnf_pending' = StillPending
    /\ scan' = IF intr_valid /\ buf = "SCAN" /\ scan = "asked" THEN "found" ELSE scan
    /\ intr_valid' = FALSE
    /\ UNCHANGED <<state, tx_ready, security, fifo>>

-----------------------------------------------------------------------------
(* server_task and stack_process.                                          *)

\* After the driver server_task does what the connection state asks for: it is
\* at "task", and still there when the state changed and the next IF applies.
\* In CONNECTED it runs the stack; a lost connection it first notes.
RunsStack ==
    /\ pc = "task" /\ state = "CONNECTED"
    /\ IF zg_conn_status THEN pc' = "loop" /\ UNCHANGED state
       ELSE pc' = "task" /\ state' = "DISCONNECTED"

\* network_send: the frame uIP left in the buffer is to be transmitted.
NetworkSend(out) ==
    IF out THEN tx_ready' = TRUE /\ buf' = "frame" ELSE UNCHANGED <<tx_ready, buf>>

\* stack_process with a received frame: uIP answers it or not.
StackInput ==
    /\ RunsStack
    /\ rx_ready /\ rx_ready' = FALSE
    /\ \E out \in BOOLEAN : NetworkSend(out)
    /\ UNCHANGED <<caller, zg_drv_state, zg_conn_status, cnf_pending, intr_occured,
                   intr_valid, scan, security, chip>>

\* stack_process without one: nothing is due.
StackIdle ==
    /\ RunsStack /\ ~rx_ready
    /\ UNCHANGED <<caller, flags, intr_occured, intr_valid, scan, buf, security, chip>>

\* The periodic timer: a connection, or the self ARP timer, has a frame to send.
StackPeriodic ==
    /\ RunsStack /\ ~rx_ready
    /\ NetworkSend(TRUE)
    /\ UNCHANGED <<caller, zg_drv_state, zg_conn_status, cnf_pending, rx_ready, intr_occured,
                   intr_valid, scan, security, chip>>

\* zg_init ends with the reset of the radio, which may still interrupt before.
\* server_task goes on with CONNECTING and the driver.
ZgInit ==
    /\ pc = "task" /\ state = "DISCONNECTED" /\ state' = "CONNECTING"
    /\ intr_occured' \in BOOLEAN /\ intr_valid' = FALSE
    /\ zg_drv_state' = "INIT" /\ zg_conn_status' = FALSE
    /\ tx_ready' = FALSE /\ rx_ready' = FALSE /\ cnf_pending' = FALSE
    /\ fifo' = [f \in Fifo |-> None] /\ radio' = NewRadio
    /\ UNCHANGED <<pc, caller, scan, buf, security>>

\* Connected at last; stack_init does not concern the driver.
Connected ==
    /\ Goto("connecting", "loop") /\ zg_conn_status
    /\ state' = "CONNECTED"
    /\ UNCHANGED <<caller, flags, intr_occured, intr_valid, scan, buf, security, chip>>

\* Not yet.
StillConnecting ==
    /\ Goto("connecting", "loop") /\ ~zg_conn_status
    /\ UNCHANGED <<caller, state, flags, intr_occured, intr_valid, scan, buf, security, chip>>

\* Mutant of ConnectTimeout: the timeout is reported and nothing else happens.
ConnectTimeoutReported ==
    /\ Goto("connecting", "loop") /\ ~zg_conn_status
    /\ UNCHANGED <<caller, state, flags, intr_occured, intr_valid, scan, buf, security, chip>>

\* CONNECTION_TIMEOUT is over: "No success, try restarting the WiShield".
ConnectTimeout ==
    /\ Goto("connecting", "loop") /\ ~zg_conn_status
    /\ state' = "DISCONNECTED"
    /\ UNCHANGED <<caller, flags, intr_occured, intr_valid, scan, buf, security, chip>>

\* Every ten seconds zg_scan_start.
ScanStart ==
    /\ Goto("task", "loop") /\ state = "SCANNING"
    /\ scan' = "asked" /\ buf' = "command"
    /\ radio' = [radio EXCEPT !.requests = @ \cup {"SCAN"}]
    /\ UNCHANGED <<caller, state, flags, intr_occured, intr_valid, security, fifo>>

\* Results are printed from the buffer; a network found ends the scan.
ScanResults ==
    /\ Goto("task", "loop") /\ state = "SCANNING" /\ scan = "found"
    /\ scan' = "off"
    /\ state' \in {"SCANNING", "DISCONNECTED"}
    /\ UNCHANGED <<caller, flags, intr_occured, intr_valid, buf, security, chip>>

ScanWait ==
    /\ Goto("task", "loop") /\ state = "SCANNING" /\ scan # "found"
    /\ UNCHANGED <<caller, state, flags, intr_occured, intr_valid, scan, buf, security, chip>>

\* ScanWIFI and ScanWIFIEnd, from a console command.
ScanCommand ==
    /\ pc = "loop"
    /\ state' \in {"SCANNING", "DISCONNECTED"}
    /\ UNCHANGED <<pc, caller, flags, intr_occured, intr_valid, scan, buf, security, chip>>

Driver == DrvBegin \/ DrvEnd

ServerTask ==
    \/ StackInput \/ StackIdle \/ StackPeriodic \/ ZgInit
    \/ Connected \/ StillConnecting \/ ConnectTimeout
    \/ ScanStart \/ ScanResults \/ ScanWait

-----------------------------------------------------------------------------
(* The radio (not part of the repository).                                 *)

\* A message goes into an empty FIFO.  If none was announced the line falls,
\* and EINT1_IRQHandler sets intr_occured.
Post(m) ==
    /\ \E f \in Fifo :
         /\ fifo[f] = None
         /\ fifo' = [fifo EXCEPT ![f] = m]
    /\ intr_occured' = (intr_occured \/ \A f \in Fifo : fifo[f] = None)
    /\ UNCHANGED <<pc, caller, state, flags, intr_valid, scan, buf, security>>

\* A request is answered; success has the effect asked for.
Answer(r, ok) ==
    /\ r \in radio.requests
    /\ Post(IF ok THEN r ELSE "REFUSED")
    /\ radio' = [radio EXCEPT !.requests = @ \ {r},
                              !.key = @ \/ (ok /\ r \in {"WEP_KEY", "PMK_KEY"}),
                              !.managed = @ \/ (ok /\ r = "CONNECT_MANAGE"),
                              !.link = IF ok /\ r = "CONNECT" THEN "up" ELSE @]

ConfirmFrame ==
    /\ radio.frames > 0 /\ Post("TXDATA_CONFIRM")
    /\ radio' = [radio EXCEPT !.frames = @ - 1]

ReceiveFrame == radio.link = "up" /\ Post("RXDATA_INDICATE") /\ UNCHANGED radio

\* The network is lost, or goes on to disassociate a clock it had lost, also in
\* the middle of an attempt to connect again.
LoseLink(m) == radio.link # "off" /\ Post(m) /\ radio' = [radio EXCEPT !.link = "down"]

RegainLink == radio.link = "down" /\ Post("STATUS_UP") /\ radio' = [radio EXCEPT !.link = "up"]

Radio ==
    \/ \E r \in Requests, ok \in BOOLEAN : Answer(r, ok)
    \/ ConfirmFrame \/ ReceiveFrame \/ RegainLink
    \/ \E m \in {"DISASSOC", "STATUS_DOWN"} : LoseLink(m)

Next == Driver \/ ServerTask \/ ScanCommand \/ Radio

Spec == Init /\ [][Next]_vars

\* The main loop goes on, timers expire, the radio confirms frames.
FairSpec ==
    /\ Spec
    /\ WF_vars(Driver \/ ServerTask)
    /\ SF_vars(StackPeriodic) /\ SF_vars(ConnectTimeout)
    /\ SF_vars(ConfirmFrame)

-----------------------------------------------------------------------------
(* Properties.                                                             *)

\* The values of the driver's flags and states; the radio never holds two frames.
TypeOK ==
    /\ pc \in {"loop", "isr_end", "drv_msg", "task", "connecting"}
    /\ caller \in {"task", "connecting", None}
    /\ state \in {"DISCONNECTED", "CONNECTING", "CONNECTED", "SCANNING"}
    /\ zg_drv_state \in {"INIT", "GET_MAC", "SETUP_SECURITY", "INSTALL_PSK", "ENABLE_CONN_MANAGE",
                         "START_CONN", "PROCESS_RX", "IDLE"}
    /\ {zg_conn_status, tx_ready, rx_ready, cnf_pending, intr_occured, intr_valid}
           \subseteq BOOLEAN
    /\ scan \in {"off", "asked", "found"}
    /\ fifo \in [Fifo -> Messages \cup {None}]
    /\ buf \in Messages \cup {None, "command", "frame"}
    /\ radio.frames \in 0 .. 1

\* Confirmations still to come for frames given to the radio.
Unconfirmed ==
    radio.frames + Cardinality({f \in Fifo : fifo[f] = "TXDATA_CONFIRM"})
        + (IF intr_valid /\ buf = "TXDATA_CONFIRM" THEN 1 ELSE 0)

\* cnf_pending is set exactly while one confirmation is on its way: through
\* refused requests, lost links and resets the driver neither gives the radio a
\* second frame (zg_drv_process) nor waits for a confirmation nobody owes it.
OneUnconfirmed == Unconfirmed = IF cnf_pending THEN 1 ELSE 0

\* The radio is asked to connect only after it accepted the connection manager
\* and, on a protected network, the key, whatever confirmations were refused or
\* overtaken and however often the radio was reset (DRV_STATE_... in zg_drv_process).
ConnectReady ==
    "CONNECT" \in radio.requests => radio.managed /\ (security # "NONE" => radio.key)

\* The radio holds its line low, but the edge was used up: zg_process_isr reads
\* one FIFO and clears intr_occured.
Deaf == (\E f \in Fifo : fifo[f] # None) /\ ~intr_occured

\* A frame the stack left for transmission is transmitted or given up at a
\* reset (zg_drv_process, zg_init), unless the driver goes deaf.
TxServed == tx_ready ~> (~tx_ready \/ Deaf)

\* An attempt to connect ends, with a connection or a new reset, even when a
\* request is refused or the driver is deaf (CONNECTION_TIMEOUT in server_task).
ConnectingEnds == (state = "CONNECTING") ~> (state # "CONNECTING")

\* "TX frame": what zg_drv_process gives the radio is the frame the stack left in
\* the buffer.  Not so: the frame waits for the confirmation of the one before
\* it, and that confirmation is read into the same buffer.
TxIsFrame == MaySend /\ CallsDriver => buf = "frame"

=============================================================================
