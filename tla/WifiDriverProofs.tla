--------------------------- MODULE WifiDriverProofs ---------------------------
(***************************************************************************)
(* Proofs about WifiDriver, for every set of security types: the types,    *)
(* the pairing of frames and confirmations (OneUnconfirmed) and the order  *)
(* in which a connection is set up (ConnectReady).                         *)
(*                                                                         *)
(* None of the three is inductive.  What the buffer holds counts only      *)
(* between the two halves of zg_drv_process (ValidInIsr); and a request to *)
(* connect follows from messages that may still be in a FIFO or in the     *)
(* buffer, so SetupInv says of each of them what the radio must have       *)
(* accepted before it sent it.                                             *)
(***************************************************************************)
EXTENDS WifiDriver, FiniteSetTheorems, TLAPS

\* intr_valid is set by zg_process_isr and cleared in the same zg_drv_process.
ValidInIsr == intr_valid => pc = "isr_end"

\* The types TypeOK leaves open: the radio, the type of security, and the states
\* that zg_drv_process enters and leaves in one call; and where it returns to.
DriverType ==
    /\ radio \in [requests : SUBSET Requests, key : BOOLEAN, managed : BOOLEAN,
                  link : {"off", "up", "down"}, frames : Nat]
    /\ security \in SecurityTypes
    /\ zg_drv_state \notin {"START_CONN", "PROCESS_RX"}
    /\ pc \in {"isr_end", "drv_msg"} => caller # None

\* The message is in a FIFO, or in the buffer and not yet looked at.
InHand(m) == (\E f \in Fifo : fifo[f] = m) \/ (intr_valid /\ buf = m)

\* The radio has what the network asks for.
Keyed == security # "NONE" => radio.key
Ready == radio.managed /\ Keyed

\* A message or a request implies what came before it.
SetupInv ==
    /\ zg_drv_state = "ENABLE_CONN_MANAGE" => Keyed
    /\ InHand("WEP_KEY") \/ InHand("PMK_KEY") => Keyed
    /\ "CONNECT_MANAGE" \in radio.requests => Keyed
    /\ InHand("CONNECT_MANAGE") \/ InHand("DISASSOC") \/ radio.link # "off" => Ready
    /\ "CONNECT" \in radio.requests => Ready

DriverInv == TypeOK /\ DriverType /\ ValidInIsr /\ OneUnconfirmed /\ SetupInv

-----------------------------------------------------------------------------
(* Lemmas.                                                                 *)

\* The confirmations in the two FIFOs, counted one by one.
LEMMA CountFifos ==
    ASSUME NEW q, NEW m
    PROVE  Cardinality({f \in Fifo : q[f] = m})
               = (IF q[0] = m THEN 1 ELSE 0) + (IF q[1] = m THEN 1 ELSE 0)
<1> DEFINE S == {f \in Fifo : q[f] = m}
<1>1. CASE q[0] = m /\ q[1] = m
  <2>1. S = {0} \cup {1} /\ 1 \notin {0}
    BY <1>1 DEF Fifo
  <2>2. IsFiniteSet({0}) /\ Cardinality({0}) = 1
    BY FS_Singleton
  <2>3. Cardinality({0} \cup {1}) = 1 + 1
    BY <2>1, <2>2, FS_AddElement
  <2> QED BY <1>1, <2>1, <2>3
<1>2. CASE q[0] = m /\ q[1] # m
  <2>1. S = {0}
    BY <1>2 DEF Fifo
  <2> QED BY <1>2, <2>1, FS_Singleton
<1>3. CASE q[0] # m /\ q[1] = m
  <2>1. S = {1}
    BY <1>3 DEF Fifo
  <2> QED BY <1>3, <2>1, FS_Singleton
<1>4. CASE q[0] # m /\ q[1] # m
  <2>1. S = {}
    BY <1>4 DEF Fifo
  <2> QED BY <1>4, <2>1, FS_EmptySet
<1> QED BY <1>1, <1>2, <1>3, <1>4

-----------------------------------------------------------------------------
(* The steps.                                                              *)

\* Types.  Only SendFrame adds to frames, and only when no frame is unconfirmed.
LEMMA TypeStep ==
    TypeOK /\ DriverType /\ ValidInIsr /\ OneUnconfirmed /\ [Next]_vars
        => (TypeOK /\ DriverType /\ ValidInIsr)'
<1> SUFFICES ASSUME TypeOK, DriverType, ValidInIsr, OneUnconfirmed, [Next]_vars
             PROVE  (TypeOK /\ DriverType /\ ValidInIsr)'
  OBVIOUS
<1> USE DEF TypeOK, DriverType, ValidInIsr, flags, chip
<1>1. CASE UNCHANGED vars
  BY <1>1 DEF vars
<1>2. CASE DrvBegin
  <2>1. MaySend => radio.frames = 0
    <3>1. Cardinality({f \in Fifo : fifo[f] = "TXDATA_CONFIRM"})
             = (IF fifo[0] = "TXDATA_CONFIRM" THEN 1 ELSE 0)
                 + (IF fifo[1] = "TXDATA_CONFIRM" THEN 1 ELSE 0)
      BY CountFifos
    <3> QED BY <3>1 DEF MaySend, OneUnconfirmed, Unconfirmed
  <2>2. radio' \in [requests : SUBSET Requests, key : BOOLEAN, managed : BOOLEAN,
                    link : {"off", "up", "down"}, frames : Nat] /\ radio'.frames \in 0 .. 1
    BY <1>2, <2>1 DEF DrvBegin, SendFrame
  <2>3. tx_ready' \in BOOLEAN /\ cnf_pending' \in BOOLEAN
    BY <1>2 DEF DrvBegin, SendFrame
  <2>4. fifo' \in [Fifo -> Messages \cup {None}] /\ buf' \in Messages \cup {None, "command", "frame"}
    BY <1>2 DEF DrvBegin, ReadFifo, Fifo
  <2>5. pc' \in {"isr_end", "drv_msg"} /\ intr_valid' \in BOOLEAN /\ (intr_valid' => pc' = "isr_end")
    BY <1>2 DEF DrvBegin, ReadFifo, CallsDriver
  <2>6. caller' \in {"task", "connecting"} /\ caller' # None
    BY <1>2 DEF DrvBegin, None
  <2> QED BY <1>2, <2>2, <2>3, <2>4, <2>5, <2>6 DEF DrvBegin
<1>3. CASE DrvEnd
  <2> DEFINE s == NextDrvState
  <2>1. s \in {"INIT", "GET_MAC", "SETUP_SECURITY", "INSTALL_PSK", "ENABLE_CONN_MANAGE",
               "START_CONN", "PROCESS_RX", "IDLE"}
    BY DEF NextDrvState
  <2>2. DrvStep(s)[1] \in {"GET_MAC", "INSTALL_PSK", "ENABLE_CONN_MANAGE", "IDLE"}
        /\ DrvStep(s)[2] \in Requests \cup {None}
    BY <2>1 DEF DrvStep, KeyRequest, Requests
  <2>3. zg_drv_state' = DrvStep(s)[1] /\ rx_ready' = (rx_ready \/ s = "PROCESS_RX")
        /\ zg_conn_status' = NextConnStatus /\ cnf_pending' = StillPending
        /\ scan' = (IF intr_valid /\ buf = "SCAN" /\ scan = "asked" THEN "found" ELSE scan)
        /\ intr_occured' = (intr_occured /\ pc # "isr_end") /\ intr_valid' = FALSE
        /\ pc' = caller /\ caller' = None
        /\ UNCHANGED <<state, tx_ready, security, fifo>>
    BY <1>3 DEF DrvEnd, IsrEnd
  <2>4. buf' \in Messages \cup {None, "command", "frame"} /\ radio'.frames \in 0 .. 1
        /\ radio' \in [requests : SUBSET Requests, key : BOOLEAN, managed : BOOLEAN,
                       link : {"off", "up", "down"}, frames : Nat]
    BY <1>3, <2>2 DEF DrvEnd, IsrEnd
  <2>5. rx_ready' \in BOOLEAN /\ intr_occured' \in BOOLEAN /\ cnf_pending' \in BOOLEAN
    BY <2>3 DEF StillPending
  <2>6. zg_conn_status' \in BOOLEAN
    BY <2>3 DEF NextConnStatus
  <2>7. scan' \in {"off", "asked", "found"} /\ pc' \in {"task", "connecting"}
    BY <1>3, <2>3 DEF DrvEnd, IsrEnd
  <2>8. zg_drv_state' \in {"INIT", "GET_MAC", "SETUP_SECURITY", "INSTALL_PSK", "ENABLE_CONN_MANAGE",
                           "START_CONN", "PROCESS_RX", "IDLE"}
    BY <2>2, <2>3
  <2>9. /\ caller' \in {"task", "connecting", None}
        /\ state' \in {"DISCONNECTED", "CONNECTING", "CONNECTED", "SCANNING"}
        /\ fifo' \in [Fifo -> Messages \cup {None}]
    BY <2>3
  <2>10. tx_ready' \in BOOLEAN /\ intr_valid' = FALSE
    BY <2>3, Zenon
  <2>11. TypeOK'
    BY <2>4, <2>5, <2>6, <2>7, <2>8, <2>9, <2>10
  <2>12. zg_drv_state' \notin {"START_CONN", "PROCESS_RX"}
    BY <2>2, <2>3
  <2>13. security' \in SecurityTypes /\ pc' \notin {"isr_end", "drv_msg"}
    BY <2>3, <2>7
  <2> HIDE DEF TypeOK, s
  <2> QED BY <2>4, <2>10, <2>11, <2>12, <2>13, Zenon
<1>4. CASE StackInput
  <2>1. tx_ready' \in BOOLEAN /\ buf' \in Messages \cup {None, "command", "frame"}
    BY <1>4 DEF StackInput, NetworkSend
  <2>2. state' \in {"DISCONNECTED", "CONNECTED"} /\ pc' \in {"loop", "task"} /\ pc = "task"
    BY <1>4 DEF StackInput, RunsStack
  <2>3. rx_ready' = FALSE
        /\ UNCHANGED <<caller, zg_drv_state, zg_conn_status, cnf_pending, intr_occured,
                        intr_valid, scan, security, chip>>
    BY <1>4 DEF StackInput
  <2>4. {zg_conn_status', tx_ready', rx_ready', cnf_pending', intr_occured', intr_valid'}
            \subseteq BOOLEAN
    BY <2>1, <2>3
  <2> QED BY <2>1, <2>2, <2>3, <2>4
<1>5. CASE StackIdle
  BY <1>5 DEF StackIdle, RunsStack
<1>6. CASE StackPeriodic
  BY <1>6 DEF StackPeriodic, RunsStack, NetworkSend
<1>7. CASE ZgInit
  <2>1. fifo' \in [Fifo -> Messages \cup {None}]
    BY <1>7 DEF ZgInit
  <2>2. radio' \in [requests : SUBSET Requests, key : BOOLEAN, managed : BOOLEAN,
                    link : {"off", "up", "down"}, frames : Nat] /\ radio'.frames = 0
    BY <1>7 DEF ZgInit, NewRadio
  <2>3. {zg_conn_status', tx_ready', rx_ready', cnf_pending', intr_occured', intr_valid'}
            \subseteq BOOLEAN
    BY <1>7 DEF ZgInit
  <2>4. zg_drv_state' = "INIT" /\ state' = "CONNECTING" /\ pc = "task" /\ intr_valid' = FALSE
        /\ UNCHANGED <<pc, caller, scan, buf, security>>
    BY <1>7 DEF ZgInit
  <2> QED BY <2>1, <2>2, <2>3, <2>4
<1>8. CASE Connected \/ StillConnecting \/ ConnectTimeout
  BY <1>8 DEF Connected, StillConnecting, ConnectTimeout, Goto
<1>9. CASE ScanStart
  BY <1>9 DEF ScanStart, Goto, Requests
<1>10. CASE ScanResults \/ ScanWait \/ ScanCommand
  BY <1>10 DEF ScanResults, ScanWait, ScanCommand, Goto
<1>11. ASSUME NEW m \in Messages, Post(m)
       PROVE  /\ fifo' \in [Fifo -> Messages \cup {None}] /\ intr_occured' \in BOOLEAN
              /\ UNCHANGED <<pc, caller, state, flags, intr_valid, scan, buf, security>>
  BY <1>11 DEF Post
<1>12. ASSUME NEW r \in Requests, NEW ok \in BOOLEAN, Answer(r, ok)
       PROVE  (TypeOK /\ DriverType /\ ValidInIsr)'
  <2>1. Post(IF ok THEN r ELSE "REFUSED") /\ (IF ok THEN r ELSE "REFUSED") \in Messages
    BY <1>12 DEF Answer, Messages
  <2>2. radio' \in [requests : SUBSET Requests, key : BOOLEAN, managed : BOOLEAN,
                    link : {"off", "up", "down"}, frames : Nat] /\ radio'.frames = radio.frames
    BY <1>12 DEF Answer
  <2> QED BY <2>1, <2>2, <1>11
<1>13. CASE ConfirmFrame
  <2>1. Post("TXDATA_CONFIRM") /\ "TXDATA_CONFIRM" \in Messages
    BY <1>13 DEF ConfirmFrame, Messages
  <2>2. radio' \in [requests : SUBSET Requests, key : BOOLEAN, managed : BOOLEAN,
                    link : {"off", "up", "down"}, frames : Nat] /\ radio'.frames \in 0 .. 1
    BY <1>13 DEF ConfirmFrame
  <2> QED BY <2>1, <2>2, <1>11
<1>14. CASE ReceiveFrame
  <2>1. Post("RXDATA_INDICATE") /\ "RXDATA_INDICATE" \in Messages /\ UNCHANGED radio
    BY <1>14 DEF ReceiveFrame, Messages
  <2> QED BY <2>1, <1>11
<1>15. ASSUME NEW m \in {"DISASSOC", "STATUS_DOWN"}, LoseLink(m) \/ RegainLink
       PROVE  (TypeOK /\ DriverType /\ ValidInIsr)'
  <2>1. PICK n \in Messages : Post(n)
    BY <1>15 DEF LoseLink, RegainLink, Messages
  <2>2. radio' \in [requests : SUBSET Requests, key : BOOLEAN, managed : BOOLEAN,
                    link : {"off", "up", "down"}, frames : Nat] /\ radio'.frames = radio.frames
    BY <1>15 DEF LoseLink, RegainLink
  <2> QED BY <2>1, <2>2, <1>11
<1> QED BY <1>1, <1>2, <1>3, <1>4, <1>5, <1>6, <1>7, <1>8, <1>9, <1>10, <1>12, <1>13, <1>14, <1>15
        DEF Next, Driver, ServerTask, Radio

\* Confirmations: what an action adds to frames, FIFOs and buffer together is
\* what it does to cnf_pending.
LEMMA ConfirmStep ==
    TypeOK /\ DriverType /\ ValidInIsr /\ OneUnconfirmed /\ [Next]_vars => OneUnconfirmed'
<1> SUFFICES ASSUME TypeOK, DriverType, ValidInIsr, OneUnconfirmed, [Next]_vars
             PROVE  OneUnconfirmed'
  OBVIOUS
<1> DEFINE c == "TXDATA_CONFIRM"
           One(b) == IF b THEN 1 ELSE 0
<1>a. Unconfirmed = radio.frames + (One(fifo[0] = c) + One(fifo[1] = c)) + One(intr_valid /\ buf = c)
  <2>1. Cardinality({f \in Fifo : fifo[f] = c}) = One(fifo[0] = c) + One(fifo[1] = c)
    BY CountFifos
  <2> QED BY <2>1 DEF Unconfirmed
<1>b. Unconfirmed' = radio'.frames + (One(fifo'[0] = c) + One(fifo'[1] = c))
                        + One(intr_valid' /\ buf' = c)
  <2>1. Cardinality({f \in Fifo : fifo'[f] = c}) = One(fifo'[0] = c) + One(fifo'[1] = c)
    BY CountFifos
  <2> QED BY <2>1 DEF Unconfirmed
<1>c. Unconfirmed = One(cnf_pending)
  BY DEF OneUnconfirmed
<1>d. SUFFICES Unconfirmed' = One(cnf_pending')
  BY DEF OneUnconfirmed
<1> USE DEF TypeOK, ValidInIsr, flags, chip
<1>1. ASSUME UNCHANGED <<radio, fifo, intr_valid, cnf_pending>>, UNCHANGED buf \/ ~intr_valid
      PROVE  Unconfirmed' = One(cnf_pending')
  BY <1>1, <1>a, <1>b, <1>c
<1>2. CASE DrvBegin
  <2>1. ~intr_valid
    BY <1>2 DEF DrvBegin, CallsDriver
  <2>2. radio'.frames - radio.frames = One(cnf_pending') - One(cnf_pending)
        /\ radio'.frames \in Nat
    BY <1>2, <1>a, <1>c, <2>1 DEF DrvBegin, SendFrame, MaySend, DriverType
  <2>3. One(fifo'[0] = c) + One(fifo'[1] = c) + One(intr_valid' /\ buf' = c)
           = One(fifo[0] = c) + One(fifo[1] = c)
    BY <1>2, <2>1 DEF DrvBegin, ReadFifo, Fifo, None
  <2>4. Unconfirmed = radio.frames + (One(fifo[0] = c) + One(fifo[1] = c))
    BY <1>a, <2>1
  <2>5. Unconfirmed' = radio'.frames + (One(fifo[0] = c) + One(fifo[1] = c))
    BY <1>b, <2>2, <2>3
  <2>6. CASE UNCHANGED <<cnf_pending, radio>>
    BY <1>c, <2>4, <2>5, <2>6
  <2>7. CASE cnf_pending' /\ ~cnf_pending
    BY <1>c, <2>2, <2>4, <2>5, <2>7
  <2> QED BY <1>2, <2>6, <2>7 DEF DrvBegin, SendFrame, MaySend
<1>3. CASE DrvEnd
  <2>1. radio'.frames = radio.frames /\ UNCHANGED fifo /\ intr_valid' = FALSE
        /\ cnf_pending' = StillPending
    BY <1>3 DEF DrvEnd, IsrEnd, DriverType
  <2>2. CASE intr_valid /\ buf = c
    <3>1. One(intr_valid /\ buf = c) = 1
      BY <2>2
    <3>2. radio.frames = 0 /\ fifo[0] # c /\ fifo[1] # c
      BY <1>a, <1>c, <3>1
    <3>3. ~cnf_pending' /\ fifo'[0] # c /\ fifo'[1] # c /\ radio'.frames = 0 /\ ~intr_valid'
      BY <2>1, <2>2, <3>2 DEF StillPending
    <3> QED BY <1>b, <3>3
  <2>3. CASE ~(intr_valid /\ buf = c)
    BY <1>a, <1>b, <1>c, <2>1, <2>3 DEF StillPending
  <2> QED BY <2>2, <2>3
<1>4. CASE StackInput \/ StackIdle \/ StackPeriodic
  BY <1>1, <1>4 DEF StackInput, StackIdle, StackPeriodic, RunsStack
<1>5. CASE ZgInit
  BY <1>5, <1>b DEF ZgInit, NewRadio, Fifo, None
<1>6. CASE Connected \/ StillConnecting \/ ConnectTimeout \/ ScanResults \/ ScanWait \/ ScanCommand
  BY <1>1, <1>6 DEF Connected, StillConnecting, ConnectTimeout, ScanResults, ScanWait, ScanCommand
<1>7. CASE ScanStart
  BY <1>7, <1>a, <1>b, <1>c DEF ScanStart, Goto, DriverType
<1>8. ASSUME NEW m \in Messages, Post(m), radio'.frames = radio.frames - One(m = c)
      PROVE  Unconfirmed' = One(cnf_pending')
  BY <1>8, <1>a, <1>b, <1>c DEF Post, Fifo, None
<1>9. CASE \E r \in Requests, ok \in BOOLEAN : Answer(r, ok)
  <2>1. PICK r \in Requests, ok \in BOOLEAN : Answer(r, ok)
    BY <1>9
  <2> DEFINE n == IF ok THEN r ELSE "REFUSED"
  <2>2. n \in Messages /\ n # c
    BY DEF Messages, Requests
  <2>3. radio'.frames = radio.frames /\ Post(n)
    BY <2>1 DEF Answer, DriverType
  <2> HIDE DEF n
  <2>4. radio'.frames = radio.frames - One(n = c)
    BY <2>2, <2>3
  <2> QED BY <1>8, <2>2, <2>3, <2>4
<1>10. CASE ConfirmFrame
  BY <1>8, <1>10 DEF ConfirmFrame, Messages, DriverType
<1>11. CASE ReceiveFrame \/ RegainLink \/ \E m \in {"DISASSOC", "STATUS_DOWN"} : LoseLink(m)
  <2>1. PICK m \in Messages \ {c} : Post(m) /\ radio'.frames = radio.frames
    BY <1>11 DEF ReceiveFrame, RegainLink, LoseLink, Messages, DriverType
  <2>2. radio'.frames = radio.frames - One(m = c)
    BY <2>1
  <2> QED BY <1>8, <2>1, <2>2
<1> QED BY <1>1, <1>2, <1>3, <1>4, <1>5, <1>6, <1>7, <1>9, <1>10, <1>11
        DEF Next, vars, Driver, ServerTask, Radio

\* The order of the set-up: a message is posted, and a request made, only when
\* what SetupInv asks of it holds, and until a reset the radio keeps what it has.
LEMMA SetupStep ==
    TypeOK /\ DriverType /\ ValidInIsr /\ SetupInv /\ [Next]_vars => SetupInv'
<1> SUFFICES ASSUME TypeOK, DriverType, ValidInIsr, SetupInv, [Next]_vars
             PROVE  SetupInv'
  OBVIOUS
<1> USE DEF ValidInIsr, flags, chip
<1>1. ASSUME UNCHANGED <<security, zg_drv_state, fifo, intr_valid>>, UNCHANGED buf \/ ~intr_valid,
             radio'.key = radio.key, radio'.managed = radio.managed, radio'.link = radio.link,
             radio'.requests \subseteq radio.requests \cup {"SCAN"}
      PROVE  SetupInv'
  BY <1>1 DEF SetupInv, InHand, Keyed, Ready
<1>2. CASE DrvBegin
  <2>1. radio'.key = radio.key /\ radio'.managed = radio.managed /\ radio'.link = radio.link
        /\ radio'.requests = radio.requests
    BY <1>2 DEF DrvBegin, SendFrame, DriverType
  <2>2. ASSUME NEW m \in Messages, InHand(m)'
        PROVE  InHand(m)
    BY <1>2, <2>2 DEF DrvBegin, ReadFifo, InHand, Fifo, TypeOK, Messages, Requests, None
  <2>3. UNCHANGED <<security, zg_drv_state>>
    BY <1>2 DEF DrvBegin
  <2>4. {"WEP_KEY", "PMK_KEY", "CONNECT_MANAGE", "DISASSOC"} \subseteq Messages
    BY DEF Messages, Requests
  <2> QED BY <2>1, <2>2, <2>3, <2>4 DEF SetupInv, Keyed, Ready
<1>3. CASE DrvEnd
  <2> DEFINE s == NextDrvState
             req == DrvStep(s)[2]
  <2>1. /\ radio'.key = radio.key /\ radio'.managed = radio.managed /\ radio'.link = radio.link
        /\ radio'.requests \subseteq radio.requests \cup {req}
    BY <1>3 DEF DrvEnd, IsrEnd, DriverType
  <2>2. zg_drv_state' = DrvStep(s)[1] /\ intr_valid' = FALSE /\ UNCHANGED <<security, fifo>>
    BY <1>3 DEF DrvEnd, IsrEnd
  <2>3. Keyed' = Keyed /\ Ready' = Ready
    BY <2>1, <2>2 DEF Keyed, Ready
  <2>4. s = "ENABLE_CONN_MANAGE" => Keyed
    <3>1. s = "ENABLE_CONN_MANAGE" =>
            zg_drv_state = s \/ (intr_valid /\ buf \in {"WEP_KEY", "PMK_KEY"})
      BY DEF NextDrvState
    <3> QED BY <3>1 DEF SetupInv, InHand
  <2>5. s = "START_CONN" => Ready
    <3>1. s = "START_CONN" =>
            zg_drv_state = s \/ (intr_valid /\ buf \in {"CONNECT_MANAGE", "DISASSOC"})
      BY DEF NextDrvState
    <3> QED BY <3>1 DEF SetupInv, InHand, DriverType
  <2>a. s \in {"INIT", "GET_MAC", "SETUP_SECURITY", "INSTALL_PSK", "ENABLE_CONN_MANAGE",
               "START_CONN", "PROCESS_RX", "IDLE"}
    BY DEF NextDrvState, TypeOK
  <2> HIDE DEF s
  <2>6. DrvStep(s)[1] = "ENABLE_CONN_MANAGE" => security = "NONE"
    BY <2>a, SecurityAssumption DEF DrvStep, KeyRequest, DriverType, AllSecurityTypes, None
  <2>7. (req = "CONNECT_MANAGE" => s = "ENABLE_CONN_MANAGE") /\ (req = "CONNECT" => s = "START_CONN")
    BY <2>a DEF DrvStep, KeyRequest, None
  <2>8. \A m : InHand(m)' => InHand(m)
    BY <2>2 DEF InHand
  <2> HIDE DEF req
  <2>9. zg_drv_state' = "ENABLE_CONN_MANAGE" => Keyed'
    BY <2>2, <2>3, <2>6 DEF Keyed
  <2>10. ("CONNECT_MANAGE" \in radio'.requests => Keyed') /\ ("CONNECT" \in radio'.requests => Ready')
    BY <2>1, <2>3, <2>4, <2>5, <2>7 DEF SetupInv
  <2> QED BY <2>1, <2>3, <2>8, <2>9, <2>10 DEF SetupInv
<1>4. CASE StackInput \/ StackIdle \/ StackPeriodic
  BY <1>1, <1>4 DEF StackInput, StackIdle, StackPeriodic, RunsStack
<1>5. CASE ZgInit
  BY <1>5 DEF ZgInit, NewRadio, SetupInv, InHand, Fifo, None
<1>6. CASE Connected \/ StillConnecting \/ ConnectTimeout \/ ScanResults \/ ScanWait \/ ScanCommand
  BY <1>1, <1>6 DEF Connected, StillConnecting, ConnectTimeout, ScanResults, ScanWait, ScanCommand
<1>7. CASE ScanStart
  <2>1. radio'.key = radio.key /\ radio'.managed = radio.managed /\ radio'.link = radio.link
        /\ radio'.requests = radio.requests \cup {"SCAN"}
    BY <1>7 DEF ScanStart, DriverType
  <2>2. UNCHANGED <<security, zg_drv_state, fifo, intr_valid>> /\ ~intr_valid
    BY <1>7 DEF ScanStart, Goto
  <2> QED BY <1>1, <2>1, <2>2
<1>8. ASSUME NEW m \in Messages, Post(m)
      PROVE  /\ \A x \in Messages : InHand(x)' => InHand(x) \/ x = m
             /\ UNCHANGED <<security, zg_drv_state>>
  BY <1>8 DEF Post, InHand, TypeOK, Fifo
<1>9. CASE \E r \in Requests, ok \in BOOLEAN : Answer(r, ok)
  <2>1. PICK r \in Requests, ok \in BOOLEAN : Answer(r, ok)
    BY <1>9
  <2> DEFINE n == IF ok THEN r ELSE "REFUSED"
  <2>2. n \in Messages /\ Post(n)
    BY <2>1 DEF Answer, Messages
  <2>3. /\ radio'.requests \subseteq radio.requests /\ r \in radio.requests
        /\ radio'.key = (radio.key \/ (ok /\ r \in {"WEP_KEY", "PMK_KEY"}))
        /\ radio'.managed = (radio.managed \/ (ok /\ r = "CONNECT_MANAGE"))
        /\ radio'.link = IF ok /\ r = "CONNECT" THEN "up" ELSE radio.link
    BY <2>1 DEF Answer, DriverType
  <2>4. (Keyed => Keyed') /\ (Ready => Ready')
    BY <1>8, <2>2, <2>3 DEF Keyed, Ready
  <2>5. InHand("WEP_KEY")' \/ InHand("PMK_KEY")' => Keyed'
    BY <1>8, <2>2, <2>3, <2>4 DEF SetupInv, Keyed, Messages, Requests
  <2>6. InHand("CONNECT_MANAGE")' \/ InHand("DISASSOC")' => Ready'
    BY <1>8, <2>2, <2>3, <2>4 DEF SetupInv, Ready, Messages, Requests
  <2>7. radio'.link # "off" => Ready'
    BY <2>3, <2>4 DEF SetupInv
  <2> QED BY <1>8, <2>2, <2>3, <2>4, <2>5, <2>6, <2>7 DEF SetupInv
<1>10. CASE ConfirmFrame \/ ReceiveFrame \/ RegainLink
            \/ \E m \in {"DISASSOC", "STATUS_DOWN"} : LoseLink(m)
  <2>1. PICK m \in Messages \ Requests :
            /\ Post(m) /\ (m = "DISASSOC" => radio.link # "off")
            /\ radio'.key = radio.key /\ radio'.managed = radio.managed
            /\ radio'.requests = radio.requests /\ (radio'.link # "off" => radio.link # "off")
    BY <1>10 DEF ConfirmFrame, ReceiveFrame, RegainLink, LoseLink, Messages, Requests, DriverType
  <2>2. Keyed' = Keyed /\ Ready' = Ready
    BY <1>8, <2>1 DEF Keyed, Ready
  <2>3. {"WEP_KEY", "PMK_KEY", "CONNECT_MANAGE"} \subseteq Requests /\ Requests \subseteq Messages
        /\ "DISASSOC" \in Messages
    BY DEF Messages, Requests
  <2> QED BY <1>8, <2>1, <2>2, <2>3 DEF SetupInv
<1> QED BY <1>1, <1>2, <1>3, <1>4, <1>5, <1>6, <1>7, <1>9, <1>10
        DEF Next, vars, Driver, ServerTask, Radio

-----------------------------------------------------------------------------
(* The theorems.                                                           *)

\* DriverInv holds after the initialisation.
LEMMA InitDriver == Init => DriverInv
<1> SUFFICES ASSUME Init PROVE DriverInv
  OBVIOUS
<1>1. TypeOK /\ DriverType /\ ValidInIsr
  <2>1. radio \in [requests : SUBSET Requests, key : BOOLEAN, managed : BOOLEAN,
                   link : {"off", "up", "down"}, frames : Nat] /\ radio.frames = 0
    BY DEF Init, NewRadio
  <2>2. fifo \in [Fifo -> Messages \cup {None}]
    BY DEF Init
  <2>3. {zg_conn_status, tx_ready, rx_ready, cnf_pending, intr_occured, intr_valid}
            \subseteq BOOLEAN
    BY DEF Init
  <2> QED BY <2>1, <2>2, <2>3 DEF Init, TypeOK, DriverType, ValidInIsr
<1>2. OneUnconfirmed
  <2>1. Cardinality({f \in Fifo : fifo[f] = "TXDATA_CONFIRM"})
           = (IF fifo[0] = "TXDATA_CONFIRM" THEN 1 ELSE 0)
               + (IF fifo[1] = "TXDATA_CONFIRM" THEN 1 ELSE 0)
    BY CountFifos
  <2> QED BY <2>1 DEF Init, OneUnconfirmed, Unconfirmed, NewRadio, Fifo, None
<1>3. SetupInv
  BY DEF Init, SetupInv, InHand, NewRadio, None
<1> QED BY <1>1, <1>2, <1>3 DEF DriverInv

\* DriverInv is inductive.
LEMMA DriverInvariant == Spec => []DriverInv
<1>1. DriverInv /\ [Next]_vars => DriverInv'
  BY TypeStep, ConfirmStep, SetupStep DEF DriverInv
<1> QED BY InitDriver, <1>1, PTL DEF Spec

\* The flags and states of g2100.c keep their values, and the radio never holds
\* two frames, whatever the radio answers and in whatever order.
THEOREM DriverTypeCorrect == Spec => []TypeOK
BY DriverInvariant, PTL DEF DriverInv

\* The driver waits for a confirmation exactly while one is on its way.
THEOREM FramesConfirmed == Spec => []OneUnconfirmed
BY DriverInvariant, PTL DEF DriverInv

\* zg_drv_process asks for a connection only after the radio accepted what the
\* network needs.
THEOREM ConnectsWhenReady == Spec => []ConnectReady
<1>1. DriverInv => ConnectReady
  BY DEF DriverInv, SetupInv, Ready, Keyed, ConnectReady
<1> QED BY DriverInvariant, <1>1, PTL

=============================================================================
