--------------------------- MODULE ChatClientProofs ---------------------------
(***************************************************************************)
(* Proofs about ChatClient, for any wallets and any number of payments: a  *)
(* tab that is alone with its cookie and waits for its session shows, pays *)
(* from and joins as one wallet.                                           *)
(***************************************************************************)
EXTENDS ChatClient, SequenceTheorems, TLAPS

-----------------------------------------------------------------------------
(* The socket and the tasks belong to a page each, and somebody pays.       *)
Pages == /\ page = "hub" => socket = "none" /\ sender = NoWallet
         /\ page = "room" => task = "none"
         /\ task \in {"transfer", "claim"} => payer \in Wallets

(* The tab is alone with its cookie, and waited for its session.            *)
Undisturbed == ~late /\ ~elsewhere

(* Every wallet that the tab has read, shows, signs in, pays from or joins  *)
(* as is that of the cookie, except that of a sign-in not yet verified,     *)
(* during which there is none.                                              *)
Agrees(w) == w \in {NoWallet, cookie}
OneWallet == /\ Agrees(shown) /\ Agrees(sender)
             /\ fetch = "read" => Agrees(status.wallet)
             /\ task \in {"sign", "verify"} => shown = NoWallet /\ fetch = "done"
             /\ task \in {"transfer", "claim"} => payer = cookie
             /\ task \in {"signedIn", "paid", "renamed"} => answer.wallet = cookie

ClientInv == /\ ClientTypeOK
             /\ Pages
             /\ Undisturbed => OneWallet /\ ~mismatched
-----------------------------------------------------------------------------
(* A page is loaded: nothing is shown, read or under way.                   *)
LEMMA Navigated ==
  ASSUME ClientInv, Navigate
  PROVE  ClientInv'
<1>1. /\ page' \in {"hub", "room"} /\ shown' = NoWallet /\ unlocked' = FALSE /\ nickValid' \in BOOLEAN
      /\ fetch' = "asked" /\ status' = NoStatus
      /\ task' = "none" /\ payer' = NoWallet /\ answer' = NoStatus
      /\ socket' \in {"connecting", "none"} /\ (page' = "hub" => socket' = "none")
      /\ sender' = NoWallet /\ isJoined' = FALSE /\ joinInFlight' = FALSE /\ join' = "none"
      /\ UNCHANGED <<cookie, access, named, transfers, late, elsewhere, mismatched>>
  BY DEF Navigate, Fresh, serverVars, historyVars
<1>2. NoStatus \in Status
  BY DEF NoStatus, Status, SomeWallet
<1>3. ClientTypeOK'
  BY <1>1, <1>2 DEF ClientInv, ClientTypeOK, Tasks, SomeWallet
<1>4. Pages'
  BY <1>1 DEF Pages
<1>5. Undisturbed' => OneWallet' /\ ~mismatched'
  BY <1>1 DEF ClientInv, Undisturbed, OneWallet, Agrees
<1> QED
  BY <1>3, <1>4, <1>5 DEF ClientInv

LEMMA StatusTyped ==
  ASSUME NEW w \in SomeWallet, NEW a \in BOOLEAN, NEW b \in BOOLEAN
  PROVE  /\ [wallet |-> w, active |-> a, named |-> b] \in Status
         /\ [wallet |-> w, active |-> a, named |-> b].wallet = w
         /\ StatusOf(w) \in Status /\ StatusOf(w).wallet = w
         /\ NoStatus \in Status /\ NoStatus.wallet = NoWallet
BY DEF Status, StatusOf, NoStatus, SomeWallet

LEMMA InitClientInv == ClientInit => ClientInv
<1> SUFFICES ASSUME ClientInit PROVE ClientInv
  OBVIOUS
<1>1. NoStatus \in Status
  BY DEF NoStatus, Status, SomeWallet
<1>2. ClientTypeOK
  <2>1. transfers \in Seq(Wallets)
    BY EmptySeq DEF ClientInit
  <2>2. page \in {"hub", "room"} /\ socket \in {"none", "connecting", "open", "closed"}
    BY DEF ClientInit
  <2> QED
    BY <1>1, <2>1, <2>2 DEF ClientInit, ClientTypeOK, Tasks, SomeWallet
<1> QED
  BY <1>2 DEF ClientInit, ClientInv, Pages, Undisturbed, OneWallet, Agrees

(* The session of the page is read and applied.                             *)
LEMMA SessionSteps ==
  ASSUME ClientInv, SessionRead \/ SessionFails \/ SessionOnHub \/ SessionInRoom
  PROVE  ClientInv'
<1>t. ClientTypeOK /\ Pages /\ (Undisturbed => OneWallet /\ ~mismatched)
  BY DEF ClientInv
<1>1. CASE SessionRead \/ SessionFails
  <2>1. /\ fetch = "asked" /\ fetch' = "read" /\ status' \in Status /\ status'.wallet \in {NoWallet, cookie}
    <3>1. cookie \in SomeWallet /\ (cookie \in access) \in BOOLEAN /\ (cookie \in named) \in BOOLEAN
      BY <1>t DEF ClientTypeOK
    <3>2. StatusOf(cookie) \in Status /\ StatusOf(cookie).wallet = cookie
          /\ NoStatus \in Status /\ NoStatus.wallet = NoWallet
      BY <3>1, StatusTyped
    <3> QED
      BY <1>1, <3>2 DEF SessionRead, SessionFails
  <2>2. UNCHANGED <<cookie, access, named, transfers, page, shown, unlocked, nickValid, task, payer, answer,
                    socket, sender, isJoined, joinInFlight, join, late, elsewhere, mismatched>>
    BY <1>1 DEF SessionRead, SessionFails, serverVars, signalVars, taskVars, socketVars, historyVars
  <2>3. ClientTypeOK'
    BY <1>t, <2>1, <2>2 DEF ClientTypeOK
  <2>4. Pages'
    BY <1>t, <2>2 DEF Pages
  <2>5. Undisturbed' => OneWallet' /\ ~mismatched'
    BY <1>t, <2>1, <2>2 DEF Undisturbed, OneWallet, Agrees
  <2> QED
    BY <2>3, <2>4, <2>5 DEF ClientInv
<1>2. CASE (SessionOnHub \/ SessionInRoom) /\ ~Navigate
  <2>1. /\ fetch = "read" /\ fetch' = "done" /\ status \in Status
        /\ shown' \in {shown, status.wallet} /\ unlocked' \in BOOLEAN /\ nickValid' \in BOOLEAN
    <3>1. status \in Status
      BY <1>t DEF ClientTypeOK
    <3>2. status.active \in BOOLEAN /\ status.named \in BOOLEAN
      BY <3>1 DEF Status
    <3> QED
      BY <1>2, <1>t, <3>1, <3>2 DEF SessionOnHub, SessionInRoom, Apply, signalVars, ClientTypeOK
  <2>2. /\ UNCHANGED <<cookie, access, named, transfers, page, status, task, payer, answer,
                       socket, sender, isJoined, late, elsewhere, mismatched>>
        /\ joinInFlight' \in {joinInFlight, TRUE} /\ join' \in {join, "sent"}
    BY <1>2 DEF SessionOnHub, SessionInRoom, serverVars, taskVars, socketVars, historyVars, TryAutoJoin
  <2>3. ClientTypeOK'
    <3>1. status.wallet \in SomeWallet
      BY <2>1 DEF Status
    <3> QED
      BY <1>t, <2>1, <2>2, <3>1 DEF ClientTypeOK
  <2>4. Pages'
    BY <1>t, <2>2 DEF Pages
  <2>5. Undisturbed' => OneWallet' /\ ~mismatched'
    BY <1>t, <2>1, <2>2 DEF Undisturbed, OneWallet, Agrees
  <2> QED
    BY <2>3, <2>4, <2>5 DEF ClientInv
<1> QED
  BY <1>1, <1>2, Navigated

(* The user and the wallet act on the landing page.                         *)
LEMMA UserSteps ==
  ASSUME ClientInv,
         \/ TypeNickname \/ ClickConnect \/ ClickPay \/ ClickOpenRoom \/ Transferred \/ TaskFails
         \/ \E w \in Wallets : Signed(w)
  PROVE  ClientInv'
<1>t. ClientTypeOK /\ Pages /\ (Undisturbed => OneWallet /\ ~mismatched)
  BY DEF ClientInv
<1>1. CASE TypeNickname
  <2>1. /\ nickValid' \in BOOLEAN
        /\ UNCHANGED <<cookie, access, named, transfers, page, shown, unlocked, fetch, status, task, payer,
                       answer, socket, sender, isJoined, joinInFlight, join, late, elsewhere, mismatched>>
    BY <1>1, <1>t DEF TypeNickname, serverVars, fetchVars, taskVars, socketVars, historyVars, ClientTypeOK
  <2>2. ClientTypeOK' /\ Pages'
    BY <1>t, <2>1 DEF ClientTypeOK, Pages
  <2>3. Undisturbed' => OneWallet' /\ ~mismatched'
    BY <1>t, <2>1 DEF Undisturbed, OneWallet, Agrees
  <2> QED
    BY <2>2, <2>3 DEF ClientInv
<1>2. CASE ClickConnect \/ ClickPay \/ ClickOpenRoom
  <2>1. /\ page = "hub" /\ task = "none"
        /\ late' \in BOOLEAN /\ (late => late')
        /\ UNCHANGED <<cookie, access, named, transfers, page, shown, unlocked, nickValid, fetch, status,
                       answer, socket, sender, isJoined, joinInFlight, join, elsewhere, mismatched>>
        /\ \/ /\ task' = "sign" /\ payer' = NoWallet /\ shown = NoWallet
              /\ ~late' => fetch \notin {"asked", "read"}
           \/ task' = "transfer" /\ payer' = shown /\ shown # NoWallet
           \/ task' = "rename" /\ payer' = NoWallet
    BY <1>2, <1>t DEF ClickConnect, ClickPay, ClickOpenRoom, OnHub, StartTask, serverVars, signalVars,
                      fetchVars, socketVars, ClientTypeOK
  <2>2. ClientTypeOK' /\ Pages'
    BY <1>t, <2>1 DEF ClientTypeOK, Pages, Tasks, SomeWallet
  <2>3. Undisturbed' => OneWallet' /\ ~mismatched'
    BY <1>t, <2>1 DEF Undisturbed, OneWallet, Agrees, ClientTypeOK
  <2> QED
    BY <2>2, <2>3 DEF ClientInv
<1>3. ASSUME NEW w \in Wallets, Signed(w) PROVE ClientInv'
  <2>1. /\ task = "sign" /\ task' = "verify" /\ payer' = w
        /\ UNCHANGED <<cookie, access, named, transfers, page, shown, unlocked, nickValid, fetch, status,
                       answer, socket, sender, isJoined, joinInFlight, join, late, elsewhere, mismatched>>
    BY <1>3 DEF Signed, serverVars, signalVars, fetchVars, socketVars, historyVars
  <2>2. ClientTypeOK' /\ Pages'
    BY <1>t, <2>1 DEF ClientTypeOK, Pages, Tasks, SomeWallet
  <2>3. Undisturbed' => OneWallet' /\ ~mismatched'
    BY <1>t, <2>1 DEF Undisturbed, OneWallet, Agrees
  <2> QED
    BY <2>2, <2>3 DEF ClientInv
<1>4. CASE Transferred \/ TaskFails
  <2>1. /\ UNCHANGED <<cookie, access, named, page, shown, unlocked, nickValid, fetch, status, payer,
                       answer, socket, sender, isJoined, joinInFlight, join, late, elsewhere, mismatched>>
        /\ \/ task = "transfer" /\ task' = "claim" /\ transfers' = Append(transfers, payer)
           \/ task # "none" /\ task' = "none" /\ transfers' = transfers
    BY <1>4 DEF Transferred, TaskFails, serverVars, signalVars, fetchVars, socketVars, historyVars
  <2>2. transfers' \in Seq(Wallets)
    <3>1. transfers \in Seq(Wallets) /\ (task = "transfer" => payer \in Wallets)
      BY <1>t DEF ClientTypeOK, Pages
    <3> QED
      BY <2>1, <3>1, AppendProperties
  <2>3. ClientTypeOK' /\ Pages'
    BY <1>t, <2>1, <2>2 DEF ClientTypeOK, Pages, Tasks
  <2>4. Undisturbed' => OneWallet' /\ ~mismatched'
    BY <1>t, <2>1 DEF Undisturbed, OneWallet, Agrees
  <2> QED
    BY <2>3, <2>4 DEF ClientInv
<1> QED
  BY <1>1, <1>2, <1>3, <1>4

(* The server answers, and its answer is applied.                           *)
LEMMA AnswerSteps ==
  ASSUME ClientInv, Verify \/ Claim \/ ClaimMismatch \/ Rename \/ TaskDone
  PROVE  ClientInv'
<1>t. ClientTypeOK /\ Pages /\ (Undisturbed => OneWallet /\ ~mismatched)
  BY DEF ClientInv
<1>1. CASE Verify
  <2>1. /\ task = "verify" /\ task' = "signedIn" /\ cookie' = payer /\ answer' = StatusOf(payer)
        /\ UNCHANGED <<access, named, transfers, page, shown, unlocked, nickValid, fetch, status, payer,
                       socket, sender, isJoined, joinInFlight, join, late, elsewhere, mismatched>>
    BY <1>1 DEF Verify, Answered, signalVars, fetchVars, socketVars
  <2>2. answer' \in Status /\ answer'.wallet = payer /\ payer \in SomeWallet
    BY <1>t, <2>1, StatusTyped DEF ClientTypeOK
  <2>3. ClientTypeOK' /\ Pages'
    BY <1>t, <2>1, <2>2 DEF ClientTypeOK, Pages, Tasks
  <2>4. page = "hub"
    BY <1>t, <2>1 DEF Pages, ClientTypeOK
  <2>5. Undisturbed' => OneWallet' /\ ~mismatched'
    BY <1>t, <2>1, <2>2, <2>4 DEF Undisturbed, OneWallet, Agrees, Pages
  <2> QED
    BY <2>3, <2>5 DEF ClientInv
<1>2. CASE Claim \/ Rename
  <2>1. /\ task \in {"claim", "rename"} /\ task' \in {"paid", "renamed"}
        /\ access' \subseteq access \cup {cookie} /\ named' = named \cup {cookie}
        /\ answer' = [wallet |-> cookie, active |-> TRUE, named |-> TRUE]
        /\ UNCHANGED <<cookie, transfers, page, shown, unlocked, nickValid, fetch, status, payer,
                       socket, sender, isJoined, joinInFlight, join, late, elsewhere, mismatched>>
    BY <1>2 DEF Claim, Rename, Answered, signalVars, fetchVars, socketVars
  <2>2. cookie \in Wallets
    BY <1>2, <1>t DEF Claim, Rename, Active, Pages, ClientTypeOK
  <2>3. answer' \in Status /\ answer'.wallet = cookie
    BY <2>1, <2>2, StatusTyped DEF SomeWallet
  <2>4. ClientTypeOK' /\ Pages'
    BY <1>t, <2>1, <2>2, <2>3 DEF ClientTypeOK, Pages, Tasks
  <2>5. Undisturbed' => OneWallet' /\ ~mismatched'
    BY <1>t, <2>1, <2>3 DEF Undisturbed, OneWallet, Agrees
  <2> QED
    BY <2>4, <2>5 DEF ClientInv
<1>3. CASE ClaimMismatch
  <2>1. /\ task = "claim" /\ cookie # payer /\ task' = "none" /\ mismatched' \in BOOLEAN
        /\ UNCHANGED <<cookie, access, named, transfers, page, shown, unlocked, nickValid, fetch, status,
                       payer, answer, socket, sender, isJoined, joinInFlight, join, late, elsewhere>>
    BY <1>3, <1>t DEF ClaimMismatch, serverVars, signalVars, fetchVars, socketVars, ClientTypeOK
  <2>2. ~Undisturbed
    BY <1>t, <2>1 DEF OneWallet
  <2>3. ClientTypeOK' /\ Pages'
    BY <1>t, <2>1 DEF ClientTypeOK, Pages, Tasks
  <2> QED
    BY <2>1, <2>2, <2>3 DEF ClientInv, Undisturbed
<1>4. CASE TaskDone /\ ~Navigate
  <2>1. /\ task \in {"signedIn", "paid", "renamed"} /\ task' = "none"
        /\ shown' = answer.wallet /\ unlocked' = answer.active
        /\ nickValid' = (nickValid \/ answer.named)
        /\ UNCHANGED <<cookie, access, named, transfers, page, fetch, status, payer, answer,
                       socket, sender, isJoined, joinInFlight, join, late, elsewhere, mismatched>>
    BY <1>4 DEF TaskDone, Apply, serverVars, fetchVars, socketVars, historyVars
  <2>2. answer.wallet \in SomeWallet /\ answer.active \in BOOLEAN /\ answer.named \in BOOLEAN
    BY <1>t DEF ClientTypeOK, Status
  <2>3. nickValid' \in BOOLEAN
    BY <2>1, <2>2, <1>t DEF ClientTypeOK
  <2>4. ClientTypeOK' /\ Pages'
    BY <1>t, <2>1, <2>2, <2>3 DEF ClientTypeOK, Pages, Tasks
  <2>5. Undisturbed' => OneWallet' /\ ~mismatched'
    BY <1>t, <2>1 DEF Undisturbed, OneWallet, Agrees
  <2> QED
    BY <2>4, <2>5 DEF ClientInv
<1> QED
  BY <1>1, <1>2, <1>3, <1>4, Navigated

(* The socket and the join, and what other tabs do.                         *)
LEMMA RoomSteps ==
  ASSUME ClientInv, Opened \/ Closed \/ ServerJoins \/ JoinAnswered
  PROVE  ClientInv'
<1>t. ClientTypeOK /\ Pages /\ (Undisturbed => OneWallet /\ ~mismatched)
  BY DEF ClientInv
<1>1. /\ UNCHANGED <<cookie, access, transfers, page, shown, unlocked, nickValid, fetch, status,
                     task, payer, answer, late, elsewhere, mismatched>>
      /\ sender' \in {sender, cookie} /\ named' \subseteq named \cup access
      /\ socket' \in {"none", "connecting", "open", "closed"}
      /\ isJoined' \in BOOLEAN /\ joinInFlight' \in BOOLEAN
      /\ join' \in {"none", "sent", "joined", "refused", "handled"}
      /\ page = "room" \/ (socket' = socket /\ sender' = sender)
  <2>1. CASE Opened
    BY <2>1, <1>t DEF Opened, Upgraded, TryAutoJoin, serverVars, signalVars, fetchVars, taskVars, historyVars,
                      ClientTypeOK, Pages
  <2>2. CASE Closed
    BY <2>2, <1>t DEF Closed, serverVars, signalVars, fetchVars, taskVars, historyVars, ClientTypeOK, Pages
  <2>3. CASE ServerJoins
    BY <2>3, <1>t DEF ServerJoins, signalVars, fetchVars, taskVars, historyVars, ClientTypeOK
  <2>4. CASE JoinAnswered
    BY <2>4, <1>t DEF JoinAnswered, serverVars, signalVars, fetchVars, taskVars, historyVars, ClientTypeOK
  <2> QED
    BY <2>1, <2>2, <2>3, <2>4
<1>2. ClientTypeOK' /\ Pages'
  BY <1>t, <1>1 DEF ClientTypeOK, Pages
<1>3. Undisturbed' => OneWallet' /\ ~mismatched'
  BY <1>t, <1>1 DEF Undisturbed, OneWallet, Agrees
<1> QED
  BY <1>2, <1>3 DEF ClientInv

LEMMA OutsideSteps ==
  ASSUME ClientInv, CookieChanges \/ \E w \in access : AccessEnds(w)
  PROVE  ClientInv'
<1>t. ClientTypeOK /\ Pages /\ (Undisturbed => OneWallet /\ ~mismatched)
  BY DEF ClientInv
<1>1. /\ UNCHANGED <<named, transfers, page, shown, unlocked, nickValid, fetch, status, task, payer, answer,
                     socket, sender, isJoined, joinInFlight, join, late, mismatched>>
      /\ cookie' \in SomeWallet /\ access' \subseteq access /\ elsewhere' \in BOOLEAN
      /\ elsewhere' \/ (cookie' = cookie /\ elsewhere' = elsewhere)
  BY <1>t DEF CookieChanges, AccessEnds, signalVars, fetchVars, taskVars, socketVars, historyVars, ClientTypeOK
<1>2. ClientTypeOK' /\ Pages'
  BY <1>t, <1>1 DEF ClientTypeOK, Pages
<1>3. Undisturbed' => OneWallet' /\ ~mismatched'
  BY <1>t, <1>1 DEF Undisturbed, OneWallet, Agrees
<1> QED
  BY <1>2, <1>3 DEF ClientInv

LEMMA NextClientInv == ClientInv /\ [ClientNext]_clientVars => ClientInv'
<1> SUFFICES ASSUME ClientInv, [ClientNext]_clientVars PROVE ClientInv'
  OBVIOUS
<1>1. CASE UNCHANGED clientVars
  BY <1>1 DEF clientVars, serverVars, signalVars, fetchVars, taskVars, socketVars, historyVars,
              ClientInv, ClientTypeOK, Pages, Undisturbed, OneWallet, Agrees
<1>2. CASE ClientNext
  BY <1>2, SessionSteps, UserSteps, AnswerSteps, RoomSteps, OutsideSteps DEF ClientNext, Hub, Room
<1> QED
  BY <1>1, <1>2
-----------------------------------------------------------------------------
(* What the tab knows of its session stays of one wallet.                   *)
THEOREM ClientInvariance == ClientSpec => []ClientInv
<1>1. ClientInit => ClientInv
  BY InitClientInv
<1>2. ClientInv /\ [ClientNext]_clientVars => ClientInv'
  BY NextClientInv
<1> QED
  BY <1>1, <1>2, PTL DEF ClientSpec

(* The variables range over what the signals, requests and pages can be.    *)
THEOREM ClientTypeCorrect == ClientSpec => []ClientTypeOK
<1>1. ClientInv => ClientTypeOK
  BY DEF ClientInv
<1> QED
  BY <1>1, ClientInvariance, PTL

(* What a tab shows and joins as is the wallet of its session, if it waited *)
(* for that and no other tab changed it (applySessionStatusToState, and the *)
(* cookie that chat_ws_page_handler takes).                                 *)
THEOREM ShowsItsSession == ClientSpec => []ShownIsSession
<1>1. ClientInv => ShownIsSession
  BY DEF ClientInv, Undisturbed, OneWallet, Agrees, ShownIsSession
<1> QED
  BY <1>1, ClientInvariance, PTL

(* Under the same condition a payment is claimed by the wallet that sent it *)
(* (handlePayAndUnlock).                                                    *)
THEOREM PaysFromItsSession == ClientSpec => []PayerIsSession
<1>1. ClientInv => PayerIsSession
  BY DEF ClientInv, Undisturbed, PayerIsSession
<1> QED
  BY <1>1, ClientInvariance, PTL
=============================================================================
