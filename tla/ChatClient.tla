------------------------------ MODULE ChatClient ------------------------------
(***************************************************************************)
(* The way of a browser tab into a chat room (assets/js/chat/chat-ui/,     *)
(* assets/js/chat/auth/, server/src/pages/chat/mod.rs): the landing page   *)
(* with sign-in and payment, the room's page with its socket, and the      *)
(* redirects between the two.                                              *)
(*                                                                         *)
(* The server is what WalletAccess promises: a cookie stands for a wallet, *)
(* a wallet has paid access or not.  Cookie and profiles are shared with   *)
(* other tabs, whose sign-in or logout is one step of the environment, as  *)
(* is the end of an access.  Nonce, signature and verification of a        *)
(* sign-in are one request here.  A nickname is valid or not.              *)
(***************************************************************************)
EXTENDS Naturals, Sequences

CONSTANTS Wallets,
          NoWallet,     (* no session, or no wallet shown                   *)
          MaxTransfers  (* bound of the model                               *)

ASSUME ClientAssumption == NoWallet \notin Wallets /\ MaxTransfers \in Nat

VARIABLES cookie, access, named,    (* server: session; wallets that have   *)
                                    (* access, and a nickname               *)
          transfers,                (* the wallets that sent payments       *)
          page,                     (* "hub" or "room"                      *)
          shown, unlocked, nickValid,  (* signals of the page: wallet,      *)
                                    (* hasActiveAccess, a valid nickname    *)
          fetch, status,            (* GET /auth/session and its answer     *)
          task, payer, answer,      (* what holds authInFlight              *)
          socket, sender,           (* state of the socket, its sender_id   *)
          isJoined, joinInFlight,   (* signals of the room's page           *)
          join,                     (* the JOIN frame and its answer        *)
          late, elsewhere, mismatched  (* history: see the properties       *)

serverVars == <<cookie, access, named, transfers>>
signalVars == <<shown, unlocked, nickValid>>
fetchVars == <<fetch, status>>
taskVars == <<task, payer, answer>>
socketVars == <<socket, sender, isJoined, joinInFlight, join>>
historyVars == <<late, elsewhere, mismatched>>
clientVars == <<serverVars, page, signalVars, fetchVars, taskVars, socketVars, historyVars>>

SomeWallet == Wallets \cup {NoWallet}
Status == [wallet : SomeWallet, active : BOOLEAN, named : BOOLEAN]
Tasks == {"none", "sign", "verify", "transfer", "claim", "rename", "signedIn", "paid", "renamed"}

ClientTypeOK == /\ cookie \in SomeWallet /\ access \subseteq Wallets /\ named \subseteq Wallets
                /\ transfers \in Seq(Wallets)
                /\ page \in {"hub", "room"}
                /\ shown \in SomeWallet /\ unlocked \in BOOLEAN /\ nickValid \in BOOLEAN
                /\ fetch \in {"asked", "read", "done"} /\ status \in Status
                /\ task \in Tasks /\ payer \in SomeWallet /\ answer \in Status
                /\ socket \in {"none", "connecting", "open", "closed"} /\ sender \in SomeWallet
                /\ isJoined \in BOOLEAN /\ joinInFlight \in BOOLEAN
                /\ join \in {"none", "sent", "joined", "refused", "handled"}
                /\ late \in BOOLEAN /\ elsewhere \in BOOLEAN /\ mismatched \in BOOLEAN

(* has_active_paid_session, and session_status of pages/auth.rs.            *)
Active == cookie \in access
StatusOf(w) == [wallet |-> w, active |-> w \in access, named |-> w \in named]
NoStatus == [wallet |-> NoWallet, active |-> FALSE, named |-> FALSE]

(* What a page starts with; the server redirects to the page that fits.     *)
Fresh == /\ page' = IF Active THEN "room" ELSE "hub"
         /\ shown' = NoWallet /\ unlocked' = FALSE
         /\ nickValid' \in BOOLEAN
         /\ fetch' = "asked" /\ status' = NoStatus
         /\ task' = "none" /\ payer' = NoWallet /\ answer' = NoStatus
         /\ socket' = IF Active THEN "connecting" ELSE "none"
         /\ sender' = NoWallet
         /\ isJoined' = FALSE /\ joinInFlight' = FALSE
         /\ join' = "none"

ClientInit == /\ cookie \in SomeWallet /\ access \in SUBSET Wallets /\ named \in SUBSET Wallets
              /\ transfers = <<>>
              /\ page = IF Active THEN "room" ELSE "hub"
              /\ shown = NoWallet /\ unlocked = FALSE /\ nickValid \in BOOLEAN
              /\ fetch = "asked" /\ status = NoStatus
              /\ task = "none" /\ payer = NoWallet /\ answer = NoStatus
              /\ socket = IF Active THEN "connecting" ELSE "none"
              /\ sender = NoWallet
              /\ isJoined = FALSE /\ joinInFlight = FALSE
              /\ join = "none"
              /\ late = FALSE /\ elsewhere = FALSE /\ mismatched = FALSE

Navigate == Fresh /\ UNCHANGED <<serverVars, historyVars>>

(* applySessionStatusToState.                                               *)
Apply(s) == /\ shown' = s.wallet
            /\ unlocked' = s.active
            /\ nickValid' = (nickValid \/ s.named)

(* The observer of hasActiveAccess runs before the nickname is applied.     *)
Unlocks(s) == s.active /\ ~unlocked /\ nickValid
-----------------------------------------------------------------------------
(* The session of the cookie when the page was loaded, on both pages.       *)
SessionRead == /\ fetch = "asked"
               /\ fetch' = "read"
               /\ status' = IF cookie = NoWallet THEN NoStatus ELSE StatusOf(cookie)
               /\ UNCHANGED <<serverVars, page, signalVars, taskVars, socketVars, historyVars>>

(* No answer, or one that cannot be read, counts as no session (taskCatch). *)
SessionFails == /\ fetch = "asked"
                /\ fetch' = "read"
                /\ status' = NoStatus
                /\ UNCHANGED <<serverVars, page, signalVars, taskVars, socketVars, historyVars>>

SessionOnHub ==
    /\ page = "hub"
    /\ fetch = "read"
    /\ IF Unlocks(status) \/ (status.active /\ status.named)
         THEN Navigate
         ELSE /\ IF status = NoStatus THEN UNCHANGED signalVars ELSE Apply(status)
              /\ fetch' = "done"
              /\ UNCHANGED <<serverVars, page, status, taskVars, socketVars, historyVars>>
-----------------------------------------------------------------------------
(* The landing page: one task at a time holds authInFlight.                 *)
OnHub == page = "hub" /\ task = "none"

TypeNickname == /\ page = "hub"
                /\ shown # NoWallet
                /\ nickValid' = ~nickValid
                /\ UNCHANGED <<serverVars, page, shown, unlocked, fetchVars, taskVars, socketVars,
                               historyVars>>

StartTask(t, w) == /\ task' = t
                   /\ payer' = w
                   /\ UNCHANGED <<serverVars, page, signalVars, fetchVars, answer, socketVars,
                                  elsewhere, mismatched>>

(* handleConnectWallet; the button is hidden once a wallet is shown.        *)
(* Mutant: it is not.                                                       *)
ClickConnectAgain == /\ OnHub
                     /\ late' = (late \/ fetch \in {"asked", "read"})
                     /\ StartTask("sign", NoWallet)
ClickConnect == /\ OnHub
                /\ shown = NoWallet
                /\ late' = (late \/ fetch \in {"asked", "read"})
                /\ StartTask("sign", NoWallet)

(* handlePayAndUnlock: the transfer is sent from the wallet that is shown.  *)
ClickPay == /\ OnHub
            /\ shown # NoWallet /\ ~unlocked /\ nickValid
            /\ StartTask("transfer", shown)
            /\ UNCHANGED late

(* handleOnboardingSubmit.                                                  *)
ClickOpenRoom == /\ OnHub
                 /\ shown # NoWallet /\ unlocked /\ nickValid
                 /\ StartTask("rename", NoWallet)
                 /\ UNCHANGED late

(* The wallet's answers: an account that signs, a transfer that is sent.    *)
Signed(w) == /\ task = "sign"
             /\ task' = "verify"
             /\ payer' = w
             /\ UNCHANGED <<serverVars, page, signalVars, fetchVars, answer, socketVars, historyVars>>

Transferred == /\ task = "transfer"
               /\ Len(transfers) < MaxTransfers
               /\ transfers' = Append(transfers, payer)
               /\ task' = "claim"
               /\ UNCHANGED <<cookie, access, named, page, signalVars, fetchVars, payer, answer,
                              socketVars, historyVars>>

Answered(t, s) == /\ task' = t
                  /\ answer' = s
                  /\ UNCHANGED <<transfers, page, signalVars, fetchVars, payer, socketVars, late,
                                 elsewhere>>

(* The requests on the server.                                              *)
Verify == /\ task = "verify"
          /\ cookie' = payer
          /\ Answered("signedIn", StatusOf(payer))
          /\ UNCHANGED <<access, named, mismatched>>

(* verify_payment wants the sender to be the wallet of the session.         *)
Claim == /\ task = "claim"
         /\ cookie = payer
         /\ access' = access \cup {cookie} /\ named' = named \cup {cookie}
         /\ Answered("paid", [wallet |-> cookie, active |-> TRUE, named |-> TRUE])
         /\ UNCHANGED <<cookie, mismatched>>

ClaimMismatch == /\ task = "claim"
                 /\ cookie # payer
                 /\ task' = "none"
                 /\ mismatched' = (mismatched \/ cookie # NoWallet)
                 /\ UNCHANGED <<serverVars, page, signalVars, fetchVars, payer, answer, socketVars,
                                late, elsewhere>>

Rename == /\ task = "rename"
          /\ Active
          /\ named' = named \cup {cookie}
          /\ Answered("renamed", [wallet |-> cookie, active |-> TRUE, named |-> TRUE])
          /\ UNCHANGED <<cookie, access, mismatched>>

(* A request is refused or not answered, or its answer is lost; what was    *)
(* paid is not remembered.                                                  *)
TaskFails == /\ task # "none"
             /\ task' = "none"
             /\ UNCHANGED <<serverVars, page, signalVars, fetchVars, payer, answer, socketVars,
                            historyVars>>

(* The answer is applied.  A sign-in navigates on if its answer allows, a   *)
(* rename does anyway, a payment relies on the observer of the access.      *)
LeavesHub == \/ task = "signedIn" /\ answer.active /\ (nickValid \/ answer.named)
             \/ task = "paid" /\ Unlocks(answer)
             \/ task = "renamed"

TaskDone == /\ task \in {"signedIn", "paid", "renamed"}
            /\ IF LeavesHub
                 THEN Navigate
                 ELSE /\ Apply(answer)
                      /\ task' = "none"
                      /\ UNCHANGED <<serverVars, page, fetchVars, payer, answer, socketVars, historyVars>>

Hub == \/ SessionOnHub \/ TypeNickname
       \/ ClickConnect \/ ClickPay \/ ClickOpenRoom
       \/ \E w \in Wallets : Signed(w)
       \/ Transferred \/ Verify \/ Claim \/ ClaimMismatch \/ Rename
       \/ TaskFails \/ TaskDone
-----------------------------------------------------------------------------
(* The room's page.  tryAutoJoin is called when the session is there and    *)
(* when the socket is open, whichever is first.                             *)
TryAutoJoin(isOnline) ==
    IF ~isJoined /\ ~joinInFlight /\ isOnline /\ unlocked' /\ shown' # NoWallet
      THEN joinInFlight' = TRUE /\ join' = "sent"
      ELSE UNCHANGED <<joinInFlight, join>>

SessionInRoom ==
    /\ page = "room"
    /\ fetch = "read"
    /\ IF status.active
         THEN /\ Apply(status)
              /\ fetch' = "done"
              /\ TryAutoJoin(socket = "open")
              /\ UNCHANGED <<serverVars, page, status, taskVars, socket, sender, isJoined, historyVars>>
         ELSE Navigate

(* chat_ws_page_handler takes the wallet of the cookie, then onopen runs.   *)
Upgraded == /\ socket = "connecting"
            /\ socket' = "open"
            /\ sender' = cookie
            /\ UNCHANGED <<serverVars, page, signalVars, fetchVars, taskVars, isJoined, historyVars>>

(* Mutant: the session is expected to be there before the socket is.        *)
OpenedTooEarly == Upgraded /\ UNCHANGED <<joinInFlight, join>>
Opened == Upgraded /\ TryAutoJoin(TRUE)

Closed == /\ socket \in {"connecting", "open"}
          /\ socket' = "closed"
          /\ isJoined' = FALSE /\ joinInFlight' = FALSE
          /\ UNCHANGED <<serverVars, page, signalVars, fetchVars, taskVars, sender, join, historyVars>>

(* on_join: refused without access or for a nickname that is taken, or      *)
(* failed after the nickname is set.                                        *)
ServerJoins == /\ join = "sent"
               /\ socket = "open"
               /\ \/ join' = "refused" /\ UNCHANGED named
                  \/ sender \in access /\ named' = named \cup {sender} /\ join' \in {"joined", "refused"}
               /\ UNCHANGED <<cookie, access, transfers, page, signalVars, fetchVars, taskVars, socket,
                              sender, isJoined, joinInFlight, historyVars>>

(* Also a frame that is decoded after the socket closed.  An error with a   *)
(* request id leaves joinInFlight as it is.                                 *)
JoinAnswered == /\ join \in {"joined", "refused"}
                /\ join' = "handled"
                /\ IF join = "joined" THEN isJoined' = TRUE /\ joinInFlight' = FALSE
                                      ELSE UNCHANGED <<isJoined, joinInFlight>>
                /\ UNCHANGED <<serverVars, page, signalVars, fetchVars, taskVars, socket, sender,
                               historyVars>>

Room == SessionInRoom \/ Opened \/ Closed \/ ServerJoins \/ JoinAnswered
-----------------------------------------------------------------------------
(* Another tab signs in or out, or the session expires, once.               *)
CookieChanges == /\ ~elsewhere
                 /\ elsewhere' = TRUE
                 /\ cookie' \in SomeWallet \ {cookie}
                 /\ UNCHANGED <<access, named, transfers, page, signalVars, fetchVars, taskVars,
                                socketVars, late, mismatched>>

AccessEnds(w) == /\ access' = access \ {w}
                 /\ UNCHANGED <<cookie, named, transfers, page, signalVars, fetchVars, taskVars,
                                socketVars, historyVars>>

ClientNext == \/ SessionRead \/ SessionFails
              \/ Hub \/ Room
              \/ CookieChanges \/ \E w \in access : AccessEnds(w)

(* The server answers, sockets open or close, frames are handled.           *)
ClientFairness == /\ WF_clientVars(SessionRead \/ SessionFails)
                  /\ WF_clientVars(SessionOnHub \/ SessionInRoom)
                  /\ WF_clientVars(Opened \/ (socket = "connecting" /\ Closed))
                  /\ WF_clientVars(ServerJoins)
                  /\ WF_clientVars(JoinAnswered)

ClientSpec == ClientInit /\ [][ClientNext]_clientVars /\ ClientFairness
-----------------------------------------------------------------------------
(* A tab in which no answer was late, alone with its cookie, shows the      *)
(* wallet of its session on both pages, which its socket has too: what is   *)
(* fetched, signed in and connected at different times is of one wallet.    *)
ShownIsSession == ~late /\ ~elsewhere =>
                      \A w \in {shown, sender} : w # NoWallet => w = cookie

(* Under the same condition, what is paid is claimed by the wallet that     *)
(* paid (handlePayAndUnlock pays from the wallet that is shown, the server  *)
(* claims for the wallet of the cookie).                                    *)
PayerIsSession == mismatched => late \/ elsewhere

(* Whichever comes first, the session or the socket, a room's page asks to  *)
(* join and is answered, unless the socket fails or the session that is     *)
(* read has no access, which leads back to the landing page.                *)
AccessLeadsToJoin ==
    page = "room" ~> \/ isJoined \/ join = "handled"
                     \/ socket = "closed"
                     \/ page = "hub" \/ (fetch = "read" /\ ~status.active)
-----------------------------------------------------------------------------
(* A payment is claimed by the wallet that sent it.                         *)
PaysForItself == ~mismatched

(* The room's page is not joined while it is offline.                       *)
JoinedOnline == isJoined => socket = "open"
=============================================================================
