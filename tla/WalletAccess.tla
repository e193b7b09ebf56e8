----------------------------- MODULE WalletAccess -----------------------------
(***************************************************************************)
(* Sign-in, paid access and nicknames of wallets: the handlers of          *)
(* pages/auth.rs over the statements of auth/db.rs, and the renaming that  *)
(* on_join of the chat does.                                               *)
(*                                                                         *)
(* Every request is served by a task; the tasks interleave between any two *)
(* SQL statements and while one waits for the Ethereum node.  There is no  *)
(* transaction around the statements of a request, so a restart of the     *)
(* server keeps those that ran and forgets the rest.  A task reads the     *)
(* clock once, when it starts.                                             *)
(*                                                                         *)
(* Signatures and message syntax are abstracted to who signs which nonce;  *)
(* requests that are rejected before the first write change nothing and    *)
(* are left out.                                                           *)
(***************************************************************************)
EXTENDS Integers, FiniteSetsExt

CONSTANTS Wallets, Nonces, Nicknames,
          Txs,         (* hashes of payments sent to the project's wallet     *)
          Slots,       (* requests that can be served at the same time        *)
          NonceTtl,    (* NONCE_TTL_SECS                                      *)
          SessionTtl,  (* SESSION_TTL_SECS                                    *)
          Duration,    (* access_duration_secs                                *)
          MaxTime      (* bound of the model: the clock stops there           *)

ASSUME AccessAssumption == /\ {NonceTtl, SessionTtl, Duration} \subseteq Nat \ {0}
                           /\ MaxTime \in Nat
                           /\ IsFiniteSet(Txs)

VARIABLES now,        (* Utc::now                                             *)
          sender,     (* who sent a payment                                   *)
          confirmed,  (* the payments the node has a successful receipt of    *)
          issued,     (* auth_nonces, rows                                    *)
          consumed,   (* ... the nonces with a consumed_at                    *)
          sessions,   (* auth_sessions, and the nonce each was created for    *)
          minted,     (* history: sessions created for a nonce                *)
          nickname,   (* wallet_profiles.nickname, {} for NULL                *)
          until,      (* wallet_profiles.access_until, 0 without a row        *)
          claimed,    (* claimed_payments: the wallet of a hash, if any       *)
          task        (* what a slot is doing                                 *)

chainVars == <<sender, confirmed>>
signInVars == <<issued, consumed, sessions, minted>>
profileVars == <<nickname, until>>
vars == <<now, chainVars, signInVars, profileVars, claimed, task>>

Challenge == [nonce : Nonces, wallet : Wallets, expires : Nat]

Pc == {"consume", "createSession", "verifyPayment", "findOwner", "setNickname", "record", "extend"}

(* "arg" is a set with the nonce or the payment a task is about, "nick" one *)
(* with the nickname it asks for, each with at most one element.            *)
Free == [pc |-> "free"]
Request == [pc : Pc, wallet : Wallets, arg : SUBSET (Nonces \cup Txs), nick : SUBSET Nicknames,
            at : Nat]
Task(pc, w, arg, nick) == [pc |-> pc, wallet |-> w, arg |-> arg, nick |-> nick, at |-> now]

TypeOK == /\ now \in 0 .. MaxTime
          /\ sender \in [Txs -> Wallets]
          /\ confirmed \subseteq Txs
          /\ issued \subseteq Challenge
          /\ consumed \subseteq Nonces
          /\ sessions \subseteq Challenge
          /\ minted \in [Nonces -> Nat]
          /\ nickname \in [Wallets -> SUBSET Nicknames]
          /\ until \in [Wallets -> Nat]
          /\ claimed \in [Txs -> SUBSET Wallets]
          /\ task \in [Slots -> {Free} \cup Request]
          /\ \A s \in Slots : task[s] # Free => task[s].at <= now

Init == /\ now = 0
        /\ sender \in [Txs -> Wallets]
        /\ confirmed = {}
        /\ issued = {} /\ consumed = {}
        /\ sessions = {} /\ minted = [n \in Nonces |-> 0]
        /\ nickname = [w \in Wallets |-> {}]
        /\ until = [w \in Wallets |-> 0]
        /\ claimed = [x \in Txs |-> {}]
        /\ task = [s \in Slots |-> Free]
-----------------------------------------------------------------------------
Tick == /\ now < MaxTime
        /\ now' = now + 1
        /\ UNCHANGED <<chainVars, signInVars, profileVars, claimed, task>>

Confirm(x) == /\ x \notin confirmed
              /\ confirmed' = confirmed \cup {x}
              /\ UNCHANGED <<now, sender, signInVars, profileVars, claimed, task>>

(* The process ends and starts again: requests under way are gone.          *)
Restart == /\ task' = [s \in Slots |-> Free]
           /\ UNCHANGED <<now, chainVars, signInVars, profileVars, claimed>>

Start(s, t) == task[s] = Free /\ task' = [task EXCEPT ![s] = t]
End(s) == task' = [task EXCEPT ![s] = Free]
Goto(s, pc) == task' = [task EXCEPT ![s].pc = pc]
At(s, pc) == task[s].pc = pc

(* No connection in the pool, a statement or the node fails: the request    *)
(* ends with an error.                                                      *)
Fails(s) == /\ ~At(s, "free")
            /\ End(s)
            /\ UNCHANGED <<now, chainVars, signInVars, profileVars, claimed>>
-----------------------------------------------------------------------------
(* POST /auth/nonce: issue_nonce, of random bytes.                          *)
IssueNonce(n, w) ==
    /\ \A c \in issued : c.nonce # n
    /\ issued' = issued \cup {[nonce |-> n, wallet |-> w, expires |-> now + NonceTtl]}
    /\ UNCHANGED <<now, chainVars, consumed, sessions, minted, profileVars, claimed, task>>

(* POST /auth/verify with a message w signed.                               *)
VerifyRequest(s, n, w) == /\ \E c \in issued : c.nonce = n
                          /\ Start(s, Task("consume", w, {n}, {}))
                          /\ UNCHANGED <<now, chainVars, signInVars, profileVars, claimed>>

(* Mutant: consumed_at is not compared.                                     *)
ConsumableAgain(n, w, at) == \E c \in issued : c.nonce = n /\ c.wallet = w /\ c.expires > at

(* consume_nonce: one UPDATE with all the conditions.                       *)
Consumable(n, w, at) == /\ n \notin consumed
                        /\ \E c \in issued : c.nonce = n /\ c.wallet = w /\ c.expires > at

ConsumeNonce(s) ==
    /\ At(s, "consume")
    /\ \E n \in task[s].arg :
           IF Consumable(n, task[s].wallet, task[s].at)
             THEN consumed' = consumed \cup {n} /\ Goto(s, "createSession")
             ELSE UNCHANGED consumed /\ End(s)
    /\ UNCHANGED <<now, chainVars, issued, sessions, minted, profileVars, claimed>>

CreateSession(s) ==
    /\ At(s, "createSession")
    /\ \E n \in task[s].arg :
           /\ sessions' = sessions \cup {[nonce |-> n, wallet |-> task[s].wallet,
                                          expires |-> task[s].at + SessionTtl]}
           /\ minted' = [minted EXCEPT ![n] = @ + 1]
    /\ End(s)
    /\ UNCHANGED <<now, chainVars, issued, consumed, profileVars, claimed>>

(* POST /auth/logout.                                                       *)
Logout(session) == /\ session \in sessions
                   /\ sessions' = sessions \ {session}
                   /\ UNCHANGED <<now, chainVars, issued, consumed, minted, profileVars,
                                  claimed, task>>
-----------------------------------------------------------------------------
(* get_valid_session_wallet.                                                *)
Valid(session) == session \in sessions /\ session.expires > now

(* POST /auth/claim-payment, with a nickname or without one.                *)
ClaimRequest(s, session, x) ==
    /\ Valid(session)
    /\ \E nick \in {{}} \cup {{n} : n \in Nicknames} :
           Start(s, Task("verifyPayment", session.wallet, {x}, nick))
    /\ UNCHANGED <<now, chainVars, signInVars, profileVars, claimed>>

(* Mutant: the sender of the payment is not compared.                       *)
VerifyPaymentOfAny(s) ==
    /\ At(s, "verifyPayment")
    /\ \E x \in task[s].arg :
           IF x \in confirmed
             THEN Goto(s, IF task[s].nick = {} THEN "record" ELSE "findOwner")
             ELSE End(s)
    /\ UNCHANGED <<now, chainVars, signInVars, profileVars, claimed>>

(* verify_payment: the node's answer, as far as this wallet may claim it.   *)
VerifyPayment(s) ==
    /\ At(s, "verifyPayment")
    /\ \E x \in task[s].arg :
           IF x \in confirmed /\ sender[x] = task[s].wallet
             THEN Goto(s, IF task[s].nick = {} THEN "record" ELSE "findOwner")
             ELSE End(s)
    /\ UNCHANGED <<now, chainVars, signInVars, profileVars, claimed>>

(* POST /auth/nickname, and on_join of a connection of the wallet, which is *)
(* not asked for its session again.                                         *)
RenameRequest(s, w, nick) == /\ until[w] > now
                             /\ Start(s, Task("findOwner", w, {}, {nick}))
                             /\ UNCHANGED <<now, chainVars, signInVars, profileVars, claimed>>

(* set_wallet_nickname: the SELECT ...                                      *)
FindOwner(s) == /\ At(s, "findOwner")
                /\ IF \E o \in Wallets \ {task[s].wallet} : nickname[o] = task[s].nick
                     THEN End(s)
                     ELSE Goto(s, "setNickname")
                /\ UNCHANGED <<now, chainVars, signInVars, profileVars, claimed>>

(* Mutant: the column is not UNIQUE.                                        *)
AnyNickname(nick, w) == TRUE

(* ... and the UPSERT, which the UNIQUE column may still refuse.            *)
UniqueAccepts(nick, w) == \A o \in Wallets \ {w} : nickname[o] # nick

SetNickname(s) ==
    /\ At(s, "setNickname")
    /\ IF UniqueAccepts(task[s].nick, task[s].wallet)
         THEN /\ nickname' = [nickname EXCEPT ![task[s].wallet] = task[s].nick]
              /\ IF task[s].arg = {} THEN End(s) ELSE Goto(s, "record")
         ELSE UNCHANGED nickname /\ End(s)
    /\ UNCHANGED <<now, chainVars, signInVars, until, claimed>>

(* Mutant: INSERT OR REPLACE.                                               *)
RecordPaymentAgain(s) ==
    /\ At(s, "record")
    /\ \E x \in task[s].arg : claimed' = [claimed EXCEPT ![x] = {task[s].wallet}]
    /\ Goto(s, "extend")
    /\ UNCHANGED <<now, chainVars, signInVars, profileVars>>

(* record_payment_and_extend_access: INSERT OR IGNORE ...                   *)
RecordPayment(s) ==
    /\ At(s, "record")
    /\ \E x \in task[s].arg :
           IF claimed[x] = {}
             THEN claimed' = [claimed EXCEPT ![x] = {task[s].wallet}] /\ Goto(s, "extend")
             ELSE UNCHANGED claimed /\ End(s)
    /\ UNCHANGED <<now, chainVars, signInVars, profileVars>>

(* Mutants: access always starts at the claim; the duration is subtracted.  *)
ExtendedFromClaim(old, at) == at + Duration
ExtendedBackwards(old, at) == Max({old, at}) - Duration

(* ... and the UPSERT of access_until, from the time the request came in.   *)
Extended(old, at) == Max({old, at}) + Duration

ExtendAccess(s) ==
    /\ At(s, "extend")
    /\ until' = [until EXCEPT ![task[s].wallet] = Extended(@, task[s].at)]
    /\ End(s)
    /\ UNCHANGED <<now, chainVars, signInVars, nickname, claimed>>

SignIn(s) == \/ \E n \in Nonces, w \in Wallets : VerifyRequest(s, n, w)
             \/ ConsumeNonce(s) \/ CreateSession(s)

Claim(s) == \/ \E session \in sessions, x \in Txs : ClaimRequest(s, session, x)
            \/ VerifyPayment(s) \/ RecordPayment(s) \/ ExtendAccess(s)

Rename(s) == \/ \E w \in Wallets, nick \in Nicknames : RenameRequest(s, w, nick)
             \/ FindOwner(s) \/ SetNickname(s)

Next == \/ Tick \/ Restart
        \/ \E x \in Txs : Confirm(x)
        \/ \E n \in Nonces, w \in Wallets : IssueNonce(n, w)
        \/ \E session \in sessions : Logout(session)
        \/ \E s \in Slots : SignIn(s) \/ Claim(s) \/ Rename(s) \/ Fails(s)

Spec == Init /\ [][Next]_vars
-----------------------------------------------------------------------------
(* A challenge signs in once, the wallet it was issued to and nobody else,  *)
(* however many requests carry it and also after logout and restarts.       *)
ChallengeAnsweredOnce ==
    /\ \A n \in Nonces : minted[n] <= 1
    /\ \A session \in sessions : \E c \in issued : /\ c.nonce = session.nonce
                                                   /\ c.wallet = session.wallet

(* A payment is claimed only by the wallet that sent it, once confirmed.    *)
PaymentsOwn == \A x \in Txs : claimed[x] # {} => x \in confirmed /\ claimed[x] = {sender[x]}

(* A wallet has no more access than its payments bought, each counted once, *)
(* from the time it was claimed at the latest.                              *)
PaidBy(w) == {x \in Txs : claimed[x] = {w}}
Unextended(w) == {s \in Slots : At(s, "extend") /\ task[s].wallet = w}
Bought(w) == Duration * (Cardinality(PaidBy(w)) - Cardinality(Unextended(w)))
AccessPaid == \A w \in Wallets : until[w] <= IF Bought(w) > 0 THEN now + Bought(w) ELSE 0

(* Paid access is never taken away, though requests extend it with clocks   *)
(* they read at different times.                                            *)
AccessNeverShrinks == [][\A w \in Wallets : until'[w] >= until[w]]_vars

(* Two wallets never have the same nickname, whichever of the requests that *)
(* found it free is the first.                                              *)
NicknamesUnique == \A w, o \in Wallets : nickname[w] = nickname[o] /\ w # o => nickname[w] = {}
-----------------------------------------------------------------------------
(* AUTH-10: the hash is recorded and the access extended atomically.        *)
ActivatedOrUnchanged ==
    (\A s \in Slots : task[s] = Free) =>
        \A w \in Wallets : PaidBy(w) # {} => until[w] > 0

(* AUTH-90: replaying a hash cannot change the nickname.                    *)
ReplayKeepsNickname ==
    [][\A s \in Slots : SetNickname(s) /\ (\E x \in task[s].arg : claimed[x] # {})
           => nickname' = nickname]_vars
=============================================================================
