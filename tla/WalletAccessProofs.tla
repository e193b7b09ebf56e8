-------------------------- MODULE WalletAccessProofs --------------------------
(***************************************************************************)
(* Proofs about WalletAccess, for any number of wallets, challenges,       *)
(* payments and requests served at the same time, and any times: a         *)
(* challenge signs in once, a payment counts once and for its sender,      *)
(* access is what was paid for and is never taken away, nicknames are      *)
(* unique.                                                                 *)
(***************************************************************************)
EXTENDS WalletAccess, FiniteSetTheorems, TLAPS

(* What a task is about, by the statement it runs next.                     *)
SigningIn == {"consume", "createSession"}
Paying == {"verifyPayment", "record", "extend"}
Naming == {"findOwner", "setNickname"}
Verified == {"record", "extend"} \cup Naming

Argument(s) ==
    /\ task[s].pc \in SigningIn => \E n \in Nonces : task[s].arg = {n}
    /\ task[s].pc \in Paying => \E x \in Txs : task[s].arg = {x}
    /\ task[s].pc \in Naming => task[s].arg = {} \/ \E x \in Txs : task[s].arg = {x}
Arguments == \A s \in Slots : Argument(s)

(* A challenge that was consumed has either been turned into a session or   *)
(* is in the hands of one task at most, of the wallet it was issued to.     *)
Challenges ==
    /\ \A n \in Nonces : minted[n] <= (IF n \in consumed THEN 1 ELSE 0)
    /\ \A s \in Slots, n \in Nonces : At(s, "createSession") /\ task[s].arg = {n} =>
           /\ n \in consumed /\ minted[n] = 0
           /\ \E c \in issued : c.nonce = n /\ c.wallet = task[s].wallet
           /\ \A o \in Slots : At(o, "createSession") /\ task[o].arg = {n} => o = s
    /\ \A session \in sessions :
           \E c \in issued : c.nonce = session.nonce /\ c.wallet = session.wallet

(* A task that was told that a payment is good belongs to its sender.       *)
Payments ==
    /\ \A s \in Slots, x \in Txs : task[s].pc \in Verified /\ task[s].arg = {x} =>
           x \in confirmed /\ sender[x] = task[s].wallet
    /\ PaymentsOwn

(* A task that is to extend access is the only one for the payment that     *)
(* its wallet claimed.                                                      *)
Extensions ==
    \A s \in Slots, x \in Txs : At(s, "extend") /\ task[s].arg = {x} =>
        /\ claimed[x] = {task[s].wallet}
        /\ \A o \in Slots : At(o, "extend") /\ task[o].arg = {x} => o = s

IInv == /\ TypeOK /\ Arguments
        /\ Challenges /\ Payments /\ Extensions
        /\ NicknamesUnique /\ AccessPaid
-----------------------------------------------------------------------------

(* Every step is one of these.                                              *)
LEMMA StepCases ==
  ASSUME [Next]_vars
  PROVE  \/ Tick \/ Restart
         \/ \E x \in Txs : Confirm(x)
         \/ \E n \in Nonces, w \in Wallets : IssueNonce(n, w)
         \/ \E session \in sessions : Logout(session)
         \/ \E s \in Slots :
                \/ \E n \in Nonces, w \in Wallets : VerifyRequest(s, n, w)
                \/ \E session \in sessions, x \in Txs : ClaimRequest(s, session, x)
                \/ \E w \in Wallets, nick \in Nicknames : RenameRequest(s, w, nick)
                \/ ConsumeNonce(s) \/ CreateSession(s)
                \/ VerifyPayment(s) \/ RecordPayment(s) \/ ExtendAccess(s)
                \/ FindOwner(s) \/ SetNickname(s)
                \/ Fails(s)
         \/ UNCHANGED vars
BY DEF Next, SignIn, Claim, Rename

(* The larger of two times.                                                 *)
LEMMA MaxOfTwo ==
  ASSUME NEW a \in Int, NEW b \in Int
  PROVE  Max({a, b}) = IF a >= b THEN a ELSE b
BY DEF Max

(* What starting, moving and ending a task does to the slots.               *)
LEMMA Starting ==
  ASSUME TypeOK, NEW s \in Slots, NEW t, Start(s, t)
  PROVE  task'[s] = t /\ task[s].pc = "free" /\ \A o \in Slots \ {s} : task'[o] = task[o]
BY DEF TypeOK, Start, Free

LEMMA Moving ==
  ASSUME TypeOK, NEW s \in Slots, NEW pc, Goto(s, pc), task[s].pc # "free"
  PROVE  /\ task'[s].pc = pc /\ task'[s].arg = task[s].arg /\ task'[s].wallet = task[s].wallet
         /\ task'[s].nick = task[s].nick /\ task'[s].at = task[s].at
         /\ \A o \in Slots \ {s} : task'[o] = task[o]
<1>1. task[s] \in Request
  BY DEF TypeOK, Free
<1> QED
  BY <1>1 DEF TypeOK, Goto, Request

LEMMA Ending ==
  ASSUME TypeOK, NEW s \in Slots, End(s)
  PROVE  /\ task'[s] = Free /\ task'[s].pc = "free"
         /\ \A o \in Slots \ {s} : task'[o] = task[o]
BY DEF TypeOK, End, Free

-----------------------------------------------------------------------------
LEMMA TypeStep ==
  ASSUME TypeOK, Arguments, [Next]_vars
  PROVE  TypeOK'
<1> USE DEF TypeOK, Request, Free, Challenge, Pc, chainVars, signInVars, profileVars
<1> USE DEF At, End, Goto, Start, Task
<1>1. CASE Tick
  <2>1. \A s \in Slots : task[s] # Free => task[s] \in Request
    OBVIOUS
  <2>2. \A s \in Slots : task[s] # Free => task[s].at <= now + 1
    BY <2>1
  <2> QED
    BY <1>1, <2>2, AccessAssumption DEF Tick
<1>2. CASE Restart
  BY <1>2 DEF Restart
<1>3. ASSUME NEW x \in Txs, Confirm(x) PROVE TypeOK'
  BY <1>3 DEF Confirm
<1>4. ASSUME NEW n \in Nonces, NEW w \in Wallets, IssueNonce(n, w) PROVE TypeOK'
  BY <1>4, AccessAssumption DEF IssueNonce
<1>5. ASSUME NEW session \in sessions, Logout(session) PROVE TypeOK'
  BY <1>5 DEF Logout
<1>6. ASSUME NEW s \in Slots, NEW n \in Nonces, NEW w \in Wallets, VerifyRequest(s, n, w)
      PROVE  TypeOK'
  BY <1>6 DEF VerifyRequest
<1>7. ASSUME NEW s \in Slots, NEW session \in sessions, NEW x \in Txs, ClaimRequest(s, session, x)
      PROVE  TypeOK'
  BY <1>7 DEF ClaimRequest
<1>8. ASSUME NEW s \in Slots, NEW w \in Wallets, NEW nick \in Nicknames, RenameRequest(s, w, nick)
      PROVE  TypeOK'
  BY <1>8 DEF RenameRequest
<1>9. ASSUME NEW s \in Slots, ConsumeNonce(s) PROVE TypeOK'
  BY <1>9 DEF ConsumeNonce, Arguments, Argument, SigningIn
<1>10. ASSUME NEW s \in Slots, CreateSession(s) PROVE TypeOK'
  BY <1>10, AccessAssumption DEF CreateSession, Arguments, Argument, SigningIn
<1>11. ASSUME NEW s \in Slots, VerifyPayment(s) PROVE TypeOK'
  BY <1>11 DEF VerifyPayment
<1>12. ASSUME NEW s \in Slots, RecordPayment(s) PROVE TypeOK'
  BY <1>12 DEF RecordPayment, Arguments, Argument, Paying
<1>13. ASSUME NEW s \in Slots, ExtendAccess(s) PROVE TypeOK'
  BY <1>13, AccessAssumption, MaxOfTwo DEF ExtendAccess, Extended
<1>14. ASSUME NEW s \in Slots, FindOwner(s) PROVE TypeOK'
  BY <1>14 DEF FindOwner
<1>15. ASSUME NEW s \in Slots, SetNickname(s) PROVE TypeOK'
  BY <1>15 DEF SetNickname
<1>16. ASSUME NEW s \in Slots, Fails(s) PROVE TypeOK'
  BY <1>16 DEF Fails
<1>17. CASE UNCHANGED vars
  BY <1>17 DEF vars
<1> QED
  BY <1>1, <1>2, <1>3, <1>4, <1>5, <1>6, <1>7, <1>8, <1>9, <1>10, <1>11, <1>12, <1>13, <1>14,
     <1>15, <1>16, <1>17, StepCases

(* A task keeps its argument until it ends.                                 *)
LEMMA ArgumentsStep ==
  ASSUME TypeOK, Arguments, [Next]_vars
  PROVE  Arguments'
<1> USE DEF SigningIn, Paying, Naming, At
<1>0. ASSUME NEW s \in Slots, Argument(s)', \A o \in Slots \ {s} : task'[o] = task[o]
      PROVE  Arguments'
  BY <1>0 DEF Arguments, Argument
<1>1. ASSUME UNCHANGED task PROVE Arguments'
  BY <1>1 DEF Arguments, Argument
<1>2. CASE Restart
  BY <1>2 DEF Restart, Free, Arguments, Argument
<1>3. ASSUME NEW s \in Slots, NEW n \in Nonces, NEW w \in Wallets, VerifyRequest(s, n, w)
      PROVE  Arguments'
  BY <1>0, <1>3, Starting DEF VerifyRequest, Task, Argument
<1>4. ASSUME NEW s \in Slots, NEW session \in sessions, NEW x \in Txs, ClaimRequest(s, session, x)
      PROVE  Arguments'
  BY <1>0, <1>4, Starting DEF ClaimRequest, Task, Argument
<1>5. ASSUME NEW s \in Slots, NEW w \in Wallets, NEW nick \in Nicknames, RenameRequest(s, w, nick)
      PROVE  Arguments'
  BY <1>0, <1>5, Starting DEF RenameRequest, Task, Argument
<1>6. ASSUME NEW s \in Slots, End(s) PROVE Arguments'
  BY <1>0, <1>6, Ending DEF Argument
<1>20. ASSUME NEW s \in Slots, NEW pc, Goto(s, pc), task[s].pc # "free",
              /\ pc \in SigningIn => \E n \in Nonces : task[s].arg = {n}
              /\ pc \in Paying => \E x \in Txs : task[s].arg = {x}
              /\ pc \in Naming => task[s].arg = {} \/ \E x \in Txs : task[s].arg = {x}
       PROVE  Arguments'
  <2>1. task'[s].pc = pc /\ task'[s].arg = task[s].arg /\ \A o \in Slots \ {s} : task'[o] = task[o]
    BY <1>20, Moving
  <2> QED
    BY <1>0, <1>20, <2>1 DEF Argument
<1>7. ASSUME NEW s \in Slots, ConsumeNonce(s) PROVE Arguments'
  <2>1. \/ End(s)
        \/ Goto(s, "createSession") /\ \E n \in Nonces : task[s].arg = {n}
    BY <1>7 DEF ConsumeNonce, Arguments, Argument
  <2> QED
    BY <1>6, <1>20, <1>7, <2>1 DEF ConsumeNonce
<1>8. ASSUME NEW s \in Slots, VerifyPayment(s) PROVE Arguments'
  <2>1. \/ End(s)
        \/ /\ Goto(s, "record") \/ Goto(s, "findOwner")
           /\ \E x \in Txs : task[s].arg = {x}
    BY <1>8 DEF VerifyPayment, Arguments, Argument
  <2> QED
    BY <1>6, <1>20, <1>8, <2>1 DEF VerifyPayment
<1>9. ASSUME NEW s \in Slots, RecordPayment(s) PROVE Arguments'
  <2>1. \/ End(s)
        \/ Goto(s, "extend") /\ \E x \in Txs : task[s].arg = {x}
    BY <1>9 DEF RecordPayment, Arguments, Argument
  <2> QED
    BY <1>6, <1>20, <1>9, <2>1 DEF RecordPayment
<1>10. ASSUME NEW s \in Slots, FindOwner(s) PROVE Arguments'
  <2>1. \/ End(s)
        \/ Goto(s, "setNickname") /\ (task[s].arg = {} \/ \E x \in Txs : task[s].arg = {x})
    BY <1>10 DEF FindOwner, Arguments, Argument
  <2> QED
    BY <1>6, <1>20, <1>10, <2>1 DEF FindOwner
<1>11. ASSUME NEW s \in Slots, SetNickname(s) PROVE Arguments'
  <2>1. \/ End(s)
        \/ Goto(s, "record") /\ \E x \in Txs : task[s].arg = {x}
    BY <1>11 DEF SetNickname, Arguments, Argument
  <2> QED
    BY <1>6, <1>20, <1>11, <2>1 DEF SetNickname
<1>12. ASSUME NEW s \in Slots, CreateSession(s) \/ ExtendAccess(s) \/ Fails(s) PROVE Arguments'
  BY <1>6, <1>12 DEF CreateSession, ExtendAccess, Fails
<1>13. /\ UNCHANGED vars \/ Tick => UNCHANGED task
       /\ \A x \in Txs : Confirm(x) => UNCHANGED task
       /\ \A n \in Nonces, w \in Wallets : IssueNonce(n, w) => UNCHANGED task
       /\ \A session \in sessions : Logout(session) => UNCHANGED task
  BY DEF vars, Tick, Confirm, IssueNonce, Logout
<1> QED
  BY <1>1, <1>2, <1>3, <1>4, <1>5, <1>7, <1>8, <1>9, <1>10, <1>11, <1>12, <1>13, StepCases

-----------------------------------------------------------------------------
(* Steps that leave the records of challenges alone and bring no task to    *)
(* the creation of a session.                                               *)
LEMMA ChallengesKept ==
  ASSUME Challenges, UNCHANGED <<issued, consumed, minted>>, sessions' \subseteq sessions,
         \A s \in Slots : task'[s].pc = "createSession" => task'[s] = task[s]
  PROVE  Challenges'
BY DEF Challenges, At

(* consume_nonce is what keeps a second task away from a challenge.         *)
LEMMA ChallengesStep ==
  ASSUME TypeOK, Arguments, Challenges, [Next]_vars
  PROVE  Challenges'
<1> USE DEF chainVars, signInVars, profileVars, Free
<1>1. CASE Tick \/ (\E x \in Txs : Confirm(x)) \/ UNCHANGED vars
  BY <1>1, ChallengesKept DEF Tick, Confirm, vars
<1>2. CASE Restart
  <2>1. \A s \in Slots : task'[s].pc # "createSession"
    BY <1>2 DEF Restart
  <2> QED
    BY <1>2, <2>1, ChallengesKept DEF Restart
<1>3. ASSUME NEW n \in Nonces, NEW w \in Wallets, IssueNonce(n, w) PROVE Challenges'
  <2>1. issued \subseteq issued' /\ UNCHANGED <<consumed, minted, sessions, task>>
    BY <1>3 DEF IssueNonce
  <2> QED
    BY <2>1 DEF Challenges, At
<1>4. ASSUME NEW session \in sessions, Logout(session) PROVE Challenges'
  BY <1>4, ChallengesKept DEF Logout
<1>5. ASSUME NEW s \in Slots,
             \/ \E n \in Nonces, w \in Wallets : VerifyRequest(s, n, w)
             \/ \E session \in sessions, x \in Txs : ClaimRequest(s, session, x)
             \/ \E w \in Wallets, nick \in Nicknames : RenameRequest(s, w, nick)
      PROVE  Challenges'
  <2>1. \A o \in Slots : task'[o].pc = "createSession" => task'[o] = task[o]
    BY <1>5 DEF TypeOK, VerifyRequest, ClaimRequest, RenameRequest, Start, Task
  <2>2. UNCHANGED <<issued, consumed, minted, sessions>>
    BY <1>5 DEF VerifyRequest, ClaimRequest, RenameRequest
  <2> QED
    BY <2>1, <2>2, ChallengesKept
<1>6. ASSUME NEW s \in Slots,
             \/ VerifyPayment(s) \/ RecordPayment(s) \/ ExtendAccess(s)
             \/ FindOwner(s) \/ SetNickname(s) \/ Fails(s)
      PROVE  Challenges'
  <2> DEFINE Moves == /\ task[s].pc # "free"
                      /\ \/ End(s) \/ Goto(s, "record") \/ Goto(s, "findOwner")
                         \/ Goto(s, "extend") \/ Goto(s, "setNickname")
  <2>1. Moves
    <3>1. VerifyPayment(s) => Moves
      BY DEF VerifyPayment, At
    <3>2. RecordPayment(s) => Moves
      BY DEF RecordPayment, At
    <3>3. ExtendAccess(s) \/ Fails(s) => Moves
      BY DEF ExtendAccess, Fails, At
    <3>4. FindOwner(s) \/ SetNickname(s) => Moves
      BY DEF FindOwner, SetNickname, At
    <3> QED
      BY <1>6, <3>1, <3>2, <3>3, <3>4
  <2>3. \A o \in Slots : task'[o].pc = "createSession" => task'[o] = task[o]
    BY <2>1, Moving, Ending
  <2>2. UNCHANGED <<issued, consumed, minted, sessions>>
    BY <1>6 DEF VerifyPayment, RecordPayment, ExtendAccess, FindOwner, SetNickname, Fails
  <2> QED
    BY <2>2, <2>3, ChallengesKept
<1>7. ASSUME NEW s \in Slots, ConsumeNonce(s) PROVE Challenges'
  <2>1. PICK n \in Nonces : task[s].arg = {n}
    BY <1>7 DEF ConsumeNonce, Arguments, Argument, SigningIn, At
  <2>2. CASE Consumable(n, task[s].wallet, task[s].at)
    <3>1. /\ consumed' = consumed \cup {n}
          /\ task' = [task EXCEPT ![s].pc = "createSession"]
          /\ UNCHANGED <<issued, sessions, minted>>
      BY <1>7, <2>1, <2>2 DEF ConsumeNonce, Goto
    <3>2. n \notin consumed /\ \E c \in issued : c.nonce = n /\ c.wallet = task[s].wallet
      BY <2>2 DEF Consumable
    <3>3. /\ task'[s].pc = "createSession" /\ task'[s].arg = {n}
          /\ task'[s].wallet = task[s].wallet
          /\ \A o \in Slots \ {s} : task'[o] = task[o]
      BY <1>7, <2>1, <3>1 DEF TypeOK, Request, ConsumeNonce, At
    <3>4. \A m \in Nonces : minted[m] \in Nat
      BY DEF TypeOK
    <3>5. \A m \in Nonces : minted'[m] <= (IF m \in consumed' THEN 1 ELSE 0)
      BY <3>1, <3>4 DEF Challenges
    <3>6. minted[n] = 0
      BY <3>2, <3>4 DEF Challenges
    <3>7. \A o \in Slots \ {s} : ~(At(o, "createSession") /\ task[o].arg = {n})
      BY <3>2 DEF Challenges
    <3>8. ASSUME NEW o \in Slots, NEW m \in Nonces,
                 At(o, "createSession")', task'[o].arg = {m}
          PROVE  /\ m \in consumed' /\ minted'[m] = 0
                 /\ \E c \in issued' : c.nonce = m /\ c.wallet = task'[o].wallet
                 /\ \A q \in Slots : At(q, "createSession")' /\ task'[q].arg = {m} => q = o
      <4>1. CASE o = s
        BY <3>1, <3>2, <3>3, <3>6, <3>7, <3>8, <4>1 DEF At
      <4>2. CASE o # s
        BY <3>1, <3>3, <3>7, <3>8, <4>2 DEF At, Challenges
      <4> QED
        BY <4>1, <4>2
    <3> QED
      BY <3>1, <3>5, <3>8 DEF Challenges
  <2>3. CASE ~Consumable(n, task[s].wallet, task[s].at)
    <3>1. UNCHANGED <<issued, consumed, minted, sessions>> /\ task' = [task EXCEPT ![s] = Free]
      BY <1>7, <2>1, <2>3 DEF ConsumeNonce, End
    <3> QED
      BY <3>1, ChallengesKept DEF TypeOK
  <2> QED
    BY <2>2, <2>3
<1>8. ASSUME NEW s \in Slots, CreateSession(s) PROVE Challenges'
  <2>1. PICK n \in Nonces : task[s].arg = {n}
    BY <1>8 DEF CreateSession, Arguments, Argument, SigningIn, At
  <2>2. /\ sessions' = sessions \cup {[nonce |-> n, wallet |-> task[s].wallet,
                                       expires |-> task[s].at + SessionTtl]}
        /\ minted' = [minted EXCEPT ![n] = @ + 1]
        /\ task' = [task EXCEPT ![s] = Free]
        /\ UNCHANGED <<issued, consumed>>
    BY <1>8, <2>1 DEF CreateSession, End
  <2>3. /\ n \in consumed /\ minted[n] = 0
        /\ \E c \in issued : c.nonce = n /\ c.wallet = task[s].wallet
        /\ \A o \in Slots : At(o, "createSession") /\ task[o].arg = {n} => o = s
    BY <1>8, <2>1 DEF CreateSession, Challenges
  <2>4. \A m \in Nonces : minted'[m] <= (IF m \in consumed' THEN 1 ELSE 0)
    BY <2>2, <2>3 DEF Challenges, TypeOK
  <2>5. \A session \in sessions' :
            \E c \in issued' : c.nonce = session.nonce /\ c.wallet = session.wallet
    BY <2>2, <2>3 DEF Challenges
  <2>6. \A o \in Slots : At(o, "createSession")' => o # s /\ task'[o] = task[o]
    BY <2>2 DEF TypeOK, At
  <2>7. \A m \in Nonces \ {n} : minted'[m] = minted[m]
    BY <2>2 DEF TypeOK
  <2>8. ASSUME NEW o \in Slots, NEW m \in Nonces,
               At(o, "createSession")', task'[o].arg = {m}
        PROVE  /\ m \in consumed' /\ minted'[m] = 0
               /\ \E c \in issued' : c.nonce = m /\ c.wallet = task'[o].wallet
               /\ \A q \in Slots : At(q, "createSession")' /\ task'[q].arg = {m} => q = o
    BY <2>2, <2>3, <2>6, <2>7, <2>8 DEF Challenges, At
  <2> QED
    BY <2>4, <2>5, <2>8 DEF Challenges
<1> QED
  BY <1>1, <1>2, <1>3, <1>4, <1>5, <1>6, <1>7, <1>8, StepCases

-----------------------------------------------------------------------------
(* A task that a step changes and does not end has just started, or has run *)
(* one statement and keeps the rest of its state.                           *)
Kept(o) == /\ task'[o].arg = task[o].arg /\ task'[o].wallet = task[o].wallet
           /\ task'[o].nick = task[o].nick /\ task'[o].at = task[o].at

Advanced(o) ==
    \/ ConsumeNonce(o) /\ task'[o].pc = "createSession"
    \/ VerifyPayment(o) /\ task'[o].pc \in {"record", "findOwner"}
    \/ FindOwner(o) /\ task'[o].pc = "setNickname"
    \/ SetNickname(o) /\ task'[o].pc = "record"
    \/ RecordPayment(o) /\ task'[o].pc = "extend"

Started(o) == \/ task'[o].pc \in {"consume", "verifyPayment"}
              \/ task'[o].pc = "findOwner" /\ task'[o].arg = {}

LEMMA TaskSteps ==
  ASSUME TypeOK, [Next]_vars, NEW o \in Slots, task'[o] # task[o], task'[o].pc # "free"
  PROVE  Started(o) \/ (Kept(o) /\ Advanced(o))
<1> USE DEF Free
<1> DEFINE Goal == Started(o) \/ (Kept(o) /\ Advanced(o))
<1>1. CASE Restart
  BY <1>1 DEF Restart
<1>2. ASSUME NEW s \in Slots,
             \/ \E n \in Nonces, w \in Wallets : VerifyRequest(s, n, w)
             \/ \E session \in sessions, x \in Txs : ClaimRequest(s, session, x)
             \/ \E w \in Wallets, nick \in Nicknames : RenameRequest(s, w, nick)
      PROVE  Goal
  BY <1>2 DEF TypeOK, VerifyRequest, ClaimRequest, RenameRequest, Start, Task, Started
<1>3. ASSUME NEW s \in Slots, End(s) PROVE Goal
  BY <1>3, Ending
<1>4. ASSUME NEW s \in Slots, NEW pc, Goto(s, pc), task[s].pc # "free"
      PROVE  o = s /\ Kept(o) /\ task'[o].pc = pc
  BY <1>4, Moving DEF Kept
<1>5. ASSUME NEW s \in Slots, ConsumeNonce(s) PROVE Goal
  <2>1. task[s].pc # "free" /\ (End(s) \/ Goto(s, "createSession"))
    BY <1>5 DEF ConsumeNonce, At
  <2> QED
    BY <1>3, <1>4, <1>5, <2>1 DEF Advanced
<1>6. ASSUME NEW s \in Slots, VerifyPayment(s) PROVE Goal
  <2>1. task[s].pc # "free" /\ (End(s) \/ Goto(s, "record") \/ Goto(s, "findOwner"))
    BY <1>6 DEF VerifyPayment, At
  <2> QED
    BY <1>3, <1>4, <1>6, <2>1 DEF Advanced
<1>7. ASSUME NEW s \in Slots, RecordPayment(s) PROVE Goal
  <2>1. task[s].pc # "free" /\ (Goto(s, "extend") \/ End(s))
    BY <1>7 DEF RecordPayment, At
  <2> QED
    BY <1>3, <1>4, <1>7, <2>1 DEF Advanced
<1>8. ASSUME NEW s \in Slots, FindOwner(s) PROVE Goal
  <2>1. task[s].pc # "free" /\ (Goto(s, "setNickname") \/ End(s))
    BY <1>8 DEF FindOwner, At
  <2> QED
    BY <1>3, <1>4, <1>8, <2>1 DEF Advanced
<1>9. ASSUME NEW s \in Slots, SetNickname(s) PROVE Goal
  <2>1. task[s].pc # "free" /\ (Goto(s, "record") \/ End(s))
    BY <1>9 DEF SetNickname, At
  <2> QED
    BY <1>3, <1>4, <1>9, <2>1 DEF Advanced
<1>10. ASSUME NEW s \in Slots, CreateSession(s) \/ ExtendAccess(s) \/ Fails(s) PROVE Goal
  BY <1>3, <1>10 DEF CreateSession, ExtendAccess, Fails
<1>11. /\ Tick \/ UNCHANGED vars => UNCHANGED task
       /\ \A x \in Txs : Confirm(x) => UNCHANGED task
       /\ \A n \in Nonces, w \in Wallets : IssueNonce(n, w) => UNCHANGED task
       /\ \A session \in sessions : Logout(session) => UNCHANGED task
  BY DEF vars, Tick, Confirm, IssueNonce, Logout
<1> QED
  BY <1>1, <1>2, <1>5, <1>6, <1>7, <1>8, <1>9, <1>10, <1>11, StepCases

(* What happens to payments and what they bought: a claim is recorded, or   *)
(* access extended, or neither.                                             *)
LEMMA ClaimSteps ==
  ASSUME TypeOK, [Next]_vars
  PROVE  /\ sender' = sender /\ confirmed \subseteq confirmed' /\ now' \in Nat /\ now' >= now
         /\ \/ UNCHANGED <<claimed, until>>
            \/ \E s \in Slots : RecordPayment(s) \/ ExtendAccess(s)
<1> USE DEF chainVars, signInVars, profileVars
<1> DEFINE Goal == /\ sender' = sender /\ confirmed \subseteq confirmed' /\ now' \in Nat
                   /\ now' >= now
                   /\ \/ UNCHANGED <<claimed, until>>
                      \/ \E s \in Slots : RecordPayment(s) \/ ExtendAccess(s)
<1>0. now \in Nat
  BY AccessAssumption DEF TypeOK
<1>1. CASE Tick \/ Restart \/ UNCHANGED vars
  BY <1>0, <1>1 DEF Tick, Restart, vars
<1>2. ASSUME \/ \E x \in Txs : Confirm(x)
             \/ \E n \in Nonces, w \in Wallets : IssueNonce(n, w)
             \/ \E session \in sessions : Logout(session)
      PROVE  Goal
  BY <1>0, <1>2 DEF Confirm, IssueNonce, Logout
<1>3. ASSUME NEW s \in Slots,
             \/ \E n \in Nonces, w \in Wallets : VerifyRequest(s, n, w)
             \/ \E session \in sessions, x \in Txs : ClaimRequest(s, session, x)
             \/ \E w \in Wallets, nick \in Nicknames : RenameRequest(s, w, nick)
      PROVE  Goal
  <2>1. UNCHANGED <<now, chainVars, profileVars, claimed>>
    BY <1>3 DEF VerifyRequest, ClaimRequest, RenameRequest
  <2> QED
    BY <1>0, <2>1
<1>4. ASSUME NEW s \in Slots, ConsumeNonce(s) \/ CreateSession(s) \/ Fails(s)
      PROVE  Goal
  BY <1>0, <1>4 DEF ConsumeNonce, CreateSession, Fails
<1>5. ASSUME NEW s \in Slots, VerifyPayment(s) \/ FindOwner(s) \/ SetNickname(s)
      PROVE  Goal
  BY <1>0, <1>5 DEF VerifyPayment, FindOwner, SetNickname
<1>6. ASSUME NEW s \in Slots, RecordPayment(s) \/ ExtendAccess(s) PROVE Goal
  BY <1>0, <1>6 DEF RecordPayment, ExtendAccess
<1> QED
  BY <1>1, <1>2, <1>3, <1>4, <1>5, <1>6, StepCases

(* What the two statements of a claim do.                                   *)
LEMMA Recording ==
  ASSUME TypeOK, Arguments, NEW s \in Slots, RecordPayment(s)
  PROVE  \E x \in Txs :
            /\ task[s].arg = {x} /\ At(s, "record") /\ until' = until /\ now' = now
            /\ \/ /\ claimed[x] = {}
                  /\ claimed' = [claimed EXCEPT ![x] = {task[s].wallet}]
                  /\ At(s, "extend")' /\ Kept(s) /\ \A o \in Slots \ {s} : task'[o] = task[o]
               \/ /\ claimed[x] # {} /\ claimed' = claimed
                  /\ task'[s].pc = "free" /\ \A o \in Slots \ {s} : task'[o] = task[o]
<1>1. PICK x \in Txs : task[s].arg = {x}
  BY DEF RecordPayment, Arguments, Argument, Paying, At
<1>2. At(s, "record") /\ until' = until /\ now' = now
  BY DEF RecordPayment, profileVars
<1>3. \/ /\ claimed[x] = {} /\ claimed' = [claimed EXCEPT ![x] = {task[s].wallet}]
         /\ Goto(s, "extend")
      \/ claimed[x] # {} /\ claimed' = claimed /\ End(s)
  BY <1>1 DEF RecordPayment
<1>4. Goto(s, "extend") =>
         At(s, "extend")' /\ Kept(s) /\ \A o \in Slots \ {s} : task'[o] = task[o]
  BY <1>2, Moving DEF At, Kept
<1> QED
  BY <1>1, <1>2, <1>3, <1>4, Ending

(* verify_payment lets through what the node confirms of the wallet.        *)
LEMMA Verifying ==
  ASSUME TypeOK, NEW s \in Slots, VerifyPayment(s), task'[s].pc # "free",
         NEW x \in Txs, task[s].arg = {x}
  PROVE  x \in confirmed /\ sender[x] = task[s].wallet
BY Ending DEF VerifyPayment

LEMMA PaymentsStep ==
  ASSUME TypeOK, Arguments, Payments, [Next]_vars
  PROVE  Payments'
<1>1. ASSUME NEW s \in Slots, NEW x \in Txs, task'[s].pc \in Verified, task'[s].arg = {x}
      PROVE  x \in confirmed' /\ sender'[x] = task'[s].wallet
  <2>1. x \in confirmed /\ sender[x] = task'[s].wallet
    <3>1. CASE task'[s] = task[s]
      BY <1>1, <3>1 DEF Payments
    <3>2. CASE task'[s] # task[s]
      <4>1. task'[s].pc # "free" /\ ~Started(s)
        BY <1>1 DEF Verified, Naming, Started
      <4>2. Kept(s) /\ Advanced(s)
        BY <3>2, <4>1, TaskSteps
      <4>3. CASE VerifyPayment(s)
        BY <1>1, <4>1, <4>2, <4>3, Verifying DEF Kept
      <4>4. CASE FindOwner(s) \/ SetNickname(s) \/ RecordPayment(s)
        <5>1. task[s].pc \in Verified
          BY <4>4 DEF FindOwner, SetNickname, RecordPayment, At, Verified, Naming
        <5> QED
          BY <1>1, <4>2, <5>1 DEF Payments, Kept
      <4> QED
        BY <1>1, <4>2, <4>3, <4>4 DEF Advanced, Verified, Naming
    <3> QED
      BY <3>1, <3>2
  <2> QED
    BY <2>1, ClaimSteps
<1>2. ASSUME NEW x \in Txs, claimed'[x] # {}
      PROVE  x \in confirmed' /\ claimed'[x] = {sender'[x]}
  <2>1. CASE claimed'[x] = claimed[x]
    BY <1>2, <2>1, ClaimSteps DEF Payments, PaymentsOwn
  <2>2. CASE claimed'[x] # claimed[x]
    <3>1. PICK s \in Slots : RecordPayment(s)
      <4>1. \A s \in Slots : ExtendAccess(s) => claimed' = claimed
        BY DEF ExtendAccess
      <4> QED
        BY <2>2, <4>1, ClaimSteps
    <3>2. task[s].arg = {x} /\ At(s, "record") /\ claimed'[x] = {task[s].wallet}
      BY <2>2, <3>1, Recording DEF TypeOK
    <3>3. x \in confirmed /\ sender[x] = task[s].wallet
      BY <3>2 DEF Payments, Verified, At
    <3> QED
      BY <3>2, <3>3, ClaimSteps
  <2> QED
    BY <2>1, <2>2
<1> QED
  BY <1>1, <1>2 DEF Payments, PaymentsOwn

(* INSERT OR IGNORE is what keeps a second task away from a payment.        *)
LEMMA ExtensionsStep ==
  ASSUME TypeOK, Arguments, Extensions, [Next]_vars
  PROVE  Extensions'
<1>1. ASSUME \A o \in Slots : At(o, "extend")' => task'[o] = task[o], claimed' = claimed
      PROVE  Extensions'
  BY <1>1 DEF Extensions, At
<1>2. ASSUME NEW s \in Slots, RecordPayment(s) PROVE Extensions'
  <2>1. PICK x \in Txs :
            /\ task[s].arg = {x} /\ At(s, "record")
            /\ \/ /\ claimed[x] = {} /\ claimed' = [claimed EXCEPT ![x] = {task[s].wallet}]
                  /\ At(s, "extend")' /\ Kept(s) /\ \A o \in Slots \ {s} : task'[o] = task[o]
               \/ /\ claimed' = claimed
                  /\ task'[s].pc = "free" /\ \A o \in Slots \ {s} : task'[o] = task[o]
    BY <1>2, Recording
  <2>2. CASE claimed' = claimed /\ task'[s].pc = "free"
    BY <1>1, <2>1, <2>2 DEF At
  <2>3. CASE claimed[x] = {} /\ claimed' = [claimed EXCEPT ![x] = {task[s].wallet}] /\ Kept(s)
             /\ \A o \in Slots \ {s} : task'[o] = task[o]
    <3>1. claimed'[x] = {task[s].wallet} /\ \A y \in Txs \ {x} : claimed'[y] = claimed[y]
      BY <2>3 DEF TypeOK
    <3>2. \A o \in Slots : ~(At(o, "extend") /\ task[o].arg = {x})
      BY <2>3 DEF Extensions
    <3>3. ASSUME NEW o \in Slots, NEW y \in Txs, At(o, "extend")', task'[o].arg = {y}
          PROVE  /\ claimed'[y] = {task'[o].wallet}
                 /\ \A q \in Slots : At(q, "extend")' /\ task'[q].arg = {y} => q = o
      <4>1. CASE o = s
        BY <2>1, <2>3, <3>1, <3>2, <3>3, <4>1 DEF Kept, At
      <4>2. CASE o # s
        BY <2>1, <2>3, <3>1, <3>2, <3>3, <4>2 DEF Kept, At, Extensions
      <4> QED
        BY <4>1, <4>2
    <3> QED
      BY <3>3 DEF Extensions
  <2> QED
    BY <2>1, <2>2, <2>3
<1>3. CASE \A s \in Slots : ~RecordPayment(s)
  <2>1. claimed' = claimed
    <3>1. \A s \in Slots : ExtendAccess(s) => claimed' = claimed
      BY DEF ExtendAccess
    <3> QED
      BY <1>3, <3>1, ClaimSteps
  <2>2. \A o \in Slots : At(o, "extend")' => task'[o] = task[o]
    BY <1>3, TaskSteps DEF At, Started, Advanced
  <2> QED
    BY <1>1, <2>1, <2>2
<1> QED
  BY <1>2, <1>3

-----------------------------------------------------------------------------
(* Every task that is to extend the access of a wallet stands for a payment *)
(* of its own that the wallet claimed.                                      *)
LEMMA UnextendedPaid ==
  ASSUME TypeOK, Arguments, Extensions, NEW w \in Wallets
  PROVE  /\ IsFiniteSet(PaidBy(w)) /\ IsFiniteSet(Unextended(w))
         /\ Cardinality(PaidBy(w)) \in Nat /\ Cardinality(Unextended(w)) \in Nat
         /\ Cardinality(Unextended(w)) <= Cardinality(PaidBy(w))
<1> DEFINE f == [s \in Unextended(w) |-> CHOOSE x \in Txs : task[s].arg = {x}]
<1>1. IsFiniteSet(PaidBy(w))
  BY FS_Subset, AccessAssumption DEF PaidBy
<1>2. ASSUME NEW s \in Unextended(w)
      PROVE  f[s] \in Txs /\ task[s].arg = {f[s]} /\ f[s] \in PaidBy(w)
  <2>1. s \in Slots /\ At(s, "extend") /\ task[s].wallet = w
    BY DEF Unextended
  <2>2. f[s] \in Txs /\ task[s].arg = {f[s]}
    BY <2>1 DEF Arguments, Argument, Paying, At
  <2> QED
    BY <2>1, <2>2 DEF Extensions, PaidBy
<1>3. ASSUME NEW s \in Unextended(w), NEW o \in Unextended(w), f[s] = f[o] PROVE s = o
  BY <1>2, <1>3 DEF Unextended, Extensions
<1>4. f \in Injection(Unextended(w), PaidBy(w))
  <2> HIDE DEF f
  <2>1. f \in [Unextended(w) -> PaidBy(w)]
    BY <1>2 DEF f
  <2> QED
    BY <1>3, <2>1 DEF Injection, IsInjective
<1>5. IsFiniteSet(Unextended(w)) /\ Cardinality(Unextended(w)) <= Cardinality(PaidBy(w))
  BY <1>1, <1>4, FS_Injection
<1> QED
  BY <1>1, <1>5, FS_CardinalityType

(* One payment more buys one duration more.                                 *)
LEMMA Durations ==
  ASSUME NEW k \in Nat
  PROVE  /\ Duration \in Nat \ {0} /\ Duration * k \in Nat /\ (Duration * k > 0 <=> k > 0)
         /\ Duration * (k + 1) = Duration * k + Duration
<1>1. Duration \in Nat \ {0}
  BY AccessAssumption
<1> QED
  BY <1>1

LEMMA MoreIsMore ==
  ASSUME NEW k \in Nat, NEW l \in Nat, k <= l
  PROVE  Duration * k <= Duration * l
BY AccessAssumption

(* The access a wallet paid for does not end earlier when its claims, the   *)
(* extensions that are still to come and its access stay as they are, or    *)
(* some of the extensions are given up.                                     *)
LEMMA AccessKept ==
  ASSUME TypeOK, Arguments, Extensions, AccessPaid, NEW w \in Wallets,
         PaidBy(w)' = PaidBy(w), Unextended(w)' \subseteq Unextended(w),
         until'[w] = until[w], now' \in Nat, now' >= now
  PROVE  until'[w] <= IF Bought(w)' > 0 THEN now' + Bought(w)' ELSE 0
<1> DEFINE p == Cardinality(PaidBy(w))
           u == Cardinality(Unextended(w))
           v == Cardinality(Unextended(w)')
<1>1. p \in Nat /\ u \in Nat /\ u <= p
  BY UnextendedPaid
<1>2. v \in Nat /\ v <= u
  BY UnextendedPaid, FS_Subset, FS_CardinalityType
<1>3. Bought(w) = Duration * (p - u) /\ Bought(w)' = Duration * (p - v)
  BY DEF Bought
<1> HIDE DEF p, u, v
<1>4. p - u \in Nat /\ p - v \in Nat /\ p - u <= p - v
  BY <1>1, <1>2
<1>5. Bought(w) \in Nat /\ Bought(w)' \in Nat /\ Bought(w) <= Bought(w)'
  <2>1. \A k \in Nat, l \in Nat : k <= l =>
            Duration * k \in Nat /\ Duration * l \in Nat /\ Duration * k <= Duration * l
    BY Durations, MoreIsMore, Zenon
  <2>2. /\ Duration * (p - u) \in Nat /\ Duration * (p - v) \in Nat
        /\ Duration * (p - u) <= Duration * (p - v)
    BY <1>4, <2>1, Zenon
  <2> QED
    BY <1>3, <2>2, Zenon
<1>6. until[w] \in Nat /\ now \in Nat /\ until[w] <= IF Bought(w) > 0 THEN now + Bought(w) ELSE 0
  BY AccessAssumption DEF TypeOK, AccessPaid
<1> QED
  BY <1>5, <1>6

LEMMA AccessPaidStep ==
  ASSUME TypeOK, Arguments, Extensions, AccessPaid, [Next]_vars
  PROVE  AccessPaid'
<1> SUFFICES ASSUME NEW w \in Wallets
             PROVE  until'[w] <= IF Bought(w)' > 0 THEN now' + Bought(w)' ELSE 0
  BY DEF AccessPaid
<1> DEFINE p == Cardinality(PaidBy(w))
           u == Cardinality(Unextended(w))
<1>0. /\ p \in Nat /\ u \in Nat /\ u <= p /\ p - u \in Nat
      /\ now \in Nat /\ until[w] \in Nat
      /\ until[w] <= IF Duration * (p - u) > 0 THEN now + Duration * (p - u) ELSE 0
  <2>1. p \in Nat /\ u \in Nat /\ u <= p
    BY UnextendedPaid
  <2> QED
    BY <2>1, AccessAssumption DEF TypeOK, AccessPaid, Bought
<1>1. ASSUME NEW s \in Slots, RecordPayment(s)
      PROVE  until'[w] <= IF Bought(w)' > 0 THEN now' + Bought(w)' ELSE 0
  <2>1. PICK x \in Txs :
            /\ task[s].arg = {x} /\ At(s, "record") /\ until' = until /\ now' = now
            /\ \/ /\ claimed[x] = {} /\ claimed' = [claimed EXCEPT ![x] = {task[s].wallet}]
                  /\ At(s, "extend")' /\ Kept(s) /\ \A o \in Slots \ {s} : task'[o] = task[o]
               \/ /\ claimed' = claimed
                  /\ task'[s].pc = "free" /\ \A o \in Slots \ {s} : task'[o] = task[o]
    BY <1>1, Recording
  <2>2. CASE claimed' = claimed /\ task'[s].pc = "free"
    <3>1. PaidBy(w)' = PaidBy(w) /\ Unextended(w)' \subseteq Unextended(w)
      BY <2>1, <2>2 DEF PaidBy, Unextended, At
    <3> QED
      BY <1>0, <2>1, <3>1, AccessKept
  <2>3. CASE /\ claimed[x] = {} /\ claimed' = [claimed EXCEPT ![x] = {task[s].wallet}]
             /\ At(s, "extend")' /\ Kept(s)
    <3>1. claimed'[x] = {task[s].wallet} /\ \A y \in Txs \ {x} : claimed'[y] = claimed[y]
      BY <2>3 DEF TypeOK
    <3>2. x \notin PaidBy(w) /\ s \notin Unextended(w)
      BY <2>1, <2>3 DEF PaidBy, Unextended, At
    <3>3. CASE task[s].wallet = w
      <4>1. PaidBy(w)' = PaidBy(w) \cup {x}
        BY <3>1, <3>3 DEF PaidBy
      <4>2. Unextended(w)' = Unextended(w) \cup {s}
        BY <2>1, <2>3, <3>3 DEF Unextended, Kept, At
      <4>3. Cardinality(PaidBy(w)') = p + 1 /\ Cardinality(Unextended(w)') = u + 1
        BY <3>2, <4>1, <4>2, UnextendedPaid, FS_AddElement
      <4>4. Bought(w)' = Duration * ((p + 1) - (u + 1))
        BY <4>3 DEF Bought
      <4>5. (p + 1) - (u + 1) = p - u
        BY <1>0
      <4>6. Bought(w)' = Duration * (p - u)
        BY <4>4, <4>5
      <4> QED
        BY <1>0, <2>1, <4>6
    <3>4. CASE task[s].wallet # w
      <4>1. PaidBy(w)' = PaidBy(w)
        BY <2>3, <3>1, <3>4 DEF PaidBy
      <4>2. Unextended(w)' = Unextended(w)
        BY <2>1, <2>3, <3>2, <3>4 DEF Unextended, Kept, At
      <4> QED
        BY <1>0, <2>1, <4>1, <4>2, AccessKept
    <3> QED
      BY <3>3, <3>4
  <2> QED
    BY <2>1, <2>2, <2>3
<1>2. ASSUME NEW s \in Slots, ExtendAccess(s)
      PROVE  until'[w] <= IF Bought(w)' > 0 THEN now' + Bought(w)' ELSE 0
  <2>1. /\ At(s, "extend") /\ claimed' = claimed /\ now' = now /\ task'[s].pc = "free"
        /\ until' = [until EXCEPT ![task[s].wallet] = Extended(@, task[s].at)]
        /\ \A o \in Slots \ {s} : task'[o] = task[o]
    BY <1>2, Ending DEF ExtendAccess
  <2>2. PaidBy(w)' = PaidBy(w) /\ Unextended(w)' = Unextended(w) \ {s}
    BY <2>1 DEF PaidBy, Unextended, At
  <2>3. CASE task[s].wallet = w
    <3>1. s \in Unextended(w)
      BY <2>1, <2>3 DEF Unextended
    <3>2. Cardinality(Unextended(w)') = u - 1
      BY <2>2, <3>1, UnextendedPaid, FS_RemoveElement
    <3>3. Bought(w)' = Duration * (p - (u - 1))
      BY <2>2, <3>2 DEF Bought
    <3>4. p - (u - 1) = (p - u) + 1
      BY <1>0
    <3>5. Bought(w)' = Duration * (p - u) + Duration
      BY <1>0, <3>3, <3>4, Durations
    <3>6. task[s].at \in Nat /\ task[s].at <= now
      BY <2>1 DEF TypeOK, Request, Free, At
    <3>7. until'[w] = (IF until[w] >= task[s].at THEN until[w] ELSE task[s].at) + Duration
      BY <1>0, <2>1, <2>3, <3>6, MaxOfTwo DEF TypeOK, Extended
    <3>8. Duration \in Nat \ {0} /\ Duration * (p - u) \in Nat
      BY <1>0, Durations
    <3> HIDE DEF p, u
    <3>9. \A d : d = Duration * (p - u) => until'[w] <= now + d + Duration /\ d + Duration > 0
      BY <1>0, <3>6, <3>7, <3>8
    <3> QED
      BY <2>1, <3>5, <3>8, <3>9, <1>0
  <2>4. CASE task[s].wallet # w
    <3>1. until'[w] = until[w]
      BY <2>1, <2>4 DEF TypeOK
    <3> QED
      BY <1>0, <2>1, <2>2, <3>1, AccessKept
  <2> QED
    BY <2>3, <2>4
<1>3. CASE \A s \in Slots : ~RecordPayment(s) /\ ~ExtendAccess(s)
  <2>1. claimed' = claimed /\ until' = until /\ now' \in Nat /\ now' >= now
    BY <1>3, ClaimSteps
  <2>2. \A o \in Slots : At(o, "extend")' => task'[o] = task[o]
    BY <1>3, TaskSteps DEF At, Started, Advanced
  <2>3. PaidBy(w)' = PaidBy(w) /\ Unextended(w)' \subseteq Unextended(w)
    BY <2>1, <2>2 DEF PaidBy, Unextended, At
  <2> QED
    BY <2>1, <2>3, AccessKept
<1> QED
  BY <1>1, <1>2, <1>3

-----------------------------------------------------------------------------
(* Only the UPSERT of set_wallet_nickname writes a nickname.                *)
LEMMA NicknameSteps ==
  ASSUME [Next]_vars
  PROVE  nickname' = nickname \/ \E s \in Slots : SetNickname(s)
<1> USE DEF profileVars
<1>1. CASE Tick \/ Restart \/ UNCHANGED vars
  BY <1>1 DEF Tick, Restart, vars
<1>2. ASSUME \/ \E x \in Txs : Confirm(x)
             \/ \E n \in Nonces, w \in Wallets : IssueNonce(n, w)
             \/ \E session \in sessions : Logout(session)
      PROVE  nickname' = nickname
  BY <1>2 DEF Confirm, IssueNonce, Logout
<1>3. ASSUME NEW s \in Slots,
             \/ \E n \in Nonces, w \in Wallets : VerifyRequest(s, n, w)
             \/ \E session \in sessions, x \in Txs : ClaimRequest(s, session, x)
             \/ \E w \in Wallets, nick \in Nicknames : RenameRequest(s, w, nick)
      PROVE  nickname' = nickname
  BY <1>3 DEF VerifyRequest, ClaimRequest, RenameRequest
<1>4. ASSUME NEW s \in Slots, ConsumeNonce(s) \/ CreateSession(s) \/ Fails(s)
      PROVE  nickname' = nickname
  BY <1>4 DEF ConsumeNonce, CreateSession, Fails
<1>5. ASSUME NEW s \in Slots,
             VerifyPayment(s) \/ FindOwner(s) \/ RecordPayment(s) \/ ExtendAccess(s)
      PROVE  nickname' = nickname
  BY <1>5 DEF VerifyPayment, FindOwner, RecordPayment, ExtendAccess
<1> QED
  BY <1>1, <1>2, <1>3, <1>4, <1>5, StepCases

LEMMA NicknamesStep ==
  ASSUME TypeOK, NicknamesUnique, [Next]_vars
  PROVE  NicknamesUnique'
<1>1. CASE nickname' = nickname
  BY <1>1 DEF NicknamesUnique
<1>2. ASSUME NEW s \in Slots, SetNickname(s), nickname' # nickname PROVE NicknamesUnique'
  <2>1. /\ UniqueAccepts(task[s].nick, task[s].wallet)
        /\ nickname' = [nickname EXCEPT ![task[s].wallet] = task[s].nick]
    BY <1>2 DEF SetNickname
  <2>2. \A o \in Wallets \ {task[s].wallet} :
            nickname'[o] = nickname[o] /\ nickname[o] # task[s].nick
    BY <2>1 DEF TypeOK, UniqueAccepts
  <2>3. task[s].wallet \in Wallets => nickname'[task[s].wallet] = task[s].nick
    BY <2>1 DEF TypeOK
  <2> QED
    BY <2>2, <2>3 DEF NicknamesUnique
<1> QED
  BY <1>1, <1>2, NicknameSteps

-----------------------------------------------------------------------------
LEMMA InitIInv == Init => IInv
<1> SUFFICES ASSUME Init PROVE IInv
  OBVIOUS
<1>1. TypeOK
  BY AccessAssumption DEF Init, TypeOK, Free
<1>2. \A s \in Slots : task[s].pc = "free"
  BY DEF Init, Free
<1>3. Arguments /\ Challenges /\ Payments /\ Extensions
  BY <1>2 DEF Init, Arguments, Argument, Challenges, Payments, PaymentsOwn, Extensions, At,
              SigningIn, Paying, Naming, Verified
<1>4. NicknamesUnique
  BY DEF Init, NicknamesUnique
<1>5. ASSUME NEW w \in Wallets PROVE until[w] <= IF Bought(w) > 0 THEN now + Bought(w) ELSE 0
  <2>1. PaidBy(w) = {} /\ Unextended(w) = {}
    BY <1>2 DEF Init, PaidBy, Unextended, At
  <2>2. Bought(w) = 0
    BY <2>1, FS_EmptySet, AccessAssumption DEF Bought
  <2> QED
    BY <2>2 DEF Init
<1> QED
  BY <1>1, <1>3, <1>4, <1>5 DEF IInv, AccessPaid

LEMMA NextIInv == IInv /\ [Next]_vars => IInv'
BY TypeStep, ArgumentsStep, ChallengesStep, PaymentsStep, ExtensionsStep, NicknamesStep,
   AccessPaidStep DEF IInv

(* The inductive invariant holds in every reachable state.                  *)
THEOREM Invariance == Spec => []IInv
BY InitIInv, NextIInv, PTL DEF Spec
-----------------------------------------------------------------------------
(* The tables, the chain and the requests under way keep their types.       *)
THEOREM TypeCorrect == Spec => []TypeOK
<1>1. IInv => TypeOK
  BY DEF IInv
<1> QED
  BY <1>1, Invariance, PTL

(* consume_nonce lets one request through, of the wallet the challenge was  *)
(* issued to, and create_session runs once for it: no replay, logout or     *)
(* restart signs anybody in twice with one challenge.                       *)
THEOREM AnsweredOnce == Spec => []ChallengeAnsweredOnce
<1>1. IInv => ChallengeAnsweredOnce
  <2> SUFFICES ASSUME IInv, NEW n \in Nonces PROVE minted[n] <= 1
    BY DEF IInv, Challenges, ChallengeAnsweredOnce
  <2> QED
    BY DEF IInv, TypeOK, Challenges
<1> QED
  BY <1>1, Invariance, PTL

(* claimed_payments never names another wallet than the sender of a         *)
(* confirmed payment, though it is written after verify_payment answered.   *)
THEOREM OwnPaymentsClaimed == Spec => []PaymentsOwn
<1>1. IInv => PaymentsOwn
  BY DEF IInv, Payments
<1> QED
  BY <1>1, Invariance, PTL

(* However claims interleave and are cut short, access_until is never later *)
(* than the payments a wallet claimed allow.                                *)
THEOREM AccessWasPaid == Spec => []AccessPaid
<1>1. IInv => AccessPaid
  BY DEF IInv
<1> QED
  BY <1>1, Invariance, PTL

(* The UNIQUE column keeps nicknames apart when find_nickname_owner found   *)
(* a nickname free for two wallets.                                         *)
THEOREM NicknamesApart == Spec => []NicknamesUnique
<1>1. IInv => NicknamesUnique
  BY DEF IInv
<1> QED
  BY <1>1, Invariance, PTL

(* No statement of any request moves access_until back.                     *)
THEOREM AccessKeepsGrowing == Spec => AccessNeverShrinks
<1>1. ASSUME IInv, [Next]_vars PROVE [\A w \in Wallets : until'[w] >= until[w]]_vars
  <2> SUFFICES ASSUME NEW w \in Wallets PROVE until'[w] >= until[w]
    OBVIOUS
  <2>1. until[w] \in Nat /\ Duration \in Nat
    BY <1>1, AccessAssumption DEF IInv, TypeOK
  <2>2. CASE until' = until
    BY <2>1, <2>2
  <2>3. ASSUME NEW s \in Slots, ExtendAccess(s) PROVE until'[w] >= until[w]
    <3>1. until' = [until EXCEPT ![task[s].wallet] = Extended(@, task[s].at)]
      BY <2>3 DEF ExtendAccess
    <3>2. task[s].at \in Nat
      BY <1>1, <2>3 DEF IInv, TypeOK, Request, Free, ExtendAccess, At
    <3>3. Extended(until[w], task[s].at) >= until[w]
      BY <2>1, <3>2, MaxOfTwo DEF Extended
    <3> QED
      BY <1>1, <2>1, <3>1, <3>3 DEF IInv, TypeOK
  <2>4. \A s \in Slots : RecordPayment(s) => until' = until
    BY DEF RecordPayment, profileVars
  <2> QED
    BY <1>1, <2>2, <2>3, <2>4, ClaimSteps DEF IInv
<1> QED
  BY <1>1, Invariance, PTL DEF Spec, AccessNeverShrinks
=============================================================================
