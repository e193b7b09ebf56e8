------------------------------ MODULE PaymentCheck ------------------------------
(***************************************************************************)
(* How auth/payment.rs reads the node's answer about a payment: the batch  *)
(* of two calls, whose items come in any order, hexadecimal quantities     *)
(* that are to fit u128, and what makes a transfer a payment.              *)
(*                                                                         *)
(* Digits of a quantity are a sequence of numbers below 16; a wallet is    *)
(* its name.  Texts that are no quantity at all are the empty sequence.    *)
(***************************************************************************)
EXTENDS Integers, SequencesExt

CONSTANTS Payer, Recipient,  (* wallets of the session and of the project      *)
          Others,            (* other wallets                                 *)
          NoWallet,          (* no recipient: the transfer creates a contract *)
          Digits,            (* digits that fit the type: 32 for u128         *)
          MinWei,            (* min_payment_wei                               *)
          Quantities,        (* bound of the model: quantities the node sends *)
          MaxItems           (* bound of the model: items of its answer       *)

ASSUME PaymentAssumption == /\ Digits \in Nat \ {0} /\ MinWei \in Nat /\ MaxItems \in Nat
                            /\ Quantities \subseteq Seq(0 .. 15)

VARIABLES items,   (* the node's answer, as far as it was received            *)
          verdict  (* the verified amount in a sequence, <<>> while or if not *)

paymentVars == <<items, verdict>>

(* What an item can hold: null, an error, a transaction or a receipt.  A     *)
(* receipt without a status counts as one of status 0x0.                    *)
Transfers == [from : {Payer} \cup Others, to : {Recipient, NoWallet} \cup Others, value : Quantities]
Items == [id : {1}, error : {FALSE}, transfers : {{}} \cup {{t} : t \in Transfers}, statuses : {{}}]
         \cup [id : {2}, error : {FALSE}, transfers : {{}}, statuses : {{}} \cup {{q} : q \in Quantities}]
         \cup [id : {1, 2, 3}, error : {TRUE}, transfers : {{}}, statuses : {{}}]
         \cup [id : {3}, error : {FALSE}, transfers : {{}}, statuses : {{}}]

(* The number that digits stand for: that of the digits up to the last.      *)
ValueOf(digits) ==
    LET upTo[k \in 0 .. Len(digits)] == IF k = 0 THEN 0 ELSE upTo[k - 1] * 16 + digits[k]
    IN  upTo[Len(digits)]

ParseHexWrapping(digits) == IF digits = <<>> THEN {} ELSE {ValueOf(digits) % 16^Digits}

(* parse_hex_wei: leading zeros are stripped, what does not fit is refused; *)
(* the result is a set with at most one number.                             *)
ParseHexWei(digits) ==
    LET first == SelectInSeq(digits, LAMBDA d : d # 0)
        stripped == IF first = 0 THEN <<>> ELSE SubSeq(digits, first, Len(digits))
    IN  IF digits = <<>> \/ Len(stripped) > Digits THEN {} ELSE {ValueOf(stripped)}

(* validate_rpc_payment: the amount of the payment, if it is one.           *)
Validated(transfers, statuses) ==
    UNION {UNION {{wei \in ParseHexWei(t.value) :
                       /\ ParseHexWei(q) = {1}
                       /\ t.to = Recipient
                       /\ t.from = Payer
                       /\ wei >= MinWei} : q \in statuses} : t \in transfers}

(* The loop over the items of the answer: a null leaves what was read        *)
(* before, another id is passed over, an error refuses all.                 *)
Latest(parts) ==
    UNION {parts[i] : i \in {k \in DOMAIN parts : \A l \in DOMAIN parts : l > k => parts[l] = {}}}

Read == [error |-> \E i \in DOMAIN items : items[i].error,
         transfers |-> Latest([i \in DOMAIN items |-> items[i].transfers]),
         statuses |-> Latest([i \in DOMAIN items |-> items[i].statuses])]
-----------------------------------------------------------------------------
PaymentInit == items = <<>> /\ verdict = <<>>

Receive == /\ verdict = <<>> /\ Len(items) < MaxItems
           /\ \E item \in Items : items' = Append(items, item)
           /\ UNCHANGED verdict

VerifyPayment == /\ verdict = <<>> /\ items # <<>>
                 /\ verdict' = <<IF Read.error THEN {} ELSE Validated(Read.transfers, Read.statuses)>>
                 /\ UNCHANGED items

PaymentNext == Receive \/ VerifyPayment

PaymentSpec == PaymentInit /\ [][PaymentNext]_paymentVars
-----------------------------------------------------------------------------
(* A payment counts only if no part of the answer is an error, the node has  *)
(* a receipt of status one, and a transfer from the session's wallet to the  *)
(* project's, of the very amount that is granted and no less than the        *)
(* minimum, however long its digits are and in whatever order the items came.*)
PaidEnough ==
    \A i \in DOMAIN verdict : \A wei \in verdict[i] :
        /\ \A item \in ToSet(items) : ~item.error
        /\ \E item \in ToSet(items) : \E q \in item.statuses : ValueOf(q) = 1
        /\ \E item \in ToSet(items) : \E t \in item.transfers :
               t.from = Payer /\ t.to = Recipient /\ ValueOf(t.value) = wei /\ wei >= MinWei
============================================================================
