------------------------------ MODULE SiweMessage ------------------------------
(***************************************************************************)
(* The text that a wallet signs to sign in: how auth/siwe.rs and the       *)
(* client's buildSiweMessage write it, and how the server parses it,       *)
(* validates it and compares its signer with the address it names.         *)
(*                                                                         *)
(* A text is a sequence of lines, each of a kind, told by its prefix, with *)
(* a value.  A line that would be of a kind but whose value the parser     *)
(* refuses (an empty field, an address or chain id it cannot read) is of   *)
(* kind "Text", except that a URI line, which ends a statement whatever is *)
(* in it, has value 0.  Values are numbers; time is in seconds, as the     *)
(* server compares it.                                                     *)
(***************************************************************************)
EXTENDS Integers, SequencesExt, FiniteSetsExt

CONSTANTS Addresses,   (* wallets, numbers above 0                            *)
          Hosts,       (* the domains that is_allowed_siwe_domain accepts     *)
          Skew,        (* seconds by which Issued At may be ahead             *)
          MaxTime,     (* bound of the model: the clock stops there           *)
          MaxEdits,    (* bound of the model: lines changed in a text         *)
          Drafts       (* bound of the model: the fields that clients choose  *)

Line(kind, value) == [kind |-> kind, value |-> value]
Blank == Line("Blank", 0)
Required == <<"URI", "Version", "Chain ID", "Nonce", "Issued At">>
Optional == <<"Expiration Time", "Not Before", "Request ID">>

Kinds == {"Header", "Address", "Text", "Blank"} \cup ToSet(Required) \cup ToSet(Optional)
Lines == {l \in [kind : Kinds, value : Nat] : /\ l.kind = "Address" => l.value \in Addresses
                                              /\ l.kind = "Blank" => l = Blank}

(* The fields of a SiweMessage: "required" and "optional" hold the values in *)
(* the order of Required and Optional, an optional one in a set; "statement" *)
(* is a sequence of lines, of any kind but a blank one or a URI.            *)
IsMessage(m) ==
    /\ m = [domain |-> m.domain, address |-> m.address, statement |-> m.statement,
            required |-> m.required, optional |-> m.optional]
    /\ m.domain \in Nat /\ m.address \in Addresses
    /\ m.statement \in Seq({l \in Lines : l.kind \notin {"Blank", "URI"}})
    /\ m.required \in [1 .. 5 -> Nat]
    /\ m.optional \in [1 .. 3 -> SUBSET Nat]
    /\ \A i \in 1 .. 3 : \A v, w \in m.optional[i] : v = w

ASSUME SiweAssumption == /\ Addresses \subseteq Nat \ {0} /\ Hosts \subseteq Nat \ {0}
                         /\ {Skew, MaxTime, MaxEdits} \subseteq Nat
                         /\ \A m \in Drafts : IsMessage(m)

VARIABLES message,    (* the fields the client starts from                    *)
          text,       (* the lines it sends                                   *)
          signature,  (* the wallet that signed and the text it signed, if any*)
          time,       (* Utc::now                                             *)
          edits,      (* changes made to the text, before or after signing    *)
          answers     (* the fields that were accepted, each in a set, or {}  *)

siweVars == <<message, text, signature, time, edits, answers>>

(* Lines that come into a text by a change.                                 *)
Strays == {Blank, Line("Text", 0)}
          \cup {Line("Address", a) : a \in Addresses}
          \cup [kind : {"Header"} \cup ToSet(Required) \cup ToSet(Optional), value : {0}]

(* The line of an optional field, if the message has it.                    *)
OptionalLine(m, i) ==
    IF m.optional[i] = {} THEN <<>> ELSE <<Line(Optional[i], CHOOSE v \in m.optional[i] : TRUE)>>
OptionalLines(m) == OptionalLine(m, 1) \o OptionalLine(m, 2) \o OptionalLine(m, 3)

Heading(m) == <<Line("Header", m.domain), Line("Address", m.address), Blank>>
RequiredLines(m) == [i \in 1 .. 5 |-> Line(Required[i], m.required[i])]

Format(m) == Heading(m)
             \o (IF m.statement = <<>> THEN <<>> ELSE Append(m.statement, Blank))
             \o RequiredLines(m)
             \o OptionalLines(m)
-----------------------------------------------------------------------------
IsAt(lines, i, kind) == i \in DOMAIN lines /\ lines[i].kind = kind

UriIndexAtBlank(lines) ==
    LET stop == {i \in 4 .. Len(lines) : lines[i].kind \in {"Blank", "URI"}}
    IN  IF stop = {} THEN 0 ELSE Min(stop)

(* The index of the URI line, 0 if the statement is not followed by a blank. *)
UriIndex(lines) ==
    LET stop == {i \in 4 .. Len(lines) : lines[i].kind \in {"Blank", "URI"}}
    IN  IF IsAt(lines, 4, "URI") THEN 4
        ELSE IF stop # {} /\ IsAt(lines, Min(stop), "Blank") THEN Min(stop) + 1
        ELSE 0

OptionalValues(tail, kind) == {tail[i].value : i \in {j \in DOMAIN tail : tail[j].kind = kind}}

OnlyKnown(tail) == \A i \in DOMAIN tail : tail[i].kind \in ToSet(Optional)

(* No optional field twice, and no other line.                              *)
TailAllowed(tail) == /\ OnlyKnown(tail)
                     /\ \A i, j \in DOMAIN tail : tail[i].kind = tail[j].kind => i = j

(* parse_siwe_message: {} for an error.                                      *)
Parse(lines) ==
    LET u == UriIndex(lines)
        tail == SubSeq(lines, u + 5, Len(lines))
    IN  IF /\ Len(lines) >= 7
           /\ IsAt(lines, 1, "Header") /\ IsAt(lines, 2, "Address") /\ IsAt(lines, 3, "Blank")
           /\ u # 0
           /\ \A i \in 1 .. 5 : IsAt(lines, u + i - 1, Required[i])
           /\ TailAllowed(tail)
        THEN {[domain |-> lines[1].value, address |-> lines[2].value,
               statement |-> SubSeq(lines, 4, u - 2),
               required |-> [i \in 1 .. 5 |-> lines[u + i - 1].value],
               optional |-> [i \in 1 .. 3 |-> OptionalValues(tail, Optional[i])]]}
        ELSE {}

(* validate_siwe_message; the handler expects no domain and no chain of its  *)
(* own.  A nonce that is too short and a URI of another scheme are 0.       *)
Validate(m, now) ==
    /\ m.domain \in Hosts
    /\ m.required[1] # 0
    /\ m.required[2] = 1
    /\ m.required[3] # 0
    /\ m.required[4] # 0
    /\ m.required[5] <= now + Skew
    /\ \A t \in m.optional[1] : now < t
    /\ \A t \in m.optional[2] : t <= now

RecoverAny(lines, s) == s.address

(* recover_personal_sign_address: the signer if this is the text it signed,  *)
(* else some address that is nobody's.                                      *)
Recover(lines, s) == IF s.text = lines THEN s.address ELSE 0

(* verify_siwe_signature                                                     *)
Verify(lines, s, now) ==
    {m \in Parse(lines) : Validate(m, now) /\ Recover(lines, s) = m.address}
-----------------------------------------------------------------------------
SiweInit == /\ message \in Drafts
            /\ text = Format(message)
            /\ signature = {}
            /\ time = 0
            /\ edits = 0
            /\ answers = <<>>

SiweTick == /\ time < MaxTime /\ answers = <<>>
            /\ time' = time + 1
            /\ UNCHANGED <<message, text, signature, edits, answers>>

Sign(a) == /\ signature = {}
           /\ signature' = {[address |-> a, text |-> text]}
           /\ UNCHANGED <<message, text, time, edits, answers>>

(* Another client writes the text in its own way, or it is changed on the    *)
(* way: a line is left out, added, or moved.                                 *)
Edit == /\ edits < MaxEdits /\ answers = <<>>
        /\ edits' = edits + 1
        /\ \/ \E i \in DOMAIN text : text' = RemoveAt(text, i)
           \/ \E i \in 1 .. Len(text) + 1, line \in Strays : text' = InsertAt(text, i, line)
           \/ \E i \in 1 .. Len(text) - 1 :
                  text' = [text EXCEPT ![i] = text[i + 1], ![i + 1] = text[i]]
        /\ UNCHANGED <<message, signature, time, answers>>

Submit == /\ answers = <<>>
          /\ \E s \in signature : answers' = <<Verify(text, s, time)>>
          /\ UNCHANGED <<message, text, signature, time, edits>>

SiweNext == SiweTick \/ (\E a \in Addresses : Sign(a)) \/ Edit \/ Submit

SiweSpec == SiweInit /\ [][SiweNext]_siweVars
-----------------------------------------------------------------------------
(* The text says what m says: the optional fields in any order, each once,  *)
(* and an empty statement with its blank line or without.                   *)
Says(lines, m) ==
    \E s \in IF m.statement = <<>> THEN {<<>>, <<Blank>>} ELSE {Append(m.statement, Blank)} :
    \E n \in 0 .. Len(lines) :
        /\ SubSeq(lines, 1, n) = Heading(m) \o s \o RequiredLines(m)
        /\ LET tail == SubSeq(lines, n + 1, Len(lines))
           IN  ToSet(tail) = ToSet(OptionalLines(m)) /\ IsInjective(tail)

(* What is accepted is what was signed: the wallet that the text names       *)
(* signed this very text, and the text holds nothing but the fields that the *)
(* server read, whatever lines were added, left out or moved.               *)
SignedAsRead == \A i \in DOMAIN answers : \A m \in answers[i] :
                    /\ signature = {[address |-> m.address, text |-> text]}
                    /\ Says(text, m)

(* The server reads what the client writes: a text in order, signed by its   *)
(* wallet and sent in time, is accepted with the fields it was written from.*)
OwnTextAccepted ==
    \A i \in DOMAIN answers :
        /\ edits = 0
        /\ \E s \in signature : s.address = message.address
        /\ Validate(message, time)
        => answers[i] = {message}
============================================================================
