----------------------------- MODULE MCServerChecks -----------------------------
(* Model checking of the parts of the server that decide by themselves:     *)
(* RateLimit, PromptQueue, SiweMessage and PaymentCheck, one at a time.     *)
EXTENDS RateLimit, PromptQueue, SiweMessage, PaymentCheck

CONSTANTS p1, p2

VARIABLE part  (* the module whose steps a behaviour takes                  *)

(* One text without a statement or optional fields, one with a statement    *)
(* and a clock that is ahead, one with both optional times, and one of a    *)
(* host that is not the server's.                                           *)
Fields(host, statement, issued, optional) ==
    [domain |-> host, address |-> 1, statement |-> statement,
     required |-> <<1, 1, 1, 1, issued>>, optional |-> optional]

MCDrafts == {Fields(1, <<>>, 0, <<{}, {}, {}>>),
             Fields(1, <<Line("Text", 0)>>, 1, <<{}, {}, {}>>),
             Fields(1, <<>>, 0, <<{2}, {1}, {}>>),
             Fields(0, <<Line("Text", 0), Line("Nonce", 0)>>, 0, <<{}, {}, {1}>>)}

(* Zero, one with and without leading zeros, the largest number that fits,  *)
(* and numbers that do not fit, one of which is one when its high digits    *)
(* are lost.                                                                *)
MCQuantities == {<<>>, <<0>>, <<1>>, <<0, 0, 1>>, <<15, 15>>, <<1, 0, 1>>}

MCInit == /\ part \in {"rate", "prompts", "siwe", "payment"}
          /\ RateInit /\ PromptInit /\ PaymentInit
          /\ SiweInit
          /\ part # "siwe" => message.statement = <<>> /\ message.optional[1] = {}

MCNext == /\ UNCHANGED part
          /\ \/ part = "rate" /\ RateNext /\ UNCHANGED <<promptVars, siweVars, paymentVars>>
             \/ part = "prompts" /\ PromptNext /\ UNCHANGED <<rateVars, siweVars, paymentVars>>
             \/ part = "siwe" /\ SiweNext /\ UNCHANGED <<rateVars, promptVars, paymentVars>>
             \/ part = "payment" /\ PaymentNext /\ UNCHANGED <<rateVars, promptVars, siweVars>>

MCSpec == MCInit /\ [][MCNext]_<<part, rateVars, promptVars, siweVars, paymentVars>>
============================================================================
