------------------------------- MODULE RateLimit -------------------------------
(***************************************************************************)
(* The limiter of the messages of one connection:                          *)
(* ChatSessionState::is_rate_limited of chat/service.rs, which keeps the   *)
(* times of the messages it let through.                                   *)
(*                                                                         *)
(* A session is a connection's: who reconnects starts anew.                *)
(***************************************************************************)
EXTENDS Integers, SequencesExt

CONSTANTS RateWindow,   (* RATE_LIMIT_WINDOW                                  *)
          MaxPerWindow, (* RATE_LIMIT_MAX_MESSAGES                            *)
          MaxClock,     (* bound of the model: the clock stops there          *)
          MaxSent       (* bound of the model: messages sent                  *)

ASSUME RateAssumption == {RateWindow, MaxPerWindow, MaxClock, MaxSent} \subseteq Nat \ {0}

VARIABLES clock,     (* Instant::now                                          *)
          stamps,    (* message_timestamps                                    *)
          verdicts   (* history: when messages were sent and if they passed   *)

rateVars == <<clock, stamps, verdicts>>

RateInit == clock = 0 /\ stamps = <<>> /\ verdicts = <<>>

RateTick == /\ clock < MaxClock
            /\ clock' = clock + 1
            /\ UNCHANGED <<stamps, verdicts>>

RecentStrictly(now) == SelectSeq(stamps, LAMBDA t : now - t < RateWindow)

(* What is left of the times when those too old are taken off the front.    *)
Recent(now) ==
    LET young == {i \in DOMAIN stamps : now - stamps[i] <= RateWindow}
    IN  IF young = {} THEN <<>> ELSE SubSeq(stamps, Min(young), Len(stamps))

(* A refused message leaves no time behind.                                 *)
Send == LET passed == Len(Recent(clock)) < MaxPerWindow
        IN  /\ Len(verdicts) < MaxSent
            /\ stamps' = IF passed THEN Append(Recent(clock), clock) ELSE Recent(clock)
            /\ verdicts' = Append(verdicts, [at |-> clock, passed |-> passed])
            /\ UNCHANGED clock

RateNext == RateTick \/ Send

RateSpec == RateInit /\ [][RateNext]_rateVars
-----------------------------------------------------------------------------
(* The messages that passed before the i-th within the window that ends with *)
(* it.                                                                      *)
PassedBefore(i) == {j \in 1 .. i - 1 : /\ verdicts[j].passed
                                       /\ verdicts[i].at - verdicts[j].at <= RateWindow}

(* The limiter is a sliding window: a message passes exactly if fewer than   *)
(* MaxPerWindow passed in the window that ends with it.  So no window lets   *)
(* more through, and refused messages do not prolong the wait.              *)
SlidingWindow == \A i \in DOMAIN verdicts :
                     verdicts[i].passed <=> Cardinality(PassedBefore(i)) < MaxPerWindow
============================================================================
