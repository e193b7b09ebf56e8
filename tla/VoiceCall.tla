------------------------------- MODULE VoiceCall -------------------------------
(***************************************************************************)
(* The voice client of one browser (assets/js/chat/voice/) and the server  *)
(* of VoiceRooms, joined by the frames between them.                       *)
(*                                                                         *)
(* A call is the local stream and the peer connection that joinVoice makes *)
(* when the microphone is granted; the client's state refers to one call   *)
(* at most, the calls it has lost sight of live on.  The client tells      *)
(* answers apart by nothing: request ids are ignored.  Other participants  *)
(* may fill the room at any time.  ICE candidates are left out: one that   *)
(* comes too late is answered like an offer that comes too late.           *)
(***************************************************************************)
EXTENDS VoiceRooms, SequencesExt

CONSTANTS Me,        (* the connection of the browser                       *)
          MaxCalls,  (* bound of the model: clicks on join                  *)
          Decoding   (* bound of the model: frames decoded at a time        *)

ASSUME CallAssumption == /\ Me \in Conns
                         /\ MaxCalls \in Nat
                         /\ Decoding \in Nat \ {0}

VARIABLES online,      (* the socket is open, as far as the client knows    *)
          asking,      (* requests for the microphone without an answer     *)
          call,        (* the call of the client's state, 0 if none         *)
          begun,       (* calls made so far                                 *)
          live,        (* calls whose stream and peer are not closed        *)
          pending,     (* promises of their peers: 0 that of the offer, or  *)
                       (* the call whose answer is being applied            *)
          applied,     (* the call whose answer was applied to a call       *)
          isMuted, silent,  (* the flag, and the calls whose track is off   *)
          up, down,    (* frames to the server and to the client            *)
          asked,       (* the calls whose offers the server negotiates      *)
          answered,    (* VoiceOfferReady messages, in order                *)
          hasty,       (* history: joined twice at once or left unanswered  *)
          erred        (* history: a voice error was received               *)

peerVars == <<live, pending, applied>>
micVars == <<asking, isMuted, silent>>
clientVars == <<online, call, begun, peerVars, micVars, hasty, erred>>
serverVars == <<vars, asked, answered>>
callVars == <<serverVars, clientVars, up, down>>

Calls == 1 .. MaxCalls
Frames == {"join", "offer", "leave", "answer", "error"} \X (0 .. MaxCalls)

CallTypeOK == /\ online \in BOOLEAN
              /\ asking \in 0 .. MaxCalls
              /\ call \in 0 .. begun /\ begun \in 0 .. MaxCalls
              /\ live \subseteq 1 .. begun
              /\ call # 0 => call \in live
              /\ pending \subseteq live \X (0 .. MaxCalls)
              /\ applied \in [Calls -> 0 .. MaxCalls]
              /\ isMuted \in BOOLEAN /\ silent \subseteq live
              /\ up \in Seq(Frames) /\ down \in Seq(Frames)
              /\ asked \subseteq Calls /\ answered \in Seq(Calls)
              /\ negotiating[Me] = Cardinality(asked)
              /\ ready[Me] = Len(answered)

CallInit == /\ Init
            /\ online = FALSE
            /\ asking = 0 /\ call = 0 /\ begun = 0
            /\ live = {} /\ pending = {}
            /\ applied = [c \in Calls |-> 0]
            /\ isMuted = FALSE /\ silent = {}
            /\ up = <<>> /\ down = <<>>
            /\ asked = {} /\ answered = <<>>
            /\ hasty = FALSE /\ erred = FALSE
-----------------------------------------------------------------------------
(* The client.  A frame for a closed socket is refused with a message.      *)
Send(frames) == up' = IF online THEN up \o frames ELSE up

(* leaveVoice, called when the promise of a call is done, if any.  What is  *)
(* pending on a closed peer never settles.                                  *)
LeaveVoiceWith(sendLeave, done, closed) ==
    /\ IF sendLeave /\ call # 0 THEN Send(<< <<"leave", call>> >>) ELSE UNCHANGED up
    /\ live' = live \ closed
    /\ silent' = silent \ closed
    /\ pending' = {p \in pending \ done : p[1] \notin closed}
    /\ call' = 0
    /\ isMuted' = FALSE
    /\ UNCHANGED applied

(* Mutants: the server is not told, the stream is not stopped.              *)
LeaveVoiceSilently(sendLeave, done) == LeaveVoiceWith(FALSE, done, {call})
LeaveVoiceLive(sendLeave, done) == LeaveVoiceWith(sendLeave, done, {})

LeaveVoice(sendLeave, done) == LeaveVoiceWith(sendLeave, done, {call})

Connect == /\ Open(Me)
           /\ online' = TRUE
           /\ UNCHANGED <<asked, answered, call, begun, peerVars, micVars, hasty, erred, up, down>>

(* onclose: CHAT_UI_JOINED without a sender.                                *)
Close == /\ online
         /\ online' = FALSE
         /\ LeaveVoice(FALSE, {})
         /\ UNCHANGED <<serverVars, down, begun, asking, hasty, erred>>

(* The button of a client in a call is hidden, and joinVoice returns.       *)
(* Mutant: it does not.                                                     *)
MayAskAgain == TRUE
MayAsk == call = 0

ClickJoin == /\ online
             /\ MayAsk
             /\ begun + asking < MaxCalls
             /\ asking' = asking + 1
             /\ hasty' = (hasty \/ asking > 0)
             /\ UNCHANGED <<serverVars, online, call, begun, peerVars, isMuted, silent, erred, up, down>>

(* getUserMedia resolves: the stream, the frame and the peer, whatever the  *)
(* state has become meanwhile.                                              *)
Granted == LET new == begun + 1
           IN  /\ asking > 0
               /\ asking' = asking - 1
               /\ begun' = new
               /\ call' = new
               /\ live' = live \cup {new}
               /\ pending' = pending \cup {<<new, 0>>}
               /\ Send(<< <<"join", new>> >>)
               /\ UNCHANGED <<serverVars, online, applied, isMuted, silent, hasty, erred, down>>

(* ... or rejects, which is told from a failed offer by the lack of a peer. *)
Denied == /\ asking > 0
          /\ asking' = asking - 1
          /\ IF call = 0 THEN UNCHANGED <<call, peerVars, isMuted, silent, up>> ELSE LeaveVoice(TRUE, {})
          /\ UNCHANGED <<serverVars, online, begun, hasty, erred, down>>

OfferCreated(c) == /\ <<c, 0>> \in pending
                   /\ pending' = pending \ {<<c, 0>>}
                   /\ Send(<< <<"offer", c>> >>)
                   /\ UNCHANGED <<serverVars, online, call, begun, live, applied, micVars, hasty,
                                  erred, down>>

(* createOffer, setLocalDescription or setRemoteDescription of a peer       *)
(* rejects: the present call is left, whosever peer it was.                 *)
Rejected(p) == /\ p \in pending
               /\ LeaveVoice(TRUE, {p})
               /\ UNCHANGED <<serverVars, online, begun, asking, hasty, erred, down>>

(* The ICE state of a peer that was answered becomes failed.                *)
IceFails(c) == /\ c \in live
               /\ applied[c] # 0
               /\ LeaveVoice(TRUE, {})
               /\ UNCHANGED <<serverVars, online, begun, asking, hasty, erred, down>>

ClickLeave == /\ online
              /\ call # 0
              /\ LeaveVoice(TRUE, {})
              /\ hasty' = (hasty \/ applied[call] = 0)
              /\ UNCHANGED <<serverVars, online, begun, asking, erred, down>>

ToggleMute == /\ online /\ call # 0
              /\ isMuted' = ~isMuted
              /\ silent' = IF isMuted THEN silent \ {call} ELSE silent \cup {call}
              /\ UNCHANGED <<serverVars, online, call, begun, asking, peerVars, hasty, erred, up, down>>

(* Frames are decoded by promises of their own.                             *)
Decoded(i, kind) == /\ i \in 1 .. (IF Len(down) < Decoding THEN Len(down) ELSE Decoding)
                    /\ down[i][1] = kind
                    /\ down' = RemoveAt(down, i)

ReceiveAnswer(i) == /\ Decoded(i, "answer")
                    /\ pending' = IF call = 0 THEN pending
                                              ELSE pending \cup {<<call, down[i][2]>>}
                    /\ UNCHANGED <<serverVars, online, call, begun, live, applied, micVars, hasty,
                                   erred, up>>

(* setRemoteDescription: once per peer, after its own offer.                *)
AnswerApplied(c, a) == /\ a # 0 /\ <<c, a>> \in pending
                       /\ <<c, 0>> \notin pending
                       /\ applied[c] = 0
                       /\ pending' = pending \ {<<c, a>>}
                       /\ applied' = [applied EXCEPT ![c] = a]
                       /\ UNCHANGED <<serverVars, online, call, begun, live, micVars, hasty, erred, up,
                                      down>>

(* Mutant: an error does not end the call.                                  *)
ReceiveErrorKept(i) ==
    /\ Decoded(i, "error")
    /\ erred' = TRUE
    /\ UNCHANGED <<serverVars, online, call, begun, peerVars, micVars, hasty, up>>

ReceiveError(i) == /\ Decoded(i, "error")
                   /\ erred' = TRUE
                   /\ LeaveVoice(FALSE, {})
                   /\ UNCHANGED <<serverVars, online, begun, asking, hasty>>

Browser == \/ Connect \/ Close
           \/ ClickJoin \/ Granted \/ Denied \/ ClickLeave \/ ToggleMute
           \/ \E c \in Calls : OfferCreated(c) \/ IceFails(c)
           \/ \E p \in pending : Rejected(p) \/ AnswerApplied(p[1], p[2])
           \/ \E i \in 1 .. Decoding : ReceiveAnswer(i) \/ ReceiveError(i)
-----------------------------------------------------------------------------
(* The server, its actor taking the frames in order.                        *)
Read(kind) == /\ up # <<>>
              /\ Head(up)[1] = kind
              /\ Idle(Me)
              /\ up' = Tail(up)
              /\ UNCHANGED <<clientVars, answered>>

Reply(kind, c) == down' = IF online THEN Append(down, <<kind, c>>) ELSE down

(* Refused: in voice already, or the call is full.                          *)
ServerJoin == /\ Read("join")
              /\ \/ VoiceJoin(Me) /\ UNCHANGED down
                 \/ Reply("error", 0) /\ UNCHANGED vars
              /\ UNCHANGED asked

ServerOffer == /\ Read("offer")
               /\ IF Me \in inVoice
                    THEN VoiceOffer(Me) /\ asked' = asked \cup {Head(up)[2]} /\ UNCHANGED down
                    ELSE Reply("error", 0) /\ UNCHANGED <<vars, asked>>

ServerLeave == /\ Read("leave")
               /\ VoiceLeave(Me) \/ (Me \notin inVoice /\ UNCHANGED vars)
               /\ UNCHANGED <<asked, down>>

(* VoiceOfferFailed, which a running actor answers with an error.           *)
NegotiationFails(c) == /\ c \in asked
                       /\ asked' = asked \ {c}
                       /\ OfferFails(Me)
                       /\ IF Me \in alive THEN Reply("error", 0) ELSE UNCHANGED down
                       /\ UNCHANGED <<clientVars, up, answered>>

NegotiationEnds(c) == /\ c \in asked
                      /\ asked' = asked \ {c}
                      /\ Negotiated(Me)
                      /\ answered' = IF ready'[Me] > ready[Me] THEN Append(answered, c) ELSE answered
                      /\ UNCHANGED <<clientVars, up, down>>

(* The answer of whichever offer is sent to whichever call is in voice.     *)
ServerAnswer == /\ answered # <<>>
                /\ OfferReady(Me)
                /\ answered' = Tail(answered)
                /\ IF Me \in inVoice THEN Reply("answer", Head(answered)) ELSE UNCHANGED down
                /\ UNCHANGED <<clientVars, up, asked>>

ActorStops == /\ Stop(Me)
              /\ answered' = <<>>
              /\ UNCHANGED <<clientVars, up, down, asked>>

Background == /\ Broadcast(Me) \/ \E k \in Keys : LeaveRoom(k)
              /\ UNCHANGED <<clientVars, up, down, asked, answered>>

Server == \/ ServerJoin \/ ServerOffer \/ ServerLeave \/ ServerAnswer \/ ActorStops \/ Background
          \/ \E c \in Calls : NegotiationFails(c) \/ NegotiationEnds(c)

CallNext == Browser \/ Server
CallSafety == CallInit /\ [][CallNext]_callVars

(* Frames arrive, promises settle, an actor takes the next message, tasks   *)
(* and jobs end.  Nothing is assumed of the user and of the microphone.     *)
Fairness ==
    /\ WF_callVars(ServerJoin \/ ServerOffer \/ ServerLeave)
    /\ WF_callVars(ServerAnswer)
    /\ WF_callVars(Background)
    /\ \A c \in Calls : WF_callVars(NegotiationFails(c) \/ NegotiationEnds(c))
    /\ \A c \in Calls, a \in 0 .. MaxCalls :
           WF_callVars(OfferCreated(c) \/ Rejected(<<c, a>>) \/ AnswerApplied(c, a))
    /\ WF_callVars(ReceiveAnswer(1) \/ ReceiveError(1))

CallSpec == CallSafety /\ Fairness
-----------------------------------------------------------------------------
(* No frame, promise, task or message is under way.                         *)
AllSettled == /\ online /\ Me \in alive /\ step[Me] = "idle"
              /\ up = <<>> /\ down = <<>>
              /\ asking = 0 /\ pending = {}
              /\ asked = {} /\ answered = <<>>

(* A browser in a call is in the call of the server once all has settled,   *)
(* and if its own offer was answered the server holds its peer: a call is   *)
(* never kept that the server refused, ended or forgot (leaveVoice).        *)
InCallOnServer == AllSettled /\ call # 0 => /\ Me \in inVoice
                                            /\ applied[call] = call => Me \in attached

(* The server keeps a session in voice that the browser has left only after *)
(* an error: every other way out sends VOICE_LEAVE (leaveVoice(true)).      *)
GhostOnlyAfterError == AllSettled /\ call = 0 /\ Me \in inVoice => erred

(* A user who clicks join once and leaves only when connected has no         *)
(* microphone open but that of the call, muted as the button shows (isMuted).*)
MicAsShown == ~hasty => /\ live \subseteq {call}
                        /\ call # 0 => (isMuted <=> call \in silent)

(* ... and applies to a peer only the answer to that peer's own offer, until *)
(* there is an error.  VOICE_ANSWER is matched by nothing.                  *)
OwnAnswer == ~hasty /\ ~erred => \A c \in Calls : applied[c] \in {0, c}

(* A call is answered or ends, unless the lock of VOICE_GST is poisoned     *)
(* (whose panic leaves the client without an answer).                       *)
CallSettles == \A c \in Calls :
    call = c ~> call # c \/ applied[c] # 0 \/ poisoned \/ hasty \/ ~online \/ Me \notin alive
-----------------------------------------------------------------------------
(* voice/index.ts: after an error there is no matching server-side state.   *)
NoGhost == AllSettled /\ call = 0 => Me \notin inVoice

(* VOICE-70: the microphone is released when leaving the call.              *)
LeaveReleasesMic == [][ClickLeave => live' = {}]_callVars
=============================================================================
