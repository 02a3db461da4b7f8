------------------------------- MODULE Access -------------------------------
(***************************************************************************)
(* How a connection becomes an authenticated session: the Hello and        *)
(* Authenticate handlers of NetworkService over the registry of devices.   *)
(*                                                                         *)
(* A handler runs without waiting for input or output, so it is one step.  *)
(* A connection has one challenge; a device presents its own session id    *)
(* and token, with the challenge that the last HelloAck told it.           *)
(***************************************************************************)
EXTENDS DeviceRegistry

CONSTANTS Conns,     \* connections at a time (bound)
          MaxHellos  \* HelloAcks with a challenge that are counted (bound)

ASSUME HellosAssumption == MaxHellos \in Nat

VARIABLES
  session,       \* a connection's gateway session
  challenge,     \* its challenge on the receiver
  authChallenge, \* the challenge its sender holds
  echoed,        \* the challenge in its last Authenticate
  answer,        \* the answer to that Authenticate
  authenticated, \* connections with authenticated = true
  granted,       \* permissions of their sessions
  nonces         \* HelloAcks of the connection that carried the challenge

connVars == <<session, challenge, authChallenge, echoed, answer, authenticated, granted,
              nonces>>
vars == <<regVars, connVars>>

Answers == {"none", "AuthOk", "challengeInvalid", "tokenInvalid", "unknownSession"}
Held == {"none", "blank", "nonce"}

TypeOK ==
  /\ RegTypeOK
  /\ session \in [Conns -> {"none", "open", "closing"}]
  /\ challenge \in [Conns -> {"fresh", "spent"}]
  /\ authChallenge \in [Conns -> Held]
  /\ echoed \in [Conns -> Held]
  /\ answer \in [Conns -> Answers]
  /\ authenticated \subseteq Conns
  /\ granted \in [Conns -> SUBSET Permissions]
  /\ nonces \in [Conns -> 0..MaxHellos]

Init ==
  /\ RegInit
  /\ session = [c \in Conns |-> "none"]
  /\ challenge = [c \in Conns |-> "fresh"]
  /\ authChallenge = [c \in Conns |-> "none"]
  /\ echoed = [c \in Conns |-> "none"]
  /\ answer = [c \in Conns |-> "none"]
  /\ authenticated = {}
  /\ granted = [c \in Conns |-> {}]
  /\ nonces = [c \in Conns |-> 0]

\* A session keeps the id drawn when its socket connected: no handler calls
\* setSessionId, and no device's id is drawn again.
SessionId(c) == c

Connects(c) ==
  /\ session[c] = "none"
  /\ session' = [session EXCEPT ![c] = "open"]
  /\ UNCHANGED <<regVars, challenge, authChallenge, echoed, answer, authenticated, granted,
                 nonces>>

\* Faulty variant: the challenge is told and kept.
HelloKeepsChallenge(c) ==
  /\ session[c] # "none"
  /\ nonces[c] < MaxHellos
  /\ authChallenge' = [authChallenge EXCEPT ![c] = "nonce"]
  /\ nonces' = [nonces EXCEPT ![c] = @ + 1]
  /\ UNCHANGED <<regVars, session, challenge, echoed, answer, authenticated, granted>>

\* The challenge is consumed by telling it; a later HelloAck carries a blank.
Hello(c) ==
  /\ session[c] # "none"
  /\ nonces[c] < MaxHellos
  /\ challenge' = [challenge EXCEPT ![c] = "spent"]
  /\ authChallenge' = [authChallenge EXCEPT
                         ![c] = IF challenge[c] = "fresh" THEN "nonce" ELSE "blank"]
  /\ nonces' = [nonces EXCEPT ![c] = IF challenge[c] = "fresh" THEN @ + 1 ELSE @]
  /\ UNCHANGED <<regVars, session, echoed, answer, authenticated, granted>>

\* The middleware's word on device r's token: a revoked device is "invalid" like any other.
VerifyAuthenticate(r) == IF Verifies(r) THEN "ok" ELSE "invalid"

\* The handler's answer to device r: what the consumed challenge is worth, then the
\* token, then a session of that id.
Answer(c, r) ==
  IF challenge[c] # "fresh" \/ authChallenge[c] # "nonce" THEN "challengeInvalid"
  ELSE IF VerifyAuthenticate(r) = "invalid" THEN "tokenInvalid"
  ELSE IF \A d \in Conns : session[d] = "none" \/ SessionId(d) # r THEN "unknownSession"
  ELSE "AuthOk"

\* Faulty variant: a device that is refused may try again on the same connection.
AuthenticateRetries(c, r) ==
  /\ session[c] # "none"
  /\ challenge' = [challenge EXCEPT ![c] = "spent"]
  /\ authChallenge' = [authChallenge EXCEPT ![c] = "none"]
  /\ echoed' = [echoed EXCEPT ![c] = authChallenge[c]]
  /\ answer' = [answer EXCEPT ![c] = Answer(c, r)]
  /\ session' = IF Answer(c, r) = "unknownSession" THEN [session EXCEPT ![c] = "closing"]
                ELSE session
  /\ UNCHANGED <<regVars, authenticated, granted, nonces>>

\* Every answer but AuthOk has the connection closed.
Authenticate(c, r) ==
  /\ session[c] # "none"
  /\ challenge' = [challenge EXCEPT ![c] = "spent"]
  /\ authChallenge' = [authChallenge EXCEPT ![c] = "none"]
  /\ echoed' = [echoed EXCEPT ![c] = authChallenge[c]]
  /\ answer' = [answer EXCEPT ![c] = Answer(c, r)]
  /\ IF Answer(c, r) = "AuthOk"
       THEN LET promoted == {d \in Conns : session[d] # "none" /\ SessionId(d) = r}
            IN  /\ authenticated' = authenticated \cup promoted
                /\ granted' = [d \in Conns |-> IF d \in promoted THEN trusted[r].permissions
                                                ELSE granted[d]]
                /\ UNCHANGED session
       ELSE /\ session' = [session EXCEPT ![c] = "closing"]
            /\ UNCHANGED <<authenticated, granted>>
  /\ UNCHANGED <<regVars, nonces>>

\* The socket closes, by the gateway's close or its peer's; the next one has a new
\* challenge, and its sender nothing to echo.
Disconnects(c) ==
  /\ session[c] # "none"
  /\ session' = [session EXCEPT ![c] = "none"]
  /\ challenge' = [challenge EXCEPT ![c] = "fresh"]
  /\ authChallenge' = [authChallenge EXCEPT ![c] = "none"]
  /\ echoed' = [echoed EXCEPT ![c] = "none"]
  /\ answer' = [answer EXCEPT ![c] = "none"]
  /\ authenticated' = authenticated \ {c}
  /\ granted' = [granted EXCEPT ![c] = {}]
  /\ nonces' = [nonces EXCEPT ![c] = 0]
  /\ UNCHANGED regVars

\* The registry moves on under the connections; a restart's end of them is Disconnects.
RegistryStep ==
  /\ RegNext
  /\ UNCHANGED connVars

Next == \/ RegistryStep
        \/ \E c \in Conns : \/ Connects(c) \/ Hello(c) \/ Disconnects(c)
                            \/ \E r \in Requests : Authenticate(c, r)

Spec == Init /\ [][Next]_vars

-----------------------------------------------------------------------------
(* Properties.                                                             *)

\* "that nonce may be used once" (the Authenticate handler): however many Hellos a
\* sender retries, only one HelloAck of a connection tells the challenge.
ToldOnce == \A c \in Conns : nonces[c] <= 1

\* "AuthFailed ... always ends the connection" (protocol 5.3): a connection that was
\* refused is closing or gone, whatever its sender says in the meantime.
RefusalEnds ==
  \A c \in Conns : answer[c] \notin {"none", "AuthOk"} => session[c] # "open"

\* The challenge is "used exactly once by a successful Authenticate" (FrameContext):
\* a sender that echoes the one HelloAck told it is not refused for its challenge.
RightEchoPasses ==
  \A c \in Conns : echoed[c] = "nonce" => answer[c] # "challengeInvalid"
=============================================================================
