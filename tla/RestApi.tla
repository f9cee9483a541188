------------------------------- MODULE RestApi -------------------------------
(***************************************************************************)
(* The HTTP client every program uses (pkg/restapi): what one call of it   *)
(* can come to, on both sides.  The peer and the wire are external: the    *)
(* peer is down or speaks https or http, answers with a status, and the    *)
(* body of the answer arrives in one piece or not.                         *)
(***************************************************************************)
EXTENDS Naturals

Peers == {"down", "https", "http"}

\* One answer of a peer: a body of the given length, of which the first Read
\* returns arrived bytes.
Answers == [peer : Peers, status : {200, 500}, length : 0..2, arrived : 0..2, typed : BOOLEAN]

\* Client.doUrl: the peer is reached, or it gave an HTTP response to an HTTPS
\* client, or there is another error.
doUrl(scheme, peer) ==
    CASE peer = "down" -> "unableToConnect"
      [] peer = scheme -> "response"
      [] OTHER -> "invalidScheme"

\* Client.do: https first, and http only when the scheme was wrong.
do(peer) ==
    IF doUrl("https", peer) = "invalidScheme" THEN doUrl("http", peer) ELSE doUrl("https", peer)

\* parseBody reads once: a body that comes in pieces is an error.
parseBody(answer) == answer.length > 0 => answer.arrived = answer.length

\* parseResponse, and the parsers of JSON and strings built on it.
parseResponse(answer) == parseBody(answer) /\ answer.status = 200 /\ answer.typed

\* What a call comes to: whether the peer has handled it, and whether the
\* caller gets its result.
Outcome(answer) ==
    [served |-> do(answer.peer) = "response" /\ answer.status = 200,
     ok     |-> do(answer.peer) = "response" /\ parseResponse(answer)]

CallOutcomes == {Outcome(answer) : answer \in Answers}

==============================================================================
