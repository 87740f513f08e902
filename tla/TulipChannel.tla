---------------------------- MODULE TulipChannel ----------------------------
(***************************************************************************)
(* The 0MQ connection between KELORobile clients (REQ sockets) and the     *)
(* TulipServer (a REP socket), as the two use it.  A request is a call: a  *)
(* client, the session (socket) it was made in, its number among the       *)
(* client's calls, and its message class.  TCP loses and duplicates        *)
(* nothing; the REP socket takes waiting requests from its peers in any    *)
(* order, and answers the peer of the request it took last.                *)
(***************************************************************************)
EXTENDS Integers

CONSTANTS
    Clients,
    Kinds,          \* the message classes clients send, besides the handshake
    MaxSessions,    \* bound on the sockets one client opens
    MaxCalls,       \* bound on the calls one client makes
    NoCall

\* Legal and illegal velocity targets, alignment queries, driver type changes,
\* odometry resets, getters, the stop, and classes the server has no handler for.
Kind == {"velocity", "illegal_velocity", "aligned", "type", "reset", "get", "stop", "unknown"}

VARIABLES
    inbox,      \* requests the REP socket has not handed out yet
    outbox      \* replies on their way to a client

channelVars == <<inbox, outbox>>

Call == [client : Clients, session : 1..MaxSessions, n : 1..MaxCalls, kind : Kinds \cup {"handshake"}]
Reply == [call : Call, response : {"ok", "error"}]

ASSUME TulipChannelAssumption ==
    /\ Kinds \subseteq Kind
    /\ MaxSessions \in Nat \ {0} /\ MaxCalls \in Nat \ {0}
    /\ NoCall \notin Call

ChannelInit == inbox = {} /\ outbox = {}
=============================================================================
