------------------------------ MODULE McpProxy ------------------------------
(* The MCP proxy daemon (CLI/commands/mcp_proxy_cmd.py): an HTTPServer with one
   thread, which relays the event stream of a GET /sse and the messages that
   the client posts to the endpoint it was told of on that stream.

   get_fresh_token either has a token or has none: the credential file it reads
   belongs to every process of the workstation (CredentialFile, Login). *)
EXTENDS Naturals, Sequences

CONSTANTS
  Nobody,         \* no session, nobody
  Clients,      \* MCP clients
  MaxSessions,  \* bound on the sessions that the upstream server opens
  MaxPosts      \* bound on the messages that clients post

ASSUME ProxyAssumption ==
  /\ Nobody \notin Clients
  /\ Nobody \notin Nat
  /\ MaxSessions \in Nat /\ MaxPosts \in Nat

VARIABLES
  backlog,   \* requests that wait for the thread: client, and session of a POST
  thread,    \* "idle", "get" or "post", or "stream" while it relays a stream
  request,   \* the request that the thread handles
  urls,      \* _upstream_message_urls: the session behind a session id
  client,    \* what a client does: "off", "connects", "open" or "posts"
  session,   \* the session whose endpoint a client was told of
  sessions,  \* sessions opened upstream
  posts,     \* messages posted
  relayed    \* messages relayed: the session they were for, and where they went

proxyVars ==
  <<backlog, thread, request, urls, client, session, sessions, posts, relayed>>

Ids == 1..MaxSessions
Requests == [client : Clients, session : Ids \cup {Nobody}]

\* Thread, table and clients keep their types, and the table knows only sessions
\* that were opened (_handle_sse).
ProxyTypeOK ==
  /\ backlog \in Seq(Requests)
  /\ thread \in {"idle", "get", "post", "stream"}
  /\ request \in Requests \cup {Nobody}
  /\ urls \in [Ids -> Ids \cup {Nobody}]
  /\ client \in [Clients -> {"off", "connects", "open", "posts"}]
  /\ session \in [Clients -> Ids \cup {Nobody}]
  /\ sessions \in 0..MaxSessions /\ posts \in 0..MaxPosts
  /\ relayed \subseteq Ids \X Ids

ProxyInit ==
  /\ backlog = <<>> /\ thread = "idle" /\ request = Nobody
  /\ urls = [s \in Ids |-> Nobody]
  /\ client = [c \in Clients |-> "off"]
  /\ session = [c \in Clients |-> Nobody]
  /\ sessions = 0 /\ posts = 0 /\ relayed = {}

-----------------------------------------------------------------------------
\* Clients

Connect(c) ==
  /\ client[c] = "off" /\ sessions < MaxSessions
  /\ client' = [client EXCEPT ![c] = "connects"]
  /\ backlog' = Append(backlog, [client |-> c, session |-> Nobody])
  /\ UNCHANGED <<thread, request, urls, session, sessions, posts, relayed>>

Post(c) ==
  /\ client[c] = "open" /\ posts < MaxPosts
  /\ posts' = posts + 1
  /\ client' = [client EXCEPT ![c] = "posts"]
  /\ backlog' = Append(backlog, [client |-> c, session |-> session[c]])
  /\ UNCHANGED <<thread, request, urls, session, sessions, relayed>>

\* The thread does not notice before it writes to the client.
Disconnect(c) ==
  /\ client[c] \in {"open", "posts"}
  /\ client' = [client EXCEPT ![c] = "off"]
  /\ session' = [session EXCEPT ![c] = Nobody]
  /\ UNCHANGED <<backlog, thread, request, urls, sessions, posts, relayed>>

-----------------------------------------------------------------------------
\* The server thread

\* serve_forever accepts the next connection.
AcceptConnection ==
  /\ thread = "idle" /\ backlog # <<>>
  /\ request' = Head(backlog)
  /\ backlog' = Tail(backlog)
  /\ thread' = IF request'.session = Nobody THEN "get" ELSE "post"
  /\ UNCHANGED <<urls, client, session, sessions, posts, relayed>>

\* Client c, if it still waits for this answer, has it: a message that was left
\* behind by an earlier session answers nobody.
Answered(c, s) ==
  IF \/ client[c] = "connects" /\ s = Nobody
     \/ client[c] = "posts" /\ session[c] = s
  THEN client' = [client EXCEPT ![c] = IF @ = "posts" THEN "open" ELSE "off"]
  ELSE UNCHANGED client

\* Mutant: a request without a token is dropped unanswered.
RefuseSilently ==
  /\ thread \in {"get", "post"}
  /\ thread' = "idle" /\ request' = Nobody
  /\ UNCHANGED <<backlog, urls, client, session, sessions, posts, relayed>>

\* 503 without a token, 502 without an upstream server.
Refuse ==
  /\ thread \in {"get", "post"}
  /\ Answered(request.client, request.session)
  /\ thread' = "idle" /\ request' = Nobody
  /\ UNCHANGED <<backlog, urls, session, sessions, posts, relayed>>

\* Mutant: the table has one entry, for whatever session was last.
OpenStreamOverwriting(named) ==
  /\ thread = "get" /\ sessions < MaxSessions
  /\ LET s == sessions + 1 IN
     /\ sessions' = s
     /\ urls' = [t \in Ids |-> s]
     /\ session' = [session EXCEPT ![request.client] = s]
     /\ client' = [client EXCEPT ![request.client] = "open"]
  /\ thread' = "stream"
  /\ UNCHANGED <<backlog, request, posts, relayed>>

\* The upstream stream opens, and its endpoint event goes on to the client with
\* a local path. Only an endpoint with a sessionId enters the table.
OpenStream(named) ==
  /\ thread = "get" /\ sessions < MaxSessions
  /\ LET s == sessions + 1 IN
     /\ sessions' = s
     /\ urls' = IF named THEN [urls EXCEPT ![s] = s] ELSE urls
     /\ session' = [session EXCEPT ![request.client] = s]
     /\ client' = [client EXCEPT ![request.client] = "open"]
  /\ thread' = "stream"
  /\ UNCHANGED <<backlog, request, posts, relayed>>

\* The upstream server ends the stream, or a write finds the client gone.
StreamEnds ==
  /\ thread = "stream"
  /\ LET c == request.client IN
     IF session[c] = Nobody THEN UNCHANGED <<client, session>>
     ELSE /\ client' = [client EXCEPT ![c] = "off"]
          /\ session' = [session EXCEPT ![c] = Nobody]
  /\ thread' = "idle" /\ request' = Nobody
  /\ UNCHANGED <<backlog, urls, sessions, posts, relayed>>

\* A POST goes to the message URL of its session, or, when the table has none,
\* to its own path at the upstream server.
Relay ==
  /\ thread = "post"
  /\ LET s == request.session
         url == IF urls[s] # Nobody THEN urls[s] ELSE s
     IN  /\ relayed' = relayed \cup {<<s, url>>}
         /\ Answered(request.client, s)
  /\ thread' = "idle" /\ request' = Nobody
  /\ UNCHANGED <<backlog, urls, session, sessions, posts>>

\* The daemon is stopped and started: the table and all connections are gone.
Restart ==
  /\ backlog' = <<>> /\ thread' = "idle" /\ request' = Nobody
  /\ urls' = [s \in Ids |-> Nobody]
  /\ client' = [c \in Clients |-> "off"]
  /\ session' = [c \in Clients |-> Nobody]
  /\ UNCHANGED <<sessions, posts, relayed>>

Serve == AcceptConnection \/ Refuse \/ (\E named \in BOOLEAN : OpenStream(named)) \/ Relay

ProxyNext ==
  \/ \E c \in Clients : Connect(c) \/ Post(c) \/ Disconnect(c)
  \/ Serve \/ StreamEnds \/ Restart

\* serve_forever accepts who waits as soon as it is idle. What a handler does may
\* last for ever: the upstream stream is read without a timeout, and so is the
\* body of a POST.
ProxyFairness == WF_proxyVars(AcceptConnection)

ProxySpec == ProxyInit /\ [][ProxyNext]_proxyVars /\ ProxyFairness

-----------------------------------------------------------------------------
\* A message reaches the session it was posted to and no other one
\* (_upstream_message_urls, do_POST).
RoutedToOwnSession == \A m \in relayed : m[1] = m[2]

\* A client has an open session only while the thread relays its stream: so one
\* client is served at a time, and none is answered in the stream it posts for
\* (HTTPServer, _handle_sse).
OpenIsStreamed ==
  \A c \in Clients : client[c] \in {"open", "posts"} =>
    /\ thread = "stream"
    /\ request.client = c
    /\ session[c] # Nobody

\* Who connects is told a session or refused in the end, however the others come
\* and go, unless one request keeps the only thread for ever (serve_forever,
\* _handle_sse): no request is dropped, none starves behind many short ones.
ClientsAreServed ==
  \A c \in Clients :
    client[c] = "connects" ~> (client[c] # "connects" \/ [](thread # "idle"))
=============================================================================
