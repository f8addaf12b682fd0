------------------------------ MODULE ChatHub ------------------------------
(***************************************************************************)
(* The WebSocket hub of a Python backend (app.py: clients, _broadcast_ws,  *)
(* ws_handler and the broadcast of POST /message) and the browsers that    *)
(* connect to it (static/app.js).                                          *)
(*                                                                         *)
(* A connection has a thread on the server.  It registers, reads the       *)
(* history and sends it, in three steps; every message is saved first and  *)
(* broadcast afterwards, to all clients registered then, under a lock that *)
(* is held from the first send to the last.  A browser that loses its      *)
(* connection opens another one and appends what it gets to what it shows. *)
(*                                                                         *)
(* Not every message of the feed is broadcast: records that arrive with    *)
(* POST /messages/batch never are, nor is a message whose save raises      *)
(* after the append (the insert of an overflow).                           *)
(*                                                                         *)
(* A send and the rendering of its frame are one step: nothing a browser   *)
(* does depends on what it shows, and a send that blocks because the       *)
(* socket's buffers are full is a step that has not happened yet.          *)
(***************************************************************************)
EXTENDS Naturals, Sequences, FiniteSets, Functions

CONSTANTS
    Browsers,
    Posts,         \* POST /message requests that save_message accepts
    Frames,        \* messages typed into a browser
    Ingested,      \* records of POST /messages/batch
    Author,        \* the browser of each frame
    Nobody,
    HistoryLimit,  \* limit of load_history, 100000 in the code
    MaxConnects    \* bound: connections of each browser

Msgs == Posts \union Frames \union Ingested
Conns == UNION {{b} \X (1 .. MaxConnects[b]) : b \in Browsers}

ASSUME HubConstants ==
    /\ Posts \intersect Frames = {} /\ Ingested \intersect (Posts \union Frames) = {}
    /\ Author \in [Frames -> Browsers]
    /\ Nobody \notin Conns \union Msgs /\ "join" \notin Frames
    /\ HistoryLimit \in Nat
    /\ MaxConnects \in [Browsers -> Nat]

VARIABLES
    \* the server
    feed,          \* _memory_feed
    clients,       \* keys of clients and of client_keys
    lock,          \* clients_lock: the message whose broadcast holds it, or Nobody
    step, via,     \* control point of each message's handler, and its connection
    todo, dead,    \* of each broadcast: clients left to send to, clients that raised
    handler, hist, \* control point of each connection's thread, and the history it loaded
    \* the network
    link,          \* "unused", "open" or "closed"
    up,            \* frames from the browser
    \* the browser
    current,       \* connections made so far
    shown          \* frames rendered, by connection

hub == <<clients, lock, todo, dead>>
server == <<feed, hub, step, via, handler, hist>>
network == <<link, up>>
browser == <<current, shown>>
vars == <<server, network, browser>>

Frame(type, msgs) == [type |-> type, msgs |-> msgs]

Init ==
    /\ feed = <<>> /\ clients = {} /\ lock = Nobody
    /\ todo = [m \in Msgs |-> {}] /\ dead = [m \in Msgs |-> {}]
    /\ step = [m \in Msgs |-> "new"] /\ via = [m \in Msgs |-> Nobody]
    /\ handler = [c \in Conns |-> "none"] /\ hist = [c \in Conns |-> <<>>]
    /\ link = [c \in Conns |-> "unused"]
    /\ up = [c \in Conns |-> <<>>]
    /\ current = [b \in Browsers |-> 0]
    /\ shown = [c \in Conns |-> <<>>]

Goto(m, l) == step' = [step EXCEPT ![m] = l]
Run(c, l) == handler' = [handler EXCEPT ![c] = l]

-----------------------------------------------------------------------------
(***************************************************************************)
(* The browser.  "up" holds its frames: the join, sent as soon as the      *)
(* socket is open, then messages.                                          *)
(***************************************************************************)
Connect(b) ==
    LET c == <<b, current[b] + 1>> IN
    /\ current[b] < MaxConnects[b]
    /\ current[b] > 0 => link[<<b, current[b]>>] = "closed"
    /\ current' = [current EXCEPT ![b] = @ + 1]
    /\ link' = [link EXCEPT ![c] = "open"]
    /\ up' = [up EXCEPT ![c] = <<"join">>]
    /\ Run(c, "receive")
    /\ UNCHANGED <<feed, hub, step, via, hist, shown>>

Submit(m) ==
    LET c == <<Author[m], current[Author[m]]>> IN
    /\ m \in Frames /\ step[m] = "new"
    /\ current[Author[m]] > 0 /\ link[c] = "open"
    /\ up' = [up EXCEPT ![c] = Append(@, m)]
    /\ via' = [via EXCEPT ![m] = c]
    /\ Goto(m, "sent")
    /\ UNCHANGED <<feed, hub, handler, hist, link, browser>>

\* Either side or the network ends the connection.  What the server has
\* received already it still handles.
Close(c) ==
    /\ link[c] = "open"
    /\ link' = [link EXCEPT ![c] = "closed"]
    /\ UNCHANGED <<server, up, browser>>

-----------------------------------------------------------------------------
(***************************************************************************)
(* ws.send.  On a closed connection it raises or, as long as the server    *)
(* has not noticed, sends into the void.                                   *)
(***************************************************************************)
Sent(c, f) ==
    shown' = IF link[c] = "open" THEN [shown EXCEPT ![c] = Append(@, f)] ELSE shown
Raises(c) == link[c] = "closed"

-----------------------------------------------------------------------------
(***************************************************************************)
(* ws_handler: join.                                                       *)
(***************************************************************************)
JoinRegister(c) ==
    /\ handler[c] = "receive"
    /\ up[c] # <<>> /\ Head(up[c]) = "join"
    /\ lock = Nobody
    /\ up' = [up EXCEPT ![c] = Tail(@)]
    /\ clients' = clients \union {c}
    /\ Run(c, "load")
    /\ UNCHANGED <<feed, lock, todo, dead, step, via, hist, link, browser>>

\* load_history
JoinLoad(c) ==
    /\ handler[c] = "load"
    /\ hist' = [hist EXCEPT ![c] = SubSeq(feed, 1, IF Len(feed) < HistoryLimit THEN Len(feed) ELSE HistoryLimit)]
    /\ Run(c, "history")
    /\ UNCHANGED <<feed, hub, step, via, network, browser>>

JoinSend(c) ==
    /\ handler[c] = "history"
    /\ \/ Sent(c, Frame("history", hist[c])) /\ Run(c, "receive")
       \/ Raises(c) /\ Run(c, "leave") /\ UNCHANGED shown
    /\ hist' = [hist EXCEPT ![c] = <<>>]
    /\ UNCHANGED <<feed, hub, step, via, link, up, current>>

\* upsert_user_pubkey or load_history raises: the client is registered, and
\* the handler leaves it.
JoinRaises(c) ==
    /\ handler[c] = "load"
    /\ Run(c, "leave")
    /\ UNCHANGED <<feed, hub, step, via, hist, network, browser>>

-----------------------------------------------------------------------------
(***************************************************************************)
(* ws_handler: message, leave.                                             *)
(***************************************************************************)
\* A client that a broadcast has dropped has no key any more: ignored.
ReceiveMessage(c) ==
    LET m == Head(up[c]) IN
    /\ handler[c] = "receive"
    /\ up[c] # <<>> /\ m # "join"
    /\ up' = [up EXCEPT ![c] = Tail(@)]
    /\ IF c \in clients
       THEN Goto(m, "save") /\ Run(c, "busy")
       ELSE Goto(m, "ignored") /\ UNCHANGED handler
    /\ UNCHANGED <<feed, hub, via, hist, link, browser>>

\* receive raises once the connection is closed and nothing is buffered; send
\* or the database has raised in "leave".
Ends(c) == handler[c] = "leave" \/ (handler[c] = "receive" /\ up[c] = <<>> /\ link[c] = "closed")

\* Fault: the handler ends without its finally clause.
LeaveRegistered(c) ==
    /\ Ends(c) /\ lock = Nobody
    /\ link' = [link EXCEPT ![c] = "closed"]
    /\ Run(c, "gone")
    /\ UNCHANGED <<feed, hub, step, via, hist, up, browser>>

\* The web server closes a connection whose handler has ended.
Leave(c) ==
    /\ Ends(c) /\ lock = Nobody
    /\ clients' = clients \ {c}
    /\ link' = [link EXCEPT ![c] = "closed"]
    /\ Run(c, "gone")
    /\ UNCHANGED <<feed, lock, todo, dead, step, via, hist, up, browser>>

-----------------------------------------------------------------------------
(***************************************************************************)
(* POST /message and message frames: save, then broadcast.                 *)
(***************************************************************************)
Accepted(m) == (m \in Posts /\ step[m] = "new") \/ (m \in Frames /\ step[m] = "save")

\* save_message, of which the hub sees the append to the feed.
Save(m) ==
    /\ Accepted(m)
    /\ feed' = Append(feed, m)
    /\ Goto(m, "lock")
    /\ UNCHANGED <<hub, via, handler, hist, network, browser>>

\* The insert of an overflow raises, after the append; of a frame, the query
\* for the last hash may raise before it.  A post is answered 500, a frame ends
\* the handler of its connection.
SaveRaises(m) ==
    /\ Accepted(m)
    /\ feed' = Append(feed, m) \/ (m \in Frames /\ UNCHANGED feed)
    /\ Goto(m, "raised")
    /\ handler' = IF m \in Frames THEN [handler EXCEPT ![via[m]] = "leave"] ELSE handler
    /\ UNCHANGED <<hub, via, hist, network, browser>>

\* save_messages_batch: into the feed, and to no client.
Ingest(m) ==
    /\ m \in Ingested /\ step[m] = "new"
    /\ feed' = Append(feed, m)
    /\ Goto(m, "ingested")
    /\ UNCHANGED <<hub, via, handler, hist, network, browser>>

\* POST looks at clients without the lock first.
PostToNobody(m) ==
    /\ m \in Posts
    /\ step[m] = "lock" /\ clients = {}
    /\ Goto(m, "done")
    /\ UNCHANGED <<feed, hub, via, handler, hist, network, browser>>

\* Fault: the list of clients is taken without the lock.
BroadcastUnlocked(m) ==
    /\ step[m] = "lock"
    /\ lock' = m /\ todo' = [todo EXCEPT ![m] = clients]
    /\ Goto(m, "send")
    /\ UNCHANGED <<feed, clients, dead, via, handler, hist, network, browser>>

BroadcastLock(m) ==
    /\ step[m] = "lock" /\ lock = Nobody
    /\ lock' = m /\ todo' = [todo EXCEPT ![m] = clients]
    /\ Goto(m, "send")
    /\ UNCHANGED <<feed, clients, dead, via, handler, hist, network, browser>>

\* Fault: try encloses the loop, so that a client that raises ends it.
BroadcastAborts(m, c) ==
    /\ step[m] = "send" /\ c \in todo[m]
    /\ \/ Sent(c, Frame("message", <<m>>)) /\ todo' = [todo EXCEPT ![m] = @ \ {c}] /\ UNCHANGED dead
       \/ /\ Raises(c) /\ UNCHANGED shown
          /\ dead' = [dead EXCEPT ![m] = {c}] /\ todo' = [todo EXCEPT ![m] = {}]
    /\ UNCHANGED <<feed, clients, lock, step, via, handler, hist, link, up, current>>

BroadcastSend(m, c) ==
    /\ step[m] = "send" /\ c \in todo[m]
    /\ todo' = [todo EXCEPT ![m] = @ \ {c}]
    /\ \/ Sent(c, Frame("message", <<m>>)) /\ UNCHANGED dead
       \/ Raises(c) /\ dead' = [dead EXCEPT ![m] = @ \union {c}] /\ UNCHANGED shown
    /\ UNCHANGED <<feed, clients, lock, step, via, handler, hist, link, up, current>>

\* The author's thread goes back to receive.
Done(m) ==
    /\ Goto(m, "done")
    /\ handler' = IF m \in Frames THEN [handler EXCEPT ![via[m]] = "receive"] ELSE handler

\* Fault: a broadcast that had to drop clients returns with the lock.
BroadcastLeaksLock(m) ==
    /\ step[m] = "send" /\ todo[m] = {}
    /\ clients' = clients \ dead[m]
    /\ lock' = IF dead[m] = {} THEN Nobody ELSE lock
    /\ dead' = [dead EXCEPT ![m] = {}]
    /\ Done(m)
    /\ UNCHANGED <<feed, todo, via, hist, network, browser>>

BroadcastEnd(m) ==
    /\ step[m] = "send" /\ todo[m] = {}
    /\ clients' = clients \ dead[m]
    /\ lock' = Nobody /\ dead' = [dead EXCEPT ![m] = {}]
    /\ Done(m)
    /\ UNCHANGED <<feed, todo, via, hist, network, browser>>

-----------------------------------------------------------------------------
Handle(m) ==
    \/ Save(m) \/ SaveRaises(m) \/ Ingest(m) \/ PostToNobody(m)
    \/ BroadcastLock(m) \/ (\E c \in Conns : BroadcastSend(m, c)) \/ BroadcastEnd(m)

Serve(c) ==
    \/ JoinRegister(c) \/ JoinLoad(c) \/ JoinSend(c) \/ JoinRaises(c)
    \/ ReceiveMessage(c) \/ Leave(c)

Next ==
    \/ \E b \in Browsers : Connect(b)
    \/ \E c \in Conns : Close(c) \/ Serve(c)
    \/ \E m \in Msgs : Submit(m) \/ Handle(m)

Spec == Init /\ [][Next]_vars

\* Threads run, browsers read their sockets, and clients_lock is given to a waiting thread
\* sooner or later; nobody has to connect, type, post or reset.
Fairness ==
    /\ \A c \in Conns : SF_vars(Serve(c))
    /\ \A m \in Msgs : SF_vars(Handle(m) /\ step[m] # "new")

FairSpec == Spec /\ Fairness

-----------------------------------------------------------------------------
FrameSet == [type : {"message", "history"}, msgs : Seq(Msgs)]

\* Types; the lock is held by exactly the message being sent, and nobody
\* unregisters a client while the broadcast is under way.
TypeOK ==
    /\ feed \in Seq(Msgs)
    /\ clients \subseteq Conns
    /\ todo \in [Msgs -> SUBSET clients] /\ dead \in [Msgs -> SUBSET clients]
    /\ step \in [Msgs -> {"new", "sent", "ignored", "save", "lock", "send", "done", "raised", "ingested"}]
    /\ via \in [Msgs -> Conns \union {Nobody}]
    /\ lock \in Msgs \union {Nobody}
    /\ \A m \in Msgs : lock = m <=> step[m] = "send"
    /\ \A m \in Msgs : lock # m => todo[m] = {} /\ dead[m] = {}
    /\ handler \in [Conns -> {"none", "receive", "load", "history", "busy", "leave", "gone"}]
    /\ hist \in [Conns -> Seq(Msgs)]
    /\ link \in [Conns -> {"unused", "open", "closed"}]
    /\ up \in [Conns -> Seq({"join"} \union Frames)]
    /\ shown \in [Conns -> Seq(FrameSet)]
    /\ current \in [Browsers -> Nat] /\ \A b \in Browsers : current[b] <= MaxConnects[b]

MsgsOf(c) == UNION {Range(f.msgs) : f \in Range(shown[c])}
Joined(c) == c \in clients /\ link[c] = "open" /\ handler[c] \in {"receive", "busy"}

\* A message of the feed that is never broadcast.
Silent(m) == step[m] \in {"raised", "ingested"}
\* Position i of the feed was empty whenever client c got a history.
After(c, i) == \A f \in Range(shown[c]) : f.type = "history" => Len(f.msgs) < i

\* A client that has joined has a gapless view of what is broadcast, however
\* its join raced with posts, frames, broadcasts and drops: a message of the
\* feed has reached it, with the history or by broadcast, or the broadcast is
\* still to come.  Missing is only what the limit of load_history cuts off,
\* and of the messages that are in the feed and never broadcast those that
\* were stored after the client had loaded its history.
NoGap ==
    \A c \in Conns, i \in DOMAIN feed :
        Joined(c) /\ i <= HistoryLimit =>
            \/ feed[i] \in MsgsOf(c)
            \/ step[feed[i]] = "lock"
            \/ c \in todo[feed[i]]
            \/ Silent(feed[i]) /\ After(c, i)

\* Position of message m among the broadcasts a connection received, 0 if none.
LiveAt(c, m) ==
    LET at == {i \in DOMAIN shown[c] : shown[c][i] = Frame("message", <<m>>)}
    IN IF at = {} THEN 0 ELSE CHOOSE i \in at : TRUE

\* All clients see broadcasts in one order, although each is a series of sends
\* that other threads may interrupt, and although POSTs and frames of several
\* threads compete.
AgreedOrder ==
    \A c, d \in Conns, m, n \in Msgs :
        /\ 0 < LiveAt(c, m) /\ LiveAt(c, m) < LiveAt(c, n)
        /\ 0 < LiveAt(d, n)
        => ~(LiveAt(d, n) < LiveAt(d, m))

\* A message reaches every client registered once it is saved, unless the
\* connection ends, even if other clients raise.
Delivered ==
    \A c \in Conns, m \in Msgs :
        step[m] = "lock" /\ c \in clients ~> m \in MsgsOf(c) \/ link[c] = "closed"

\* A closed connection is unregistered and its thread ended, whichever of them
\* and the broadcasts notices first, and whatever is still buffered.
Unregistered ==
    \A c \in Conns : link[c] = "closed" ~> handler[c] = "gone" /\ c \notin clients
=============================================================================
