-------------------------------- MODULE Proxy --------------------------------
(***************************************************************************)
(* The proxy server: proxy_server/*.c on top of CBuf.                      *)
(*                                                                         *)
(* The main thread runs the event loop: it accepts clients, stores what    *)
(* they send and executes the operator's commands.  Each client has a      *)
(* sender thread that forwards its messages to the downstream server while *)
(* the session is SENDING, and that frees the client when it has gone and  *)
(* everything stored has been sent.  A client's mutex protects its queue   *)
(* and its pages; state and headers belong to the main thread; the list of *)
(* clients and the state of the session are not protected.                 *)
(*                                                                         *)
(* A step is what a thread does between two points where it takes or gives *)
(* up a mutex, or one access to data that no mutex protects.  A sender     *)
(* keeps the mutex from one step to the next only while it removes its     *)
(* client ("unlink", "free"), so Unlocked(c) says when it can be taken.    *)
(***************************************************************************)
EXTENDS CBuf, FiniteSets, SequencesExt

CONSTANTS
  Clients,      \* clients that may connect
  Cases,        \* what to explore: records of what each client sends (a client
                \* that sends nothing does not connect) and, as a bound, how
                \* many disturbances there may be
  Faults,       \* disturbances that may happen: a failure of the downstream
                \* connection ("connect", "headers", "send", "short"), or the
                \* operator stops sending ("command")
  MaxRecv,      \* bound: items that one recv() returns
  NoClient      \* NULL

\* A header block (with all the headers that the sender reads, only those
\* that C_CONFIGURE asks for, or fewer), a message, or a line that is neither.
Headers(have) == [kind |-> "headers", have |-> have]
Message(id, len) == [kind |-> "msg", id |-> id, len |-> len]
Junk == [kind |-> "junk"]

\* A text message has the end of its line, a binary one its header: none is empty.
Messages == [kind : {"msg"}, id : Nat, len : Nat \ {0}]
Items == [kind : {"headers"}, have : {"all", "needed", "few"}] \cup Messages \cup {Junk}

ASSUME ProxyAssumption ==
  /\ NoClient \notin Clients
  /\ Faults \subseteq {"connect", "headers", "send", "short", "command"}
  /\ MaxRecv \in Nat
  /\ \A k \in Cases : k.net \in [Clients -> Seq(Items)]

VARIABLES
  process,      \* "up", or "undefined" after an access to freed or NULL memory
  session,      \* Session.state
  head,         \* Session.clients
  mpc, current, \* the main thread: where it is, and the client it deals with
  client,       \* struct Client, the part that main and sender share
  chan, net, eof,   \* its channel is registered; what its peer has sent
  sender,       \* its sender thread and the downstream socket
  wire,         \* for each downstream connection, what was accepted
  received, stored, \* history: messages received, and put in the queue
  pageEnd,      \* history: a message was stored from the end of a full page on
  luck          \* disturbances that may still happen

mainVars == <<session, head, mpc, current>>
peerVars == <<chan, net, eof, received>>
history == <<stored, pageEnd>>
vars == <<process, mainVars, client, peerVars, sender, wire, history, luck>>

\* client_new()
NewClient ==
  [state |-> "none", headers |-> "none", mbuf |-> <<>>, messages |-> <<>>,
   cbuf |-> cbuf_create, next |-> NoClient]

NewSender ==
  [pc |-> "none", connected |-> FALSE, cursor |-> [page |-> 1, index |-> 0],
   length |-> 0, to_write |-> 0, result |-> 0, prev |-> NoClient]

Init ==
  /\ process = "up" /\ session = "PAUSED" /\ head = NoClient
  /\ mpc = "loop" /\ current = NoClient
  /\ client = [c \in Clients |-> NewClient]
  /\ chan = [c \in Clients |-> FALSE] /\ eof = [c \in Clients |-> FALSE]
  /\ \E k \in Cases : net = k.net /\ luck = k.luck
  /\ sender = [c \in Clients |-> NewSender]
  /\ wire = [c \in Clients |-> <<>>]
  /\ received = [c \in Clients |-> <<>>] /\ stored = [c \in Clients |-> <<>>]
  /\ pageEnd = [c \in Clients |-> FALSE]

Unlocked(c) == sender[c].pc \notin {"unlink", "free"}
Freed(c) == sender[c].pc = "gone"

Adversity(f) == f \in Faults /\ luck > 0 /\ luck' = luck - 1
NoAdversity == UNCHANGED luck

\* Nothing is known about the process any more.
Undefined ==
  /\ process' = "undefined"
  /\ UNCHANGED <<mainVars, client, peerVars, sender, wire, history, luck>>

-----------------------------------------------------------------------------
(* The main thread: clients.                                               *)

At(pc) == process = "up" /\ mpc = pc
Goto(pc, c) == mpc' = pc /\ current' = c

\* pthread_cond_signal() with the mutex held for an instant.
Woken(c) == IF sender[c].pc = "wait" THEN [sender EXCEPT ![c].pc = "woken"] ELSE sender

\* on_connect(), as far as session_add_client() reads the list, ...
Connect(c) ==
  /\ At("loop") /\ client[c].state = "none" /\ net[c] # <<>>
  /\ client' = [client EXCEPT ![c].state = "C_HEADER", ![c].next = head]
  /\ Goto("add", c)
  /\ UNCHANGED <<process, session, head, peerVars, sender, wire, history, luck>>

\* ... and from there on.
Accepted(c) ==
  /\ At("add") /\ current = c
  /\ head' = c
  /\ chan' = [chan EXCEPT ![c] = TRUE]
  /\ sender' = [sender EXCEPT ![c].pc = "start"]
  /\ Goto("loop", NoClient)
  /\ UNCHANGED <<process, session, client, net, eof, received, wire, history, luck>>

PeerCloses(c) ==
  /\ chan[c] /\ ~eof[c]
  /\ eof' = [eof EXCEPT ![c] = TRUE]
  /\ \E rest \in {net[c], <<>>} : net' = [net EXCEPT ![c] = rest]
  /\ UNCHANGED <<process, mainVars, client, chan, received, sender, wire, history, luck>>

\* client_callback(): proxy_message_loop() with mbuf after mbuf_write().
\* Part of a line also makes it look at what is in the buffer.
Recv(c, mbuf) ==
  /\ At("loop") /\ chan[c] /\ net[c] # <<>>
  /\ \E n \in 0 .. MaxRecv :
       /\ n <= Len(net[c]) /\ (n = 0 => client[c].mbuf # <<>>)
       /\ mbuf = client[c].mbuf \o SubSeq(net[c], 1, n)
       /\ net' = [net EXCEPT ![c] = SubSeq(@, n + 1, Len(@))]
       /\ received' = [received EXCEPT ![c] = @ \o
            SelectSeq(SubSeq(net[c], 1, n), LAMBDA i : i.kind = "msg")]
  /\ UNCHANGED <<process, session, head, eof, sender, wire, history, luck>>

Mbufs(c) == {client[c].mbuf \o SubSeq(net[c], 1, n) : n \in 0 .. Len(net[c])}

\* C_HEADER, C_CONFIGURE: once the headers are there the client is in state
\* C_DATA, whatever C_CONFIGURE found; the data behind them has to wait.
RecvHeaders(c) ==
  \E mbuf \in Mbufs(c) :
    /\ Recv(c, mbuf)
    /\ client[c].state = "C_HEADER" /\ Head(mbuf).kind = "headers"
    /\ client' = [client EXCEPT ![c].state = "C_DATA", ![c].headers = Head(mbuf).have,
                                ![c].mbuf = Tail(mbuf)]
    /\ Goto("signal", c) /\ UNCHANGED chan

\* C_DATA: one message is read in a callback.
RecvMessage(c) ==
  \E mbuf \in Mbufs(c) :
    /\ Recv(c, mbuf)
    /\ client[c].state = "C_DATA" /\ client[c].headers # "few" /\ Head(mbuf).kind = "msg"
    /\ client' = [client EXCEPT ![c].mbuf = mbuf]
    /\ Goto("store", c) /\ UNCHANGED chan

\* Not a header, not a message, or no way to read messages because
\* C_CONFIGURE has failed: the client is cut off.
RecvError(c) ==
  \E mbuf \in Mbufs(c) :
    /\ Recv(c, mbuf)
    /\ \/ client[c].state = "C_HEADER" /\ Head(mbuf).kind # "headers"
       \/ /\ client[c].state = "C_DATA"
          /\ client[c].headers = "few" \/ Head(mbuf).kind # "msg"
    /\ client' = [client EXCEPT ![c].state = "C_PROTOCOL_ERROR", ![c].mbuf = Tail(mbuf)]
    /\ chan' = [chan EXCEPT ![c] = FALSE]
    /\ Goto("signal", c)

Units(m) == [i \in 1 .. m.len |-> <<m.id, i>>]

store_received_message(c) ==
  /\ At("store") /\ current = c /\ Unlocked(c)
  /\ LET m == Head(client[c].mbuf)
         at == cbuf_write_cursor(client[c].cbuf)
     IN  /\ client' = [client EXCEPT
              ![c].messages = Append(@, [msg |-> m, cursor |-> at]),
              ![c].cbuf = cbuf_write(@, Units(m)),
              ![c].mbuf = Tail(@)]
         /\ stored' = [stored EXCEPT ![c] = Append(@, m)]
         /\ pageEnd' = [pageEnd EXCEPT ![c] = @ \/ at.index = PageSize]
  /\ Goto("signal", c)
  /\ UNCHANGED <<process, session, head, peerVars, sender, wire, luck>>

\* The end of client_callback().
Signal(c) ==
  /\ At("signal") /\ current = c /\ Unlocked(c)
  /\ sender' = Woken(c)
  /\ Goto("loop", NoClient)
  /\ UNCHANGED <<process, session, head, client, peerVars, wire, history, luck>>

\* status_callback(): SOCKET_CONN_CLOSED.
ClientClosed(c) ==
  /\ At("loop") /\ chan[c] /\ eof[c] /\ net[c] = <<>> /\ Unlocked(c)
  /\ chan' = [chan EXCEPT ![c] = FALSE]
  /\ client' = [client EXCEPT ![c].state = "C_DISCONNECTED"]
  /\ sender' = Woken(c)
  /\ UNCHANGED <<process, mainVars, net, eof, received, wire, history, luck>>

-----------------------------------------------------------------------------
(* The main thread: stdin_handler().                                       *)

Command(state) ==
  /\ At("loop")
  /\ session' = state
  /\ \/ state = "SENDING" /\ Goto("walk", head) /\ NoAdversity
     \/ state # "SENDING" /\ UNCHANGED <<mpc, current>> /\ Adversity("command")
  /\ UNCHANGED <<process, head, client, peerVars, sender, wire, history>>

\* Lock, signal, unlock ...
WalkSignal ==
  /\ At("walk") /\ current # NoClient
  /\ \/ Freed(current) /\ Undefined
     \/ /\ ~Freed(current) /\ Unlocked(current)
        /\ sender' = Woken(current)
        /\ mpc' = "next"
        /\ UNCHANGED <<process, session, head, current, client, peerVars, wire, history, luck>>

\* ... and current->next.
WalkNext ==
  /\ At("next")
  /\ \/ Freed(current) /\ Undefined
     \/ /\ ~Freed(current)
        /\ Goto("walk", client[current].next)
        /\ UNCHANGED <<process, session, head, client, peerVars, sender, wire, history, luck>>

WalkEnds ==
  /\ At("walk") /\ current = NoClient
  /\ Goto("loop", NoClient)
  /\ UNCHANGED <<process, session, head, client, peerVars, sender, wire, history, luck>>

-----------------------------------------------------------------------------
(* client_send_thread().                                                   *)

SenderAt(c, pc) == process = "up" /\ sender[c].pc = pc
SenderOnly == UNCHANGED <<process, mainVars, peerVars, history>>

\* The mutex, and pthread_cond_wait() at once.
SenderStarts(c) ==
  /\ SenderAt(c, "start")
  /\ sender' = [sender EXCEPT ![c].pc = "wait"]
  /\ SenderOnly /\ UNCHANGED <<client, wire, luck>>

\* What follows, for a sender s and a client k: the next message, the end, or
\* pthread_cond_wait() again.
ToWrite(k, s) ==
  LET remaining == cbuf_cursor_page_remaining(k.cbuf, s.cursor)
  IN  [s EXCEPT !.pc = "send",
                !.to_write = IF s.length < remaining THEN s.length ELSE remaining]

\* Variant: a client is kept for good.
DoneNever(k) == k.state = "none"
Done(k) == k.state = "C_DISCONNECTED" /\ k.messages = <<>>

Continue(k, s) ==
  IF k.messages # <<>> /\ s.connected
  THEN ToWrite(k, [s EXCEPT !.cursor = Head(k.messages).cursor,
                            !.length = Head(k.messages).msg.len])
  ELSE [s EXCEPT !.pc = IF Done(k) THEN "unlink" ELSE "wait"]

SenderWakes(c) ==
  /\ SenderAt(c, "woken")
  /\ LET k == client[c]
         s == sender[c]
     IN  sender' = [sender EXCEPT ![c] =
           CASE session = "SENDING" /\ s.connected -> Continue(k, s)
             [] session = "SENDING" /\ ~s.connected ->
                  [s EXCEPT !.pc = IF k.state = "C_HEADER" THEN "wait" ELSE "connect"]
             [] session = "PAUSED" -> [s EXCEPT !.pc = "wait", !.connected = FALSE]
             [] OTHER -> [s EXCEPT !.pc = "wait"]]
  /\ SenderOnly /\ UNCHANGED <<client, wire, luck>>

\* The loop around client_sender_connect(), without the mutex.
SenderConnects(c) ==
  /\ SenderAt(c, "connect") /\ session = "SENDING"
  /\ \/ /\ sender' = [sender EXCEPT ![c].connected = TRUE, ![c].pc = "relock"]
        /\ wire' = [wire EXCEPT ![c] = Append(@, <<>>)]
        /\ NoAdversity
     \/ Adversity("connect") /\ UNCHANGED <<sender, wire>>
  /\ SenderOnly /\ UNCHANGED client

SenderGivesUp(c) ==
  /\ SenderAt(c, "connect") /\ session # "SENDING"
  /\ sender' = [sender EXCEPT ![c].pc = "relock"]
  /\ SenderOnly /\ UNCHANGED <<client, wire, luck>>

\* The headers as one unit of the stream; what they become if a send() of them
\* is short, because client_send_header() then starts the line again and never
\* sends its end; and what there is of them when a later send() fails.
HeaderUnit == <<0, 0>>
DamagedHeaders == <<1, 0>>
CutHeaders == <<2, 0>>
Accept(c, units) == [wire EXCEPT ![c][Len(wire[c])] = @ \o units]

\* client_send_headers(), with the mutex; a missing header is a NULL pointer.
SenderSendsHeaders(c) ==
  /\ SenderAt(c, "relock") /\ sender[c].connected
  /\ \/ /\ client[c].headers = "all"
        /\ \/ wire' = Accept(c, <<HeaderUnit>>) /\ NoAdversity
           \/ wire' = Accept(c, <<DamagedHeaders>>) /\ Adversity("short")
        /\ sender' = [sender EXCEPT ![c] = Continue(client[c], @)]
        /\ SenderOnly /\ UNCHANGED client
     \/ /\ Adversity("headers")
        /\ \E units \in {<<>>, <<CutHeaders>>} : wire' = Accept(c, units)
        /\ sender' = [sender EXCEPT ![c].connected = FALSE, ![c].pc = "wait"]
        /\ SenderOnly /\ UNCHANGED client
     \/ client[c].headers # "all" /\ Undefined

SenderUnconnected(c) ==
  /\ SenderAt(c, "relock") /\ ~sender[c].connected
  /\ sender' = [sender EXCEPT ![c] = Continue(client[c], @)]
  /\ SenderOnly /\ UNCHANGED <<client, wire, luck>>

\* send(), without the mutex.
Sent(c, n) ==
  /\ wire' = Accept(c, Memory(client[c].cbuf, sender[c].cursor, n))
  /\ sender' = [sender EXCEPT ![c].pc = "sent", ![c].result = n]

SenderSends(c) ==
  /\ SenderAt(c, "send")
  /\ \/ Sent(c, sender[c].to_write) /\ NoAdversity
     \/ \E n \in 1 .. sender[c].to_write - 1 : Sent(c, n) /\ Adversity("short")
     \/ /\ Adversity("send")
        /\ sender' = [sender EXCEPT ![c].pc = "sent", ![c].result = -1]
        /\ UNCHANGED wire
  /\ SenderOnly /\ UNCHANGED client

\* The mutex again.  After a failure the message stays in the queue.
\* Variant: it is removed.
RemoveAnyway(c) ==
  /\ SenderAt(c, "sent") /\ sender[c].result = -1
  /\ LET k == [client[c] EXCEPT !.messages = Tail(@)]
     IN  /\ client' = [client EXCEPT ![c] = k]
         /\ sender' = [sender EXCEPT ![c] = Continue(k, [@ EXCEPT !.connected = FALSE])]
  /\ SenderOnly /\ UNCHANGED <<wire, luck>>
SenderFailed(c) ==
  /\ SenderAt(c, "sent") /\ sender[c].result = -1
  /\ sender' = [sender EXCEPT ![c] = Continue(client[c], [@ EXCEPT !.connected = FALSE])]
  /\ SenderOnly /\ UNCHANGED <<client, wire, luck>>

\* cbuf_consume_cursor() and msg_queue_remove() once the message is sent.
Consumed(k) ==
  LET node == Head(k.messages)
  IN  [k EXCEPT !.cbuf = cbuf_consume_cursor(@, node.cursor, node.msg.len),
                !.messages = Tail(@)]

SenderSent(c) ==
  /\ SenderAt(c, "sent") /\ sender[c].result >= 0
  /\ LET n == sender[c].result
         s == [sender[c] EXCEPT !.cursor = cbuf_advance_cursor(client[c].cbuf, @, n),
                                !.length = @ - n]
     IN  IF s.length > 0
         THEN sender' = [sender EXCEPT ![c] = ToWrite(client[c], s)] /\ UNCHANGED client
         ELSE /\ client' = [client EXCEPT ![c] = Consumed(@)]
              /\ sender' = [sender EXCEPT ![c] = Continue(Consumed(client[c]), s)]
  /\ SenderOnly /\ UNCHANGED <<wire, luck>>

-----------------------------------------------------------------------------
(* session_remove_client() and client_free(), with the client's mutex.     *)

\* The clients that a walk from the head meets.
InList ==
  LET met[n \in 0 .. Cardinality(Clients)] ==
        IF n = 0 THEN {head}
        ELSE met[n - 1] \cup {client[c].next : c \in met[n - 1] \ {NoClient}}
  IN  met[Cardinality(Clients)] \ {NoClient}

\* The list as it is now says what to change: session->clients (NoClient),
\* the predecessor, or nothing (c itself).
SenderFinds(c) ==
  /\ SenderAt(c, "unlink")
  /\ LET before == {d \in Clients \cap InList : client[d].next = c}
         prev == CASE head = c -> NoClient
                   [] head # c /\ before # {} -> CHOOSE d \in before : TRUE
                   [] OTHER -> c
     IN  sender' = [sender EXCEPT ![c].pc = "free", ![c].prev = prev]
  /\ SenderOnly /\ UNCHANGED <<client, wire, luck>>

SenderFrees(c) ==
  /\ SenderAt(c, "free")
  /\ LET p == sender[c].prev
     IN  /\ head' = IF p = NoClient THEN client[c].next ELSE head
         /\ client' = IF p \in {NoClient, c} THEN client
                      ELSE [client EXCEPT ![p].next = client[c].next]
  /\ sender' = [sender EXCEPT ![c].pc = "gone"]
  /\ UNCHANGED <<process, session, mpc, current, peerVars, wire, history, luck>>

-----------------------------------------------------------------------------
Commands == {"SENDING", "PAUSED", "STOPPED"}

Receive(c) == RecvHeaders(c) \/ RecvMessage(c) \/ RecvError(c)

MainStep ==
  \/ \E c \in Clients : Accepted(c) \/ store_received_message(c) \/ Signal(c)
  \/ WalkSignal \/ WalkNext \/ WalkEnds

SenderStep(c) ==
  \/ SenderStarts(c) \/ SenderWakes(c) \/ SenderConnects(c) \/ SenderGivesUp(c)
  \/ SenderSendsHeaders(c) \/ SenderUnconnected(c) \/ SenderSends(c) \/ SenderFailed(c)
  \/ SenderSent(c) \/ SenderFinds(c) \/ SenderFrees(c)

Next ==
  \/ MainStep
  \/ \E c \in Clients :
       Connect(c) \/ PeerCloses(c) \/ Receive(c) \/ ClientClosed(c) \/ SenderStep(c)
  \/ \E s \in Commands : Command(s)

\* The threads run, and the event loop serves every channel; peers and
\* operator do as they like.
Spec ==
  /\ Init /\ [][Next]_vars
  /\ WF_vars(MainStep)
  /\ \A c \in Clients :
       WF_vars(SenderStep(c)) /\ SF_vars(Receive(c)) /\ SF_vars(ClientClosed(c))

-----------------------------------------------------------------------------
(* Properties.                                                             *)

ClientStates == {"none", "C_HEADER", "C_DATA", "C_PROTOCOL_ERROR", "C_DISCONNECTED"}

\* Types; the event loop only knows clients that may still send, and a
\* sender that is inside a message has one.
TypeOK ==
  /\ process \in {"up", "undefined"} /\ session \in Commands
  /\ {head, current} \subseteq Clients \cup {NoClient}
  /\ \A c \in Clients :
       /\ client[c].state \in ClientStates
       /\ client[c].headers \in {"none", "few", "needed", "all"}
       /\ chan[c] => client[c].state \in {"C_HEADER", "C_DATA"}
       /\ client[c].cbuf.tail \in DOMAIN client[c].cbuf.pages
       /\ sender[c].pc \in {"send", "sent"} => client[c].messages # <<>>

\* The units of a message as the sender will find them from a cursor on.
Found(b, cur, n) ==
  [i \in 1 .. n |-> Memory(b, cbuf_advance_cursor(b, cur, i - 1), 1)[1]]

\* Every queued message can be read back from its cursor, whatever the
\* sender has emptied, the receiver has overwritten and whatever pages were
\* inserted since it was stored; except if one began where a full page ends.
QueuedIntact ==
  \A c \in Clients : ~pageEnd[c] =>
    \A i \in DOMAIN client[c].messages :
      LET node == client[c].messages[i]
      IN  Found(client[c].cbuf, node.cursor, node.msg.len) = Units(node.msg)

\* All that was stored, unit by unit, and where its messages end.
All(c) == FlattenSeq([i \in DOMAIN stored[c] |-> Units(stored[c][i])])
Ends(c) == {Len(FlattenSeq([i \in 1 .. n |-> Units(stored[c][i])])) : n \in 0 .. Len(stored[c])}

\* How much of it has been forwarded when connection n takes over: all
\* messages that went out whole.
Forwarded(c) ==
  LET ends == Ends(c)
      data(w) == IF w = <<>> THEN 0 ELSE Len(w) - 1
      after[n \in 0 .. Len(wire[c])] ==
        IF n = 0 THEN 0
        ELSE LET units == after[n - 1] + data(wire[c][n])
             IN  CHOOSE e \in ends : e <= units /\ \A f \in ends : f <= units => f <= e
  IN  after

\* Connection w begins with the headers, even if damaged or cut, and nothing
\* follows what was cut.
Headed(w) ==
  /\ w[1] \in {HeaderUnit, DamagedHeaders, CutHeaders}
  /\ w[1] = CutHeaders => Len(w) = 1

ForwardsVerbatim(c) ==
  LET all == All(c)
      forwarded == Forwarded(c)
  IN  \A n \in 1 .. Len(wire[c]) :
        LET w == wire[c][n]
            from == forwarded[n - 1]
        IN  w # <<>> =>
              /\ Headed(w)
              /\ Len(w) - 1 + from <= Len(all)
              /\ Tail(w) = SubSeq(all, from + 1, from + Len(w) - 1)

\* "the client measurement streams are stored in the buffer without
\* translation, and then simply replayed": each downstream connection has
\* the headers and then the messages in order, from the first one that no
\* earlier connection took whole; except behind the end of a full page.  The
\* messages are all it says of a connection on which a send() of the headers
\* was short: their lines are then damaged (sender.c:93-103) and yet followed
\* by the messages.  Headers that a failed send() cut are followed by nothing.
ReplayedUntilPageEnd == \A c \in Clients : ~pageEnd[c] => ForwardsVerbatim(c)

\* A client that has gone is forwarded and freed if the operator lets the
\* session send and, since wake-ups can be missed, repeats the command; unless
\* two threads changed the list at a time and it is no longer there.
EventuallyForwarded ==
  <>[](session = "SENDING") /\ []<><<Command("SENDING")>>_vars =>
    \A c \in Clients :
      (client[c].state = "C_DISCONNECTED") ~>
        (Freed(c) \/ c \notin InList \/ process = "undefined")
=============================================================================
