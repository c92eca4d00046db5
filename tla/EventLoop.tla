----------------------------- MODULE EventLoop ------------------------------
(***************************************************************************)
(* The event loop of both servers: lib/ocomm/eventloop.c, with the         *)
(* listening half of lib/ocomm/socket.c and the owners of the channels as  *)
(* the programs have them: one listening socket and the connections that   *)
(* it accepts.                                                             *)
(*                                                                         *)
(* el is the EventLoop object.  channels is its linked list and fds the    *)
(* part of it that poll() watches; active, removable and shutting are the  *)
(* sets of channels with that flag; the arrays fds and fds_channels keep   *)
(* their contents when update_fds() makes them shorter, which is why the   *)
(* channel that is being served has a variable of its own.                 *)
(*                                                                         *)
(* A step is what happens between two calls out of the loop (poll(),       *)
(* recv(), a callback), so that a signal, whose handler calls              *)
(* eventloop_terminate(), can come between any two of them.                *)
(***************************************************************************)
EXTENDS Integers, Sequences, FiniteSets, SequencesExt, Functions

CONSTANTS
  Conns,          \* connections that peers may open
  L,              \* the listening socket
  Owner,          \* whose callbacks: "server" or "proxy"
  Faults,         \* what may happen: see Adversity, TimerFires, Terminate
  Timeout,        \* socket_timeout, 0 to disable
  Period,         \* period of the one timer
  MaxRecv,        \* bound: bytes returned by one recv()
  Cases,          \* bounds: [conns: who connects, bytes: how much they send,
                  \*          timer: is there a timer]
  MaxTime,        \* bound: clock
  MaxLuck         \* bound: faults

ASSUME EventLoopAssumption ==
  /\ L \notin Conns /\ Owner \in {"server", "proxy"}
  /\ Timeout \in Nat /\ Period \in Nat \ {0}
  /\ \A k \in Cases : k.conns \subseteq Conns /\ k.bytes \in Nat /\ k.timer \in BOOLEAN
  /\ MaxRecv \in Nat \ {0} /\ MaxTime \in Nat /\ MaxLuck \in Nat

VARIABLES
  el,             \* the EventLoop object
  timer,          \* the timer: is_active, due_time
  pc,             \* where eventloop_run() is
  timeout,        \* its local variable
  i,              \* its loop index
  ch,             \* the channel it serves
  len,            \* result of the last recv(): the bytes in hand
  revents,        \* what poll() reported
  sock,           \* the sockets: see NewSocket
  clock, luck, case,      \* bounds
  sent, got, told,        \* history: see Connection
  sentAt, sentLate        \* history: time of the last byte; sent after poll()

loopVars == <<el, timer, pc, timeout, i, ch, len, revents>>
history == <<sent, got, told, sentAt, sentLate>>
vars == <<loopVars, sock, clock, luck, case, history>>

Chans == Conns \cup {L}
Adversity(f) == f \in Faults /\ luck < MaxLuck /\ luck' = luck + 1

-----------------------------------------------------------------------------
(* Operations on the EventLoop object, named after their functions.        *)

\* eventloop_init(), and eventloop_run() before its loop.
eventloop_init ==
  [channels |-> <<>>, active |-> {}, removable |-> {}, shutting |-> {}, freed |-> {},
   last_activity |-> [c \in Chans |-> 0], fds |-> <<>>, fds_dirty |-> FALSE,
   stopping |-> FALSE, force_stop |-> FALSE, now |-> 1]

\* The channels of list s that are in A, in the order of the list.
Kept(s, A) ==
  LET kept[n \in 0 .. Len(s)] ==
        IF n = 0 THEN <<>>
        ELSE IF s[n] \in A THEN Append(kept[n - 1], s[n]) ELSE kept[n - 1]
  IN  kept[Len(s)]

eventloop_socket_activate(l, c, flag) ==
  IF (c \in l.active) = flag THEN l
  ELSE [l EXCEPT !.active = IF flag THEN @ \cup {c} ELSE @ \ {c}, !.fds_dirty = TRUE]

eventloop_socket_release(l, c) ==
  [eventloop_socket_activate(l, c, FALSE) EXCEPT !.removable = @ \cup {c}]

\* Deactivated, unlinked and freed, one channel after the other.
Removed(l, R) ==
  [l EXCEPT !.active = @ \ R, !.fds_dirty = @ \/ l.active \cap R # {},
            !.channels = Kept(@, Range(@) \ R), !.freed = @ \cup R]
eventloop_socket_remove(l, c) == Removed(l, {c})

channel_new(l, c) ==
  eventloop_socket_activate([l EXCEPT !.channels = <<c>> \o @], c, TRUE)

eventloop_on_monitor_in_channel(l, c) == channel_new(l, c)
\* Variant: the channel is registered and not activated.
ReadInactive(l, c) == [l EXCEPT !.channels = <<c>> \o @, !.last_activity[c] = l.now]
eventloop_on_read_in_channel(l, c) ==
  [channel_new(l, c) EXCEPT !.last_activity[c] = l.now]

update_fds(l) ==
  [l EXCEPT !.fds = Kept(l.channels, l.active), !.fds_dirty = FALSE]

\* Channels that terminate_fds() releases; the others are shut down.
\* Variant: a listening socket is treated like a connection.
ReleasedInactive(l) == {c \in Range(l.channels) : c \notin l.active \/ l.force_stop}
Released(l) ==
  {c \in Range(l.channels) : c \notin l.active \/ c = L \/ l.force_stop}

terminate_fds(l) ==
  update_fds([l EXCEPT !.active = @ \ Released(l), !.removable = @ \cup Released(l),
                       !.shutting = @ \cup (Range(l.channels) \ Released(l))])

eventloop_stop(l) == terminate_fds([l EXCEPT !.stopping = TRUE])
eventloop_terminate(l) == eventloop_stop([l EXCEPT !.force_stop = TRUE])

-----------------------------------------------------------------------------
(* Sockets and peers.                                                      *)

\* net: bytes not received yet.  state: "none" before the peer connects,
\* "backlog" until accept(), then "open", "shut" after shutdown(), "closed".
\* err: what poll() or recv() will report.
NewSocket == [net |-> 0, eof |-> FALSE, state |-> "none", err |-> "none"]

\* socket_close(): what was not read is gone.
socket_close(s, c) == [s EXCEPT ![c] = [NewSocket EXCEPT !.state = "closed"]]

\* The loop looks at sockets and at the clock only here: what happens in
\* between is as if it had happened there.
Outside == pc \in {"polling", "chan", "hup"}

PeerConnects(c) ==
  /\ Outside /\ c \in case.conns /\ sock[c].state = "none" /\ sock[L].state = "open"
  /\ sock' = [sock EXCEPT ![c].state = "backlog"]
  /\ UNCHANGED <<loopVars, clock, case, luck, history>>

TotalSent == FoldFunction(+, 0, sent)
PeerSends(c) ==
  /\ Outside /\ sock[c].state \in {"backlog", "open"} /\ ~sock[c].eof /\ sock[c].err = "none"
  /\ TotalSent < case.bytes
  /\ sock' = [sock EXCEPT ![c].net = @ + 1]
  /\ sent' = [sent EXCEPT ![c] = @ + 1]
  /\ sentAt' = [sentAt EXCEPT ![c] = clock]
  /\ sentLate' = sentLate \cup {c}
  /\ UNCHANGED <<loopVars, clock, case, luck, got, told>>

PeerCloses(c) ==
  /\ Outside /\ sock[c].state \in {"backlog", "open"} /\ ~sock[c].eof
  /\ sock' = [sock EXCEPT ![c].eof = TRUE]
  /\ UNCHANGED <<loopVars, clock, case, luck, history>>

\* The connection is reset, its descriptor becomes invalid or, before the
\* loop looks at it, comes to name something that is not a socket.
SocketBreaks(c) ==
  /\ Outside /\ sock[c].state = "open" /\ sock[c].err = "none"
  /\ \E e \in {"reset", "refused", "invalid", "notsock"} :
       /\ e = "notsock" => pc = "polling"
       /\ Adversity(e) /\ sock' = [sock EXCEPT ![c].err = e]
  /\ UNCHANGED <<loopVars, clock, case, history>>

Tick ==
  /\ pc = "polling" /\ clock < MaxTime /\ clock' = clock + 1
  /\ UNCHANGED <<loopVars, sock, luck, case, history>>

\* What poll() may report of a channel.  A peer that has closed shows up as
\* readable or, on some systems and after shutdown(), as hung up.
Events(c) ==
  CASE c = L -> {IF \E d \in Conns : sock[d].state = "backlog" THEN "POLLIN" ELSE "none"}
    [] c # L /\ sock[c].err = "invalid" -> {"POLLNVAL"}
    [] c # L /\ sock[c].err \in {"reset", "refused"} -> {"POLLERR"}
    [] c # L /\ sock[c].err = "notsock" -> {"POLLIN"}
    [] c # L /\ sock[c].err = "none" /\ sock[c].state = "shut" -> {"POLLHUP"}
    [] c # L /\ sock[c].err = "none" /\ sock[c].state = "open" ->
         IF sock[c].eof THEN {"POLLIN", "POLLHUP"}
         ELSE {IF sock[c].net > 0 THEN "POLLIN" ELSE "none"}
    [] OTHER -> {"none"}

-----------------------------------------------------------------------------
(* The owners' callbacks: client_callback() and status_callback() of the   *)
(* server and of the proxy.                                                *)

\* The owner gives a connection up: client_handler_free(), or socket_close()
\* and eventloop_socket_remove() in the proxy.
Abandoned(l, c) ==
  IF Owner = "server" THEN eventloop_socket_release(l, c) ELSE eventloop_socket_remove(l, c)

\* Statuses for which it does.
Final == IF Owner = "server" THEN {"SOCKET_CONN_CLOSED", "SOCKET_IDLE"}
         ELSE {"SOCKET_CONN_CLOSED"}

\* client_callback(): the owner may find a protocol error.
read_cbk(c) ==
  \/ UNCHANGED <<el, sock, luck>>
  \/ Adversity("protocol") /\ el' = Abandoned(el, c) /\ sock' = socket_close(sock, c)

\* status_callback(), in loop state l.
status_cbk(l, c, status) ==
  /\ told' = [told EXCEPT ![c] = Append(@, status)]
  /\ IF status \in Final
     THEN el' = Abandoned(l, c) /\ sock' = socket_close(sock, c)
     ELSE el' = l /\ UNCHANGED sock

do_status_callback(l, c, status) ==
  \/ c \in l.removable /\ el' = l /\ UNCHANGED <<sock, told>>
  \/ c \notin l.removable /\ status_cbk(l, c, status)

\* The next n bytes, unless the channel has been released.
do_read_callback(c, n) ==
  \/ c \in el.removable /\ UNCHANGED <<el, sock, luck, got>>
  \/ /\ c \notin el.removable
     /\ got' = [got EXCEPT ![c] = @ \o [k \in 1 .. n |-> sent[c] - sock[c].net - n + k]]
     /\ read_cbk(c)

-----------------------------------------------------------------------------
(* eventloop_run().                                                        *)

Quiet == UNCHANGED <<clock, case, sent, sentAt, timer, timeout>>

LoopExits ==
  /\ pc = "top" /\ el.stopping /\ (el.fds = <<>> \/ el.force_stop)
  /\ pc' = "done"
  /\ UNCHANGED <<el, timer, timeout, i, ch, len, revents, sock, clock, case, luck, history>>

\* The earliest timer, and update_fds().
NoTimeout == -1
LoopTurns ==
  /\ pc = "top" /\ ~(el.stopping /\ (el.fds = <<>> \/ el.force_stop))
  /\ timeout' = IF ~timer.is_active THEN NoTimeout
                ELSE IF timer.due_time < el.now THEN 0 ELSE timer.due_time - el.now
  /\ el' = IF el.fds_dirty THEN update_fds(el) ELSE el
  /\ pc' = IF el.fds_dirty /\ el'.fds = <<>> /\ timeout' < 0 THEN "top" ELSE "poll"
  /\ UNCHANGED <<timer, i, ch, len, revents, sock, clock, case, luck, history>>

PollCalled ==
  /\ pc = "poll" /\ pc' = "polling"
  /\ UNCHANGED <<el, timer, timeout, i, ch, len, revents, sock, clock, case, luck, history>>

PollReturns ==
  /\ pc = "polling" /\ pc' = "chan" /\ i' = 1
  /\ revents' \in [Chans -> {"none", "POLLIN", "POLLHUP", "POLLERR", "POLLNVAL"}]
  /\ \A c \in Chans :
       IF c \in Range(el.fds) THEN revents'[c] \in Events(c) ELSE revents'[c] = "none"
  /\ \E c \in Chans : revents'[c] # "none"
  /\ el' = [el EXCEPT !.now = clock]
  /\ sentLate' = {}
  /\ UNCHANGED <<timer, timeout, ch, len, sock, clock, case, luck, sent, got, told, sentAt>>

AfterEvents == IF timeout >= 0 THEN "timers" ELSE "top"

\* Nothing to report.  Times after MaxTime are not told apart from MaxTime.
NoEvents ==
  /\ pc = "polling" /\ \A c \in Range(el.fds) : "none" \in Events(c)
  /\ el' = [el EXCEPT !.now = clock]
  /\ pc' = AfterEvents
  /\ UNCHANGED <<timer, timeout, i, ch, len, revents, sock, clock, case, luck, history>>

PollTimesOut ==
  timeout >= 0 /\ (clock >= el.now + timeout \/ clock = MaxTime) /\ NoEvents

\* A signal whose handler does nothing to the loop: SIGUSR1.
PollInterrupted == NoEvents

\* The loop over fds: the event of the i-th channel.
At(c, event) ==
  /\ pc = "chan" /\ i <= Len(el.fds) /\ c = el.fds[i] /\ revents[c] = event
  /\ ch' = c
  /\ Quiet /\ UNCHANGED <<i, revents, sentLate>>

\* recv() on a channel in error.  Bytes that it still returns are dropped.
ErrBytes(c) ==
  /\ At(c, "POLLERR") /\ sock[c].net > 0
  /\ \E n \in 1 .. MaxRecv :
       n <= sock[c].net /\ sock' = [sock EXCEPT ![c].net = @ - n]
  /\ pc' = "tail"
  /\ UNCHANGED <<el, len, luck, got, told>>

ErrStatus(c) ==
  /\ At(c, "POLLERR") /\ sock[c].net = 0
  /\ do_status_callback(eventloop_socket_activate(el, c, FALSE), c,
       IF sock[c].err = "refused" THEN "SOCKET_CONN_REFUSED" ELSE "SOCKET_UNKNOWN")
  /\ pc' = "tail"
  /\ UNCHANGED <<len, luck, got>>

Hup(c) ==
  /\ At(c, "POLLHUP")
  /\ el' = eventloop_socket_activate(el, c, FALSE)
  /\ pc' = "hup"
  /\ UNCHANGED <<len, sock, luck, got, told>>

\* Bytes are returned up to a full buffer.
HupRecv ==
  /\ pc = "hup" /\ sock[ch].net > 0
  /\ len' = IF sock[ch].net > MaxRecv THEN MaxRecv ELSE sock[ch].net
  /\ sock' = [sock EXCEPT ![ch].net = @ - len']
  /\ pc' = "hupdata"
  /\ Quiet /\ UNCHANGED <<el, i, ch, revents, luck, got, told, sentLate>>

\* Variant: what has not been read is left.
HupOnce ==
  /\ pc = "hup"
  /\ do_status_callback(el, ch, "SOCKET_CONN_CLOSED")
  /\ pc' = "tail"
  /\ Quiet /\ UNCHANGED <<i, ch, len, revents, luck, got, sentLate>>
HupClosed ==
  /\ pc = "hup" /\ sock[ch].net = 0
  /\ do_status_callback(el, ch, "SOCKET_CONN_CLOSED")
  /\ pc' = "tail"
  /\ Quiet /\ UNCHANGED <<i, ch, len, revents, luck, got, sentLate>>

\* Variant: activity is not noted.
InRecvUnnoted(c) ==
  /\ c # L /\ At(c, "POLLIN") /\ sock[c].net > 0 /\ sock[c].err # "notsock"
  /\ len' = IF sock[c].net > MaxRecv THEN MaxRecv ELSE sock[c].net
  /\ sock' = [sock EXCEPT ![c].net = @ - len']
  /\ pc' = "data"
  /\ UNCHANGED <<el, luck, got, told>>
InRecv(c) ==
  /\ c # L /\ At(c, "POLLIN") /\ sock[c].net > 0 /\ sock[c].err # "notsock"
  /\ len' = IF sock[c].net > MaxRecv THEN MaxRecv ELSE sock[c].net
  /\ sock' = [sock EXCEPT ![c].net = @ - len']
  /\ el' = [el EXCEPT !.last_activity[c] = el.now]
  /\ pc' = "data"
  /\ UNCHANGED <<luck, got, told>>

\* The callback with the bytes in hand.
DataRead ==
  /\ pc \in {"data", "hupdata"}
  /\ do_read_callback(ch, len)
  /\ pc' = IF pc = "data" THEN "tail" ELSE "hup"
  /\ len' = 0
  /\ Quiet /\ UNCHANGED <<i, ch, revents, told, sentLate>>

InClosed(c) ==
  /\ c # L /\ At(c, "POLLIN") /\ sock[c].net = 0 /\ sock[c].eof /\ sock[c].err = "none"
  /\ do_status_callback(
       [eventloop_socket_activate(el, c, FALSE) EXCEPT !.last_activity[c] = el.now],
       c, "SOCKET_CONN_CLOSED")
  /\ pc' = "tail"
  /\ UNCHANGED <<len, luck, got>>

\* recv() fails, for an error that came after poll(): logged.
InFails(c) ==
  /\ c # L /\ At(c, "POLLIN") /\ sock[c].net = 0 /\ sock[c].err \notin {"none", "notsock"}
  /\ el' = [el EXCEPT !.last_activity[c] = el.now]
  /\ pc' = "tail"
  /\ UNCHANGED <<len, sock, luck, got, told>>

\* ENOTSOCK: the channel is freed at once, and the loop goes on with it.
InNotSocket(c) ==
  /\ c # L /\ At(c, "POLLIN") /\ sock[c].err = "notsock"
  /\ el' = eventloop_socket_remove([el EXCEPT !.last_activity[c] = el.now], c)
  /\ pc' = "undefined"
  /\ UNCHANGED <<len, sock, luck, got, told>>

InListener ==
  /\ At(L, "POLLIN") /\ pc' = "monitor"
  /\ UNCHANGED <<el, len, sock, luck, got, told>>

\* do_monitor_callback(): on_client_connect() and client_handler_new().  The
\* handle of a released channel is NULL.
Accept ==
  /\ pc = "monitor"
  /\ \/ /\ L \in el.removable /\ pc' = "crashed"
        /\ UNCHANGED <<el, sock, luck>>
     \/ /\ L \notin el.removable /\ pc' = "tail"
        /\ \E c \in Conns :
             /\ sock[c].state = "backlog"
             /\ \/ /\ sock' = [sock EXCEPT ![c].state = "open"]
                   /\ el' = eventloop_on_read_in_channel(el, c)
                   /\ UNCHANGED luck
                \/ /\ Adversity("accept")
                   /\ sock' = socket_close(sock, c)
                   /\ UNCHANGED el
  /\ Quiet /\ UNCHANGED <<i, ch, len, revents, got, told, sentLate>>

\* No event: a channel that is shutting down has nothing left to say.
Silent(c) ==
  /\ \E e \in {"none", "POLLNVAL"} : At(c, e)
  /\ el' = IF c \in el.shutting THEN eventloop_socket_release(el, c) ELSE el
  /\ pc' = "tail"
  /\ UNCHANGED <<len, sock, luck, got, told>>

Invalid ==
  /\ pc = "tail" /\ pc' = "idle"
  /\ IF revents[ch] = "POLLNVAL"
     THEN do_status_callback(eventloop_socket_activate(el, ch, FALSE), ch, "SOCKET_DROPPED")
     ELSE UNCHANGED <<el, sock, told>>
  /\ Quiet /\ UNCHANGED <<i, ch, len, revents, luck, got, sentLate>>

IsIdle(c) ==
  /\ el.last_activity[c] # 0 /\ Timeout > 0
  /\ el.now - el.last_activity[c] > Timeout

Reap ==
  /\ pc = "idle" /\ pc' = "chan" /\ i' = i + 1
  /\ IF IsIdle(ch) THEN do_status_callback(el, ch, "SOCKET_IDLE")
     ELSE UNCHANGED <<el, sock, told>>
  /\ Quiet /\ UNCHANGED <<ch, len, revents, luck, got, sentLate>>

\* What the round has used is not looked at again.
RoundEnds == i' = 1 /\ ch' = L /\ revents' = [c \in Chans |-> "none"]

\* The released channels among those polled are removed.
\* Variant: the first one is missed.
SweepShort ==
  /\ pc = "chan" /\ i > Len(el.fds)
  /\ el' = Removed(el, {el.fds[k] : k \in 2 .. Len(el.fds)} \cap el.removable)
  /\ pc' = AfterEvents /\ RoundEnds
  /\ Quiet /\ UNCHANGED <<len, sock, luck, got, told, sentLate>>
Sweep ==
  /\ pc = "chan" /\ i > Len(el.fds)
  /\ el' = Removed(el, Range(el.fds) \cap el.removable)
  /\ pc' = AfterEvents /\ RoundEnds
  /\ Quiet /\ UNCHANGED <<len, sock, luck, got, told, sentLate>>

\* A periodic timer: the next due time that has not passed.
NextDue(due, now) ==
  IF due + Period >= now THEN due + Period
  ELSE due + Period * ((now - due + Period - 1) \div Period)

Shutdown(l) ==
  sock' = [c \in Chans |->
             IF c \in l.shutting /\ sock[c].state = "open" THEN [sock[c] EXCEPT !.state = "shut"]
             ELSE sock[c]]

\* The callback of the timer may stop the loop.
TimerFires ==
  /\ pc = "timers" /\ timer.is_active /\ timer.due_time <= el.now
  /\ timer' = [timer EXCEPT !.due_time = NextDue(@, el.now)]
  /\ \/ UNCHANGED <<el, sock>>
     \/ "stop" \in Faults /\ ~el.stopping /\ el' = eventloop_stop(el) /\ Shutdown(el')
  /\ pc' = "top"
  /\ UNCHANGED <<timeout, i, ch, len, revents, clock, case, luck, sent, got, told, sentAt, sentLate>>

TimerNotDue ==
  /\ pc = "timers" /\ timer.due_time > el.now
  /\ pc' = "top"
  /\ UNCHANGED <<el, timer, timeout, i, ch, len, revents, sock, clock, case, luck, history>>

\* sighandler(), wherever the loop is; it interrupts poll().
Terminate ==
  /\ pc \notin {"done", "crashed", "undefined"} /\ "sigterm" \in Faults /\ ~el.force_stop
  /\ el' = [eventloop_terminate(el) EXCEPT !.now = IF pc = "polling" THEN clock ELSE @]
  /\ pc' = IF pc = "polling" THEN AfterEvents ELSE pc
  /\ sock' = [c \in Chans |->
                IF c \in el.active \ {L} THEN socket_close(sock, c)[c] ELSE sock[c]]
  /\ UNCHANGED <<timer, timeout, i, ch, len, revents, clock, case, luck, history>>

-----------------------------------------------------------------------------
\* socket_server_new(): the listening socket is registered before the loop.
Init ==
  /\ case \in Cases
  /\ el = eventloop_on_monitor_in_channel(eventloop_init, L)
  /\ timer = [is_active |-> case.timer, due_time |-> 1 + Period]
  /\ pc = "top" /\ timeout = NoTimeout /\ i = 1 /\ ch = L /\ len = 0
  /\ revents = [c \in Chans |-> "none"]
  /\ sock = [c \in Chans |-> IF c = L THEN [NewSocket EXCEPT !.state = "open"] ELSE NewSocket]
  /\ clock = 1 /\ luck = 0
  /\ sent = [c \in Conns |-> 0] /\ got = [c \in Conns |-> <<>>]
  /\ told = [c \in Conns |-> <<>>]
  /\ sentAt = [c \in Conns |-> 0] /\ sentLate = {}

Environment ==
  \/ \E c \in Conns : PeerConnects(c) \/ PeerSends(c) \/ PeerCloses(c) \/ SocketBreaks(c)
  \/ Tick \/ Terminate \/ PollInterrupted

Channel ==
  \/ \E c \in Chans : ErrBytes(c) \/ ErrStatus(c) \/ Hup(c) \/ InRecv(c) \/ InClosed(c)
                      \/ InFails(c) \/ InNotSocket(c) \/ Silent(c)
  \/ InListener \/ Accept \/ HupRecv \/ HupClosed \/ DataRead \/ Invalid \/ Reap

Loop ==
  \/ LoopExits \/ LoopTurns \/ PollCalled \/ PollReturns \/ PollTimesOut
  \/ Channel \/ Sweep \/ TimerFires \/ TimerNotDue

Next == Environment \/ Loop

\* The thread of the loop runs, poll() returns when there is something to
\* report, and time passes.  Nothing is assumed of peers and signals.
Spec == Init /\ [][Next]_vars /\ WF_vars(Loop) /\ SF_vars(Tick)

-----------------------------------------------------------------------------
(* Properties.                                                             *)

State(c) ==
  IF c \in el.removable \cup el.freed THEN "released"
  ELSE IF c \notin Range(el.channels) THEN "new"
  ELSE IF told[c] # <<>> THEN "failed" ELSE "open"

Promise(c) ==
  INSTANCE Connection WITH sent <- sent[c], got <- got[c], told <- told[c], state <- State(c)

\* Every connection behaves as its owner is promised, whatever order events,
\* callbacks that release channels and signals come in: data in order and
\* once, SOCKET_CONN_CLOSED after all data, nothing after the release.
ConnectionsBehave ==
  /\ \A c \in Conns : Promise(c)!Init
  /\ [][\A c \in Conns : Promise(c)!Next \/ UNCHANGED Promise(c)!vars]_vars

\* A client is dropped for idleness only if it has not sent anything for the
\* socket timeout, or sent it after poll() had returned, or its connection
\* is broken.
IdleMeansSilent ==
  [][\A c \in Conns :
       told'[c] # told[c] /\ Last(told'[c]) = "SOCKET_IDLE"
       => \/ c \in sentLate \/ sock[c].err # "none"
          \/ el.now - sentAt[c] > Timeout]_vars

\* The channel that the loop goes on to use.
Served ==
  IF pc \in {"hup", "hupdata", "data", "tail", "idle", "monitor", "undefined"} THEN {ch} ELSE {}
\* The loop refers only to channels that have not been freed, and every
\* channel released in a round has been freed when the round ends.  The one
\* exception is the channel that it frees itself when recv() fails with
\* ENOTSOCK, and uses in the rest of the round (eventloop.c:360-409).
ChannelMemory ==
  /\ \A c \in Served \cap el.freed : sock[c].err = "notsock"
  /\ pc = "chan" => Range(el.fds) \cap el.freed = {}
  /\ pc = "top" /\ ~el.stopping => Range(el.channels) \cap el.removable = {}

\* The process has gone another way: the listening socket was served after
\* its release, and on_client_connect() read its NULL handle (socket.c:412);
\* or a freed channel was used, after ENOTSOCK.
Broken == pc \in {"crashed", "undefined"}

\* A peer that closes its connection is noticed: its owner is told, or has
\* released the channel; unless the process breaks down before.
PeerCloseNoticed ==
  \A c \in Conns :
    sock[c].state = "open" /\ sock[c].eof
    ~> told[c] # <<>> \/ c \in el.removable \/ Broken

\* Waiting in poll() for nothing, after a signal that came just before it.
SignalMissed == pc = "polling" /\ el.stopping /\ el.fds = <<>> /\ timeout < 0

\* The signal itself has brought the process down: it came after poll() had
\* reported a connection and before accept(), and released the listening
\* socket, whose NULL handle on_client_connect() reads (socket.c:412).
CrashedBySignal ==
  pc = "crashed" /\ el.force_stop /\ L \in el.removable /\ revents[L] = "POLLIN"

\* Once told to stop (eventloop_stop(), eventloop_terminate()), the loop
\* returns, with three exceptions: it missed the signal, the signal crashed
\* the process as above, or a channel freed after ENOTSOCK was used.
StopsUnlessMissed ==
  el.stopping ~> pc = "done" \/ SignalMissed \/ CrashedBySignal \/ pc = "undefined"

=============================================================================
