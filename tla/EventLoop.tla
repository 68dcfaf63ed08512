----------------------------- MODULE EventLoop -----------------------------
(***************************************************************************)
(* py_src/event_driven.py and Client.py: one thread polls epoll, keeps the *)
(* interest of each descriptor in events, and calls a read or a write      *)
(* handler for each descriptor reported.  The peers act at any time, also  *)
(* between a poll and the handler of what it reported.                     *)
(*                                                                         *)
(* The sockets and epoll are external: a connection is the bytes on their  *)
(* way to the server and what the peer has done to it.  A request is sent  *)
(* in two pieces, "begin" and "end"; "empty" is a complete request whose   *)
(* parsed form is false in Python.                                         *)
(***************************************************************************)
EXTENDS Integers, FiniteSets, FiniteSetsExt, Sequences, SequencesExt

CONSTANTS Conn,       \* the connections peers open
          Fd,         \* the descriptors connections get
          ListenFd,   \* the descriptor of the listening socket
          MaxPieces,  \* bound: pieces a peer sends
          EmptyRequests, Resets   \* whether peers send empty requests, reset connections

(* The kernel has a descriptor for every connection that is accepted: the  *)
(* limit on open files is not reached.                                     *)
ASSUME FdAssumption ==
  /\ Fd \subseteq Nat /\ ListenFd \in Nat \ Fd
  /\ IsFiniteSet(Conn) /\ IsFiniteSet(Fd) /\ Cardinality(Conn) <= Cardinality(Fd)

ASSUME BoundAssumption == MaxPieces \in Nat

VARIABLES conn,      \* the connections, and the client object of each
          events,    \* EventLoop.events: descriptor -> FileEvent
          interest,  \* what epoll watches: descriptor -> READABLE, WRITEABLE
          readys,    \* what is left to handle of EventLoop.readys
          running    \* no exception has left process_event

vars == <<conn, events, interest, readys, running>>

R == "READABLE"
W == "WRITEABLE"

NoFd == -1   \* fileno() of a closed socket, and of one not accepted yet

(* wire: received by the kernel, not read; parser: fed, not yet returned   *)
(* by gets(); reply: the number of replies in client.reply; answered: those*)
(* sent; asked: the requests the peer completed, empty ones apart.         *)
NewConn == [state |-> "new", fd |-> NoFd, wire |-> <<>>, pieces |-> 0, asked |-> 0,
            parser |-> <<>>, reply |-> 0, answered |-> 0]

Piece == {"begin", "end", "empty"}

TypeOK ==
  /\ conn \in [Conn -> [state : {"new", "backlog", "open", "fin", "rst", "closed"},
                        fd : Fd \cup {NoFd}, wire : Seq(Piece), pieces : 0 .. MaxPieces,
                        asked : Nat, parser : Seq(Piece), reply : Nat, answered : Nat]]
  /\ DOMAIN events \subseteq Fd \cup {ListenFd}
  /\ \A fd \in DOMAIN events : events[fd].mask \subseteq {R, W}
  /\ DOMAIN interest \subseteq Fd \cup {ListenFd}
  /\ \A fd \in DOMAIN interest : interest[fd] \in (SUBSET {R, W}) \ {{}}
  /\ \A r \in readys : r.fd \in Fd \cup {ListenFd} /\ r.mask \subseteq {R, W}
  /\ running \in BOOLEAN

Listener == "listener"

Init ==
  /\ conn = [c \in Conn |-> NewConn]
  /\ events = [fd \in {ListenFd} |-> [mask |-> {R}, client |-> Listener]]
  /\ interest = [fd \in {ListenFd} |-> {R}]
  /\ readys = {}
  /\ running = TRUE

With(f, x, y)  == [z \in DOMAIN f \cup {x} |-> IF z = x THEN y ELSE f[z]]
Without(f, x)  == [z \in DOMAIN f \ {x} |-> f[z]]

-----------------------------------------------------------------------------
(* The peers. *)

Connect(c) ==
  /\ conn[c].state = "new"
  /\ conn' = [conn EXCEPT ![c].state = "backlog"]
  /\ UNCHANGED <<events, interest, readys, running>>

MidRequest(c) ==
  LET sent == conn[c].parser \o conn[c].wire
  IN  sent # <<>> /\ Last(sent) = "begin"

Send(c) ==
  /\ conn[c].state \in {"backlog", "open"}
  /\ conn[c].pieces < MaxPieces
  /\ \E p \in Piece :
       /\ p = "end" <=> MidRequest(c)
       /\ p = "empty" => EmptyRequests
       /\ conn' = [conn EXCEPT ![c].wire = Append(@, p), ![c].pieces = @ + 1,
                               ![c].asked = IF p = "end" THEN @ + 1 ELSE @]
  /\ UNCHANGED <<events, interest, readys, running>>

(* The peer ends its side, or resets the connection. *)
HangUp(c) ==
  /\ conn[c].state = "open"
  /\ conn' = [conn EXCEPT ![c].state = "fin"]
  /\ UNCHANGED <<events, interest, readys, running>>

Reset(c) ==
  /\ Resets
  /\ conn[c].state \in {"open", "fin"}
  /\ conn' = [conn EXCEPT ![c].state = "rst"]
  /\ UNCHANGED <<events, interest, readys, running>>

-----------------------------------------------------------------------------
(* epoll. *)

Owner(fd) == CHOOSE c \in Conn : conn[c].fd = fd

(* The flags the kernel reports: it reports errors without being asked.    *)
Flags(fd) ==
  IF fd = ListenFd
  THEN IF \E c \in Conn : conn[c].state = "backlog" THEN {"IN"} ELSE {}
  ELSE LET c == conn[Owner(fd)]
       IN  (IF R \in interest[fd] /\ (c.wire # <<>> \/ c.state \in {"fin", "rst"})
            THEN {"IN"} ELSE {})
           \cup (IF W \in interest[fd] THEN {"OUT"} ELSE {})
           \cup (IF c.state = "rst" THEN {"ERR", "HUP"} ELSE {})

(* event_poll compares the flags for equality.                             *)
ReadyMask(flags) ==
  IF flags = {"IN"} THEN {R}
  ELSE IF flags \in {{"OUT"}, {"ERR"}, {"HUP"}} THEN {W} ELSE {}

event_poll ==
  /\ running /\ readys = {}
  /\ readys' = {[fd |-> fd, mask |-> ReadyMask(Flags(fd))] : fd \in {x \in DOMAIN interest : Flags(x) # {}}}
  /\ readys' # {}
  /\ UNCHANGED <<conn, events, interest, running>>

-----------------------------------------------------------------------------
(* The handlers, on a record s of what they change.                        *)

State == [conn |-> conn, events |-> events, interest |-> interest, running |-> running]

Crash(s) == [s EXCEPT !.running = FALSE]

(* Mutated: the write interest is not registered when there is a FileEvent. *)
create_file_event_NotRegistered(s, fd, mask, client) ==
  LET known == fd \in DOMAIN s.events
      old   == IF known THEN s.events[fd].mask ELSE {}
  IN  [s EXCEPT !.interest = IF known THEN @ ELSE With(@, fd, mask),
                !.events = With(@, fd, [mask |-> old \cup mask, client |-> client])]

(* create_file_event, with event_add: the interest is registered, or       *)
(* replaced when the FileEvent has one.  register(-1) raises.              *)
create_file_event(s, fd, mask, client) ==
  LET old == IF fd \in DOMAIN s.events THEN s.events[fd].mask ELSE {}
  IN  IF fd = NoFd THEN Crash(s)
      ELSE [s EXCEPT !.interest = With(@, fd, mask),
                     !.events = With(@, fd, [mask |-> old \cup mask, client |-> client])]

(* Mutated: the read interest that create_file_event replaced stays away. *)
event_del_Replaced(s, fd, delmask, pending) ==
  LET mask == s.events[fd].mask \ delmask
  IN  [s EXCEPT !.events[fd].mask = mask, !.interest[fd] = @ \ delmask]

(* Mutated: the descriptor is closed whatever client.query holds. *)
event_del_Closed(s, fd, delmask, pending) ==
  LET client == s.events[fd].client
      mask   == s.events[fd].mask \ delmask
      left   == [s EXCEPT !.events[fd].mask = mask]
  IN  IF mask # {} THEN [left EXCEPT !.interest[fd] = mask]
      ELSE [left EXCEPT !.interest = Without(@, fd), !.events = Without(@, fd),
                        !.conn[client].fd = NoFd, !.conn[client].state = "closed"]

(* Mutated: the descriptor is not closed, whatever client.query holds. *)
event_del_NotClosed(s, fd, delmask, pending) ==
  LET mask == s.events[fd].mask \ delmask
      left == [s EXCEPT !.events[fd].mask = mask]
  IN  IF mask # {} THEN [left EXCEPT !.interest[fd] = mask]
      ELSE [left EXCEPT !.interest = Without(@, fd)]

event_del(s, fd, delmask, pending) ==
  LET client == s.events[fd].client
      mask   == s.events[fd].mask \ delmask
      left   == [s EXCEPT !.events[fd].mask = mask]
  IN  IF mask # {} THEN [left EXCEPT !.interest[fd] = mask]
      ELSE IF pending THEN [left EXCEPT !.interest = Without(@, fd)]
      ELSE [left EXCEPT !.interest = Without(@, fd), !.events = Without(@, fd),
                        !.conn[client].fd = NoFd, !.conn[client].state = "closed"]

(* What gets() returns: a request, an empty request, or nothing yet.       *)
IsRequest(q) == Len(q) >= 2 /\ q[1] = "begin"

(* The requests the loop of processInputBuff takes from the parser: it     *)
(* stops at the first result that is false.                                *)
Taken(q) ==
  LET n == CHOOSE n \in 0 .. Len(q) \div 2 :
             /\ \A i \in 0 .. n - 1 : IsRequest(SubSeq(q, 2 * i + 1, Len(q)))
             /\ ~IsRequest(SubSeq(q, 2 * n + 1, Len(q)))
  IN  n

Rest(q) ==
  LET left == SubSeq(q, 2 * Taken(q) + 1, Len(q))
  IN  IF left # <<>> /\ left[1] = "empty" THEN Tail(left) ELSE left

(* Mutated: one request of each read is answered, the others are dropped. *)
processInputBuff_Once(s, c, query) ==
  LET fed  == s.conn[c].parser \o query
      n    == Taken(fed)
      told == IF n > 0 THEN create_file_event(s, s.conn[c].fd, {W}, c) ELSE s
  IN  IF ~told.running THEN told
      ELSE [told EXCEPT !.conn[c].parser = Rest(fed), !.conn[c].reply = @ + Min({n, 1})]

processInputBuff(s, c, query) ==
  LET fed  == s.conn[c].parser \o query
      n    == Taken(fed)
      told == IF n > 0 THEN create_file_event(s, s.conn[c].fd, {W}, c) ELSE s
  IN  IF ~told.running THEN told
      ELSE [told EXCEPT !.conn[c].parser = Rest(fed), !.conn[c].reply = @ + n]

(* recv until it would block, or returns b'' at the end of the stream, or  *)
(* raises on a connection that was reset; processInputBuff runs in every   *)
(* case.                                                                   *)
read_qurey_from_client(s, c, mask) ==
  LET query == s.conn[c].wire
      read  == [s EXCEPT !.conn[c].wire = <<>>]
      seen  == IF s.conn[c].state = "fin"
               THEN event_del(read, s.conn[c].fd, mask, query # <<>>) ELSE read
      done  == processInputBuff(seen, c, query)
  IN  IF s.conn[c].state = "rst" THEN Crash(done) ELSE done

send_reply_to_client(s, c) ==
  LET sent == [s EXCEPT !.conn[c].answered = @ + s.conn[c].reply, !.conn[c].reply = 0]
  IN  IF s.conn[c].state = "rst" THEN Crash(s)
      ELSE event_del(sent, s.conn[c].fd, {W}, FALSE)

accept_tcp_handler(s, c) ==
  LET fd == Min({x \in Fd : \A d \in Conn : s.conn[d].fd # x})
  IN  create_file_event([s EXCEPT !.conn[c].fd = fd, !.conn[c].state = "open"], fd, {R}, c)

-----------------------------------------------------------------------------
(* One iteration of the loop in process_event.  epoll reports in any order.*)

Becomes(s) ==
  /\ conn' = s.conn /\ events' = s.events /\ interest' = s.interest /\ running' = s.running

Handle(r) ==
  LET fe == events[r.fd]
  IN  /\ running
      /\ readys' = readys \ {r}
      /\ \/ /\ R \in fe.mask \cap r.mask /\ r.fd = ListenFd
            /\ \E c \in Conn : conn[c].state = "backlog" /\ Becomes(accept_tcp_handler(State, c))
         \/ /\ R \in fe.mask \cap r.mask /\ r.fd # ListenFd
            /\ Becomes(read_qurey_from_client(State, fe.client, r.mask))
         \/ /\ R \notin fe.mask \cap r.mask /\ W \in fe.mask \cap r.mask
            /\ Becomes(send_reply_to_client(State, fe.client))
         \/ /\ fe.mask \cap r.mask = {}
            /\ Becomes(State)

Loop == event_poll \/ \E r \in readys : Handle(r)

Next ==
  \/ \E c \in Conn : Connect(c) \/ Send(c) \/ HangUp(c) \/ Reset(c)
  \/ Loop

(* The main loop never stops of itself: while True. *)
Spec == Init /\ [][Next]_vars /\ WF_vars(Loop)

-----------------------------------------------------------------------------
(* Invariants. *)

(* epoll watches a descriptor for nothing but what its FileEvent has a     *)
(* handler for, and watches every connection that has replies to send for  *)
(* being writeable: otherwise they would stay in client.reply.             *)
InterestServed ==
  running =>
    /\ \A fd \in DOMAIN interest : fd \in DOMAIN events /\ interest[fd] \subseteq events[fd].mask
    /\ \A c \in Conn : conn[c].reply > 0 =>
         conn[c].fd \in DOMAIN interest /\ W \in interest[conn[c].fd]

(* Every request a peer has completed is on the wire, in the parser, in    *)
(* client.reply or answered: none is lost and none is answered twice.      *)
Ends(q) == Cardinality({i \in DOMAIN q : q[i] = "end"})
RequestsConserved ==
  running => \A c \in Conn : conn[c].state # "closed" =>
    conn[c].asked = Ends(conn[c].wire) + Ends(conn[c].parser) + conn[c].reply + conn[c].answered

(* A connection that is open is watched by epoll, but for one case: its    *)
(* peer hung up in the middle of a request, or has sent an empty one.  Then*)
(* the descriptor is neither closed nor watched any more.                  *)
OpenIsWatched ==
  running => \A c \in Conn :
    conn[c].fd # NoFd /\ conn[c].fd \notin DOMAIN interest =>
      conn[c].state \in {"fin", "rst"} /\ (conn[c].parser # <<>> \/ conn[c].pieces > 2 * conn[c].asked)

(* epoll, events and the clients agree on what is waited for. *)
InterestKept == InterestServed /\ OpenIsWatched

(* Only two things take the loop down: a peer that resets its connection   *)
(* (recv and sendall raise), and a peer that has sent an empty request     *)
(* (what is left in the parser behind it is taken when the descriptor is   *)
(* closed, and register(-1) raises).  A peer that sends requests and ends  *)
(* its side at once does not, nor does a descriptor that is given again in *)
(* the batch of reports in which it was closed.                            *)
LoopStopsForAReason ==
  running \/ \E c \in Conn : conn[c].state = "rst" \/ conn[c].pieces > 2 * conn[c].asked

(* event_driven.py:76-81: process_event handles what epoll reports.  Every *)
(* report has a handler to call.                                           *)
ReadyIsActedOn == \A r \in readys : r.mask # {}

-----------------------------------------------------------------------------
(* Liveness, of a loop that is not stopped by an exception. *)

(* Every completed request is answered. *)
RequestsAnswered ==
  \A c \in Conn : conn[c].asked > conn[c].answered ~> conn[c].asked = conn[c].answered

(* The connection of a peer that hangs up between two requests is closed.  *)
HangUpIsNoticed ==
  \A c \in Conn : conn[c].state = "fin" /\ ~MidRequest(c) ~> conn[c].state = "closed"
=============================================================================
