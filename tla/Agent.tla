--------------------------------- MODULE Agent ---------------------------------
(***************************************************************************)
(* The one connection between the driver and the agent in a guest          *)
(* (pkg/agent/client.go, server.go).  Every caller of Client.Exec, Ping,   *)
(* ReadFile, WriteFile and ConfigureNet is a goroutine; c.mu is held from  *)
(* the request to its response, so calls queue.  Stop closes the           *)
(* connection without taking that lock.  The server answers one request    *)
(* after the other.  A call is also its request id: seq never repeats.     *)
(***************************************************************************)
EXTENDS Naturals, Sequences

CONSTANTS
  Calls,        \* the calls ever made over the connection
  NoCall        \* no call

ASSUME NoCallAssumption == NoCall \notin Calls

VARIABLES
  call,         \* where each caller is in roundTrip
  holder,       \* c.mu
  conn,         \* the connection: not made, open, closed by the host, or broken
                \* by the guest's end
  stopping,     \* Instance.Stop has begun
  sent,         \* requests on their way to the guest
  replies,      \* responses on their way to the host, by request id
  server,       \* the guest's goroutine for the connection, and its request
  ran           \* how often the guest has carried out each request

vars == <<call, holder, conn, stopping, sent, replies, server, ran>>

CallOrNone == Calls \cup {NoCall}

TypeOK ==
  /\ call \in [Calls -> {"idle", "queued", "send", "recv", "answered", "failed",
                         "crossed"}]
  /\ holder \in CallOrNone
  /\ conn \in {"none", "open", "closed", "broken"}
  /\ stopping \in BOOLEAN
  /\ sent \in Seq(Calls)
  /\ replies \in Seq(Calls)
  /\ server \in [pc : {"decode", "handle", "encode", "ended"}, cur : CallOrNone]
  /\ ran \in [Calls -> Nat]

Init ==
  /\ call = [c \in Calls |-> "idle"]
  /\ holder = NoCall
  /\ conn = "none"
  /\ stopping = FALSE
  /\ sent = <<>>
  /\ replies = <<>>
  /\ server = [pc |-> "decode", cur |-> NoCall]
  /\ ran = [c \in Calls |-> 0]

-----------------------------------------------------------------------------
(* Client.roundTrip *)

Goto(c, pc) == call' = [call EXCEPT ![c] = pc]

\* The deferred unlock.
Return(c, result) == Goto(c, result) /\ holder' = NoCall

\* The driver dials once; the client and its calls exist from then on.
Dial ==
  /\ conn = "none"
  /\ conn' = "open"
  /\ UNCHANGED <<call, holder, stopping, sent, replies, server, ran>>

\* The id is taken before the lock, so ids need not be sent in order.
Request(c) ==
  /\ conn # "none"
  /\ call[c] = "idle"
  /\ Goto(c, "queued")
  /\ UNCHANGED <<holder, conn, stopping, sent, replies, server, ran>>

\* Faulty: the lock is not taken.
LockNot(c) ==
  /\ call[c] = "queued"
  /\ Goto(c, "send")
  /\ UNCHANGED <<holder, conn, stopping, sent, replies, server, ran>>

Lock(c) ==
  /\ call[c] = "queued"
  /\ holder = NoCall
  /\ holder' = c
  /\ Goto(c, "send")
  /\ UNCHANGED <<conn, stopping, sent, replies, server, ran>>

\* A write to a connection whose other end is gone may still succeed.
Send(c) ==
  /\ call[c] = "send"
  /\ \/ /\ conn # "closed"
        /\ sent' = Append(sent, c)
        /\ Goto(c, "recv")
        /\ UNCHANGED holder
     \/ /\ conn # "open"
        /\ Return(c, "failed")
        /\ UNCHANGED sent
  /\ UNCHANGED <<conn, stopping, replies, server, ran>>

\* A response that is in the decoder's buffer is read even after a Close.
Recv(c) ==
  /\ call[c] = "recv"
  /\ \/ /\ replies # <<>>
        /\ replies' = Tail(replies)
        /\ Return(c, IF Head(replies) = c THEN "answered" ELSE "crossed")
     \/ /\ conn = "closed" \/ (conn = "broken" /\ replies = <<>>)
        /\ Return(c, "failed")
        /\ UNCHANGED replies
  /\ UNCHANGED <<conn, stopping, sent, server, ran>>

-----------------------------------------------------------------------------
(* Instance.Stop and the end of the VM *)

BeginStop ==
  /\ stopping' = TRUE
  /\ UNCHANGED <<call, holder, conn, sent, replies, server, ran>>

\* Faulty: Close waits for the call in flight.
CloseLocked ==
  /\ stopping
  /\ conn # "none"
  /\ holder = NoCall
  /\ conn' = "closed"
  /\ UNCHANGED <<call, holder, stopping, sent, replies, server, ran>>

Close ==
  /\ stopping
  /\ conn # "none"
  /\ conn' = "closed"
  /\ UNCHANGED <<call, holder, stopping, sent, replies, server, ran>>

\* The guest's end takes its server along, and what it had not answered.
GuestEnds ==
  /\ server' = [pc |-> "ended", cur |-> NoCall]
  /\ conn' = IF conn = "open" THEN "broken" ELSE conn
  /\ UNCHANGED <<call, holder, stopping, sent, replies, ran>>

-----------------------------------------------------------------------------
(* Server.handleConn *)

\* A request written before a Close is still read after it.
Decode ==
  /\ server.pc = "decode"
  /\ \/ /\ sent # <<>>
        /\ server' = [pc |-> "handle", cur |-> Head(sent)]
        /\ sent' = Tail(sent)
     \/ /\ sent = <<>> /\ conn = "closed"
        /\ server' = [pc |-> "ended", cur |-> NoCall]
        /\ UNCHANGED sent
  /\ UNCHANGED <<call, holder, conn, stopping, replies, ran>>

\* Faulty: a failed command is run again before the answer.
HandleAgain ==
  /\ server.pc = "handle"
  /\ ran' = [ran EXCEPT ![server.cur] = @ + 1]
  /\ \/ server' = [server EXCEPT !.pc = "encode"]
     \/ UNCHANGED server
  /\ UNCHANGED <<call, holder, conn, stopping, sent, replies>>

\* The operation, which may fail and may, for a command, last for ever.
Handle ==
  /\ server.pc = "handle"
  /\ ran' = [ran EXCEPT ![server.cur] = @ + 1]
  /\ server' = [server EXCEPT !.pc = "encode"]
  /\ UNCHANGED <<call, holder, conn, stopping, sent, replies>>

Encode ==
  /\ server.pc = "encode"
  /\ \/ /\ conn = "open"
        /\ replies' = Append(replies, server.cur)
        /\ server' = [pc |-> "decode", cur |-> NoCall]
     \/ /\ conn = "closed"
        /\ server' = [pc |-> "ended", cur |-> NoCall]
        /\ UNCHANGED replies
  /\ UNCHANGED <<call, holder, conn, stopping, sent, ran>>

-----------------------------------------------------------------------------
RoundTrip(c) == Lock(c) \/ Send(c) \/ Recv(c)

Next == \/ \E c \in Calls : Request(c) \/ RoundTrip(c)
        \/ Dial \/ BeginStop \/ Close \/ GuestEnds
        \/ Decode \/ Handle \/ Encode

Spec == Init /\ [][Next]_vars

-----------------------------------------------------------------------------
(* Properties *)

InFlight(c) == call[c] \in {"queued", "send", "recv"}

\* No caller ever reads the response to somebody else's request: the check of
\* the id (client.go:38) never fires, for one request is in flight at a time
\* and a failed call leaves a dead connection behind. (client.go roundTrip)
NoCrossedAnswers == \A c \in Calls : call[c] # "crossed"

EndFreesCaller(c) == (stopping \/ conn # "open") /\ InFlight(c) ~> ~InFlight(c)

Outcome(c) == CASE call[c] = "idle" -> "idle"
                [] InFlight(c)      -> "pending"
                [] OTHER            -> IF call[c] = "answered" THEN "answered" ELSE "failed"

AtMostOnce == INSTANCE AgentCalls WITH
                outcome <- [c \in Calls |-> Outcome(c)],
                times <- ran

\* Every interleaving of callers, server and Stop is at-most-once execution
\* with answers that are true. (client.go, server.go)
ImplementsAtMostOnce == AtMostOnce!Spec
=============================================================================
