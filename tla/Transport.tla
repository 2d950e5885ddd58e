----------------------------- MODULE Transport -----------------------------
(***************************************************************************)
(* The TCP server (src/src/transport/server.rs) between the fleet and the  *)
(* dispatch core: one handler task and one writer task per connection, the *)
(* registry that says by which connection a robot is reached, and the pump *)
(* that takes assignments from the scheduler's dispatch channel.           *)
(*                                                                         *)
(* A robot may connect again while the handler of its former connection is *)
(* still running: the front end aborts a fleet and launches the next one   *)
(* without waiting for the server (main.rs, relaunch_fleet), and nothing   *)
(* tells two connections of one robot apart but the order in which their   *)
(* handlers come to the registry.                                          *)
(*                                                                         *)
(* What heartbeats and reports do to the store and the scheduler is the    *)
(* business of module Scheduler; here they are frames that are taken from  *)
(* the socket.                                                             *)
(***************************************************************************)
EXTENDS Naturals, Sequences

CONSTANTS
    Robots,         \* RobotId
    NoRobot,        \* whose a connection is that was not opened yet
    MaxConns,       \* bound of the model on connections
    MaxUplink,      \* bound of the model on frames in a socket, upwards
    MaxDispatches   \* bound of the model on assignments made

ASSUME NamesAssumption == NoRobot \notin Robots
ASSUME BoundsAssumption ==
    MaxConns \in Nat /\ MaxUplink \in Nat /\ MaxDispatches \in Nat

VARIABLES
    owner,     \* the robot that speaks on a connection
    client,    \* the robot's end: "unused", "open" or "closed"
    up,        \* frames sent by the robot and not yet read
    got,       \* downlink frames the robot has received
    handler,   \* where the connection's handler is
    writer,    \* "none", "running" or "ended"
    down,      \* the connection's downlink channel
    known,     \* robots that are in the store's robot table
    registry,  \* ConnectionRegistry
    target,    \* robots of the assignments made so far, in the order sent
    pumped,    \* how many of them the pump has taken
    dropped    \* those the pump found no connection for

serverVars == <<handler, writer, down, known, registry>>
pumpVars == <<target, pumped, dropped>>
vars == <<owner, client, up, got, serverVars, pumpVars>>

\* Connections are numbered in the order in which they are opened.
Conns == 1..MaxConns
NoConn == 0  \* no entry in the registry

\* A heartbeat and a report differ only in what they do beyond this module.
ClientMsg == {"Register", "Report", "Undecodable"}

\* On the way down an assignment is its number, the acknowledgement is 0.
RegisterAck == 0
ServerMsg == 0..MaxDispatches

\* The places where a handler awaits or where others can come in between.
Phases == {"none", "first", "onboarded", "listed", "reading", "unlisting",
           "releasing", "joining", "ended", "refused"}

TypeOK ==
    /\ owner \in [Conns -> Robots \cup {NoRobot}]
    /\ client \in [Conns -> {"unused", "open", "closed"}]
    /\ up \in [Conns -> Seq(ClientMsg)]
    /\ got \in [Conns -> Seq(ServerMsg)]
    /\ handler \in [Conns -> Phases]
    /\ writer \in [Conns -> {"none", "running", "ended"}]
    /\ down \in [Conns -> Seq(ServerMsg)]
    /\ known \subseteq Robots
    /\ registry \in [Robots -> Conns \cup {NoConn}]
    /\ target \in Seq(Robots)
    /\ Len(target) <= MaxDispatches
    /\ pumped \in 0..Len(target)
    /\ dropped \subseteq 1..pumped

Init ==
    /\ owner = [c \in Conns |-> NoRobot]
    /\ client = [c \in Conns |-> "unused"]
    /\ up = [c \in Conns |-> <<>>]
    /\ got = [c \in Conns |-> <<>>]
    /\ handler = [c \in Conns |-> "none"]
    /\ writer = [c \in Conns |-> "none"]
    /\ down = [c \in Conns |-> <<>>]
    /\ known = {}
    /\ registry = [r \in Robots |-> NoConn]
    /\ target = <<>>
    /\ pumped = 0
    /\ dropped = {}

----------------------------------------------------------------------------
(* The robots' ends.                                                       *)

\* A robot, or a second incarnation of it, connects; the accept loop spawns
\* the handler.  (The time in the backlog is time before its first step.)
Connect(c, r) ==
    /\ client[c] = "unused"
    /\ \A d \in 1..(c - 1) : client[d] # "unused"
    /\ client' = [client EXCEPT ![c] = "open"]
    /\ owner' = [owner EXCEPT ![c] = r]
    /\ handler' = [handler EXCEPT ![c] = "first"]
    /\ UNCHANGED <<up, got, writer, down, known, registry, pumpVars>>

\* What is sent after the handler has left its loop is read by nobody.
SendUp(c, f) ==
    /\ client[c] = "open"
    /\ handler[c] \in {"first", "onboarded", "listed", "reading"}
    /\ Len(up[c]) < MaxUplink
    /\ up' = [up EXCEPT ![c] = Append(@, f)]
    /\ UNCHANGED <<owner, client, got, serverVars, pumpVars>>

\* The robot's task is aborted, or it sees that the server hung up.
Close(c) ==
    /\ client[c] = "open"
    /\ client' = [client EXCEPT ![c] = "closed"]
    /\ UNCHANGED <<owner, up, got, serverVars, pumpVars>>

----------------------------------------------------------------------------
(* handle_connection.                                                      *)

MoveTo(c, phase) == handler' = [handler EXCEPT ![c] = phase]

\* The next frame, if there is one.
Frame(c, f) ==
    /\ up[c] # <<>> /\ Head(up[c]) = f
    /\ up' = [up EXCEPT ![c] = Tail(@)]

\* What ends the reading: a frame that cannot be decoded, the end of the
\* stream, or a reset that discards what was still in the socket.
Hangup(c) ==
    /\ client[c] = "closed" \/ (up[c] # <<>> /\ Head(up[c]) = "Undecodable")
    /\ up' = [up EXCEPT ![c] = <<>>]

\* Waiting for the first Register: other frames are ignored.
ReadFirst(c) ==
    /\ handler[c] = "first"
    /\ \/ /\ Frame(c, "Register")
          /\ known' = known \cup {owner[c]}
          /\ MoveTo(c, "onboarded")
       \/ /\ Frame(c, "Report")
          /\ UNCHANGED <<known, handler>>
       \/ /\ Hangup(c)
          /\ MoveTo(c, "refused")
          /\ UNCHANGED known
    /\ UNCHANGED <<owner, client, got, writer, down, registry, pumpVars>>

\* registry.insert: an entry of another connection is replaced.
Insert(c) ==
    /\ handler[c] = "onboarded"
    /\ registry' = [registry EXCEPT ![owner[c]] = c]
    /\ MoveTo(c, "listed")
    /\ UNCHANGED <<owner, client, up, got, writer, down, known, pumpVars>>

\* The acknowledgement goes down the channel and the writer is spawned.
Acknowledge(c) ==
    /\ handler[c] = "listed"
    /\ down' = [down EXCEPT ![c] = Append(@, RegisterAck)]
    /\ writer' = [writer EXCEPT ![c] = "running"]
    /\ MoveTo(c, "reading")
    /\ UNCHANGED <<owner, client, up, got, known, registry, pumpVars>>

\* One turn of the read loop; a second Register is ignored.
Read(c) ==
    /\ handler[c] = "reading"
    /\ \/ /\ \E f \in ClientMsg \ {"Undecodable"} : Frame(c, f)
          /\ UNCHANGED handler
       \/ /\ Hangup(c)
          /\ MoveTo(c, "unlisting")
    /\ UNCHANGED <<owner, client, got, writer, down, known, registry, pumpVars>>

MutantUnlist(c) ==
    /\ handler[c] = "unlisting"
    /\ MoveTo(c, "releasing")
    /\ UNCHANGED <<owner, client, up, got, writer, down, known, registry,
                   pumpVars>>

\* registry.remove(&robot_id): the robot's entry, whosever it is by now.
Unlist(c) ==
    /\ handler[c] = "unlisting"
    /\ registry' = [registry EXCEPT ![owner[c]] = NoConn]
    /\ MoveTo(c, "releasing")
    /\ UNCHANGED <<owner, client, up, got, writer, down, known, pumpVars>>

\* drop(down_tx).
Release(c) ==
    /\ handler[c] = "releasing"
    /\ MoveTo(c, "joining")
    /\ UNCHANGED <<owner, client, up, got, writer, down, known, registry,
                   pumpVars>>

\* writer_task.await.
Join(c) ==
    /\ handler[c] = "joining" /\ writer[c] = "ended"
    /\ MoveTo(c, "ended")
    /\ UNCHANGED <<owner, client, up, got, writer, down, known, registry,
                   pumpVars>>

----------------------------------------------------------------------------
(* The writer task of a connection.                                        *)

MutantSenders(c) ==
    \/ handler[c] \in {"listed", "reading", "unlisting", "releasing", "joining"}
    \/ \E r \in Robots : registry[r] = c

\* Somebody can still send into the downlink channel: the handler holds one
\* end until it drops it, the registry the other.
Senders(c) ==
    \/ handler[c] \in {"listed", "reading", "unlisting", "releasing"}
    \/ \E r \in Robots : registry[r] = c

MutantWrite(c) ==
    /\ writer[c] = "running" /\ down[c] # <<>> /\ client[c] = "open"
    /\ got' = [got EXCEPT ![c] = Append(@, Head(down[c]))]
    /\ UNCHANGED <<down, owner, client, up, handler, writer, known, registry,
                   pumpVars>>

\* A frame reaches the robot.  The socket of an open connection has room again
\* and again: the robot reads it between its drives.
Write(c) ==
    /\ writer[c] = "running" /\ down[c] # <<>> /\ client[c] = "open"
    /\ down' = [down EXCEPT ![c] = Tail(@)]
    /\ got' = [got EXCEPT ![c] = Append(@, Head(down[c]))]
    /\ UNCHANGED <<owner, client, up, handler, writer, known, registry,
                   pumpVars>>

MutantWriteInVain(c) ==
    /\ writer[c] = "running" /\ down[c] # <<>> /\ client[c] = "closed"
    /\ \/ /\ down' = [down EXCEPT ![c] = Tail(@)]
          /\ UNCHANGED writer
       \/ /\ writer' = [writer EXCEPT ![c] = "ended"]
          /\ UNCHANGED down
    /\ UNCHANGED <<owner, client, up, got, handler, known, registry, pumpVars>>

\* The robot is gone: the write goes into the void, or it fails and the
\* channel goes with its receiver.
WriteInVain(c) ==
    /\ writer[c] = "running" /\ down[c] # <<>> /\ client[c] = "closed"
    /\ \/ /\ down' = [down EXCEPT ![c] = Tail(@)]
          /\ UNCHANGED writer
       \/ /\ down' = [down EXCEPT ![c] = <<>>]
          /\ writer' = [writer EXCEPT ![c] = "ended"]
    /\ UNCHANGED <<owner, client, up, got, handler, known, registry, pumpVars>>

MutantWriterEnds(c) ==
    /\ writer[c] = "running" /\ ~Senders(c)
    /\ writer' = [writer EXCEPT ![c] = "ended"]
    /\ down' = [down EXCEPT ![c] = <<>>]
    /\ UNCHANGED <<owner, client, up, got, handler, known, registry, pumpVars>>

\* The channel is closed when it is empty and nobody can send into it.
WriterEnds(c) ==
    /\ writer[c] = "running" /\ down[c] = <<>> /\ ~Senders(c)
    /\ writer' = [writer EXCEPT ![c] = "ended"]
    /\ UNCHANGED <<owner, client, up, got, handler, down, known, registry,
                   pumpVars>>

----------------------------------------------------------------------------
(* The dispatch channel and dispatch_pump.                                 *)

\* The scheduler hands a task to a robot that the store knows.
Dispatch(r) ==
    /\ Len(target) < MaxDispatches
    /\ r \in known
    /\ target' = Append(target, r)
    /\ UNCHANGED <<owner, client, up, got, serverVars, pumped, dropped>>

MutantPump ==
    LET n == pumped + 1
        c == registry[target[n]]
    IN  /\ pumped < Len(target)
        /\ pumped' = IF c = NoConn THEN pumped ELSE n
        /\ dropped' = IF c = NoConn THEN dropped \cup {n} ELSE dropped
        /\ down' = IF c \in Conns /\ writer[c] # "ended"
                   THEN [down EXCEPT ![c] = Append(@, n)] ELSE down
        /\ UNCHANGED <<owner, client, up, got, handler, writer, known,
                       registry, target>>

\* registry.get and the send happen under the registry's lock.  A channel
\* whose writer has ended takes nothing any more.
Pump ==
    LET n == pumped + 1
        c == registry[target[n]]
    IN  /\ pumped < Len(target)
        /\ pumped' = n
        /\ dropped' = IF c = NoConn THEN dropped \cup {n} ELSE dropped
        /\ down' = IF c \in Conns /\ writer[c] # "ended"
                   THEN [down EXCEPT ![c] = Append(@, n)] ELSE down
        /\ UNCHANGED <<owner, client, up, got, handler, writer, known,
                       registry, target>>

----------------------------------------------------------------------------

HandlerStep(c) ==
    \/ ReadFirst(c) \/ Insert(c) \/ Acknowledge(c) \/ Read(c)
    \/ Unlist(c) \/ Release(c) \/ Join(c)

WriterStep(c) == Write(c) \/ WriteInVain(c) \/ WriterEnds(c)

Fleet ==
    \E c \in Conns :
        \/ \E r \in Robots : Connect(c, r)
        \/ \E f \in ClientMsg : SendUp(c, f)
        \/ Close(c)

Next ==
    \/ Fleet
    \/ \E c \in Conns : HandlerStep(c) \/ WriterStep(c)
    \/ \E r \in Robots : Dispatch(r)
    \/ Pump

Spec == Init /\ [][Next]_vars

\* Every handler, every writer and the pump is a task of its own, which the
\* runtime polls as long as it is ready.
Fairness ==
    /\ \A c \in Conns : WF_vars(HandlerStep(c)) /\ WF_vars(WriterStep(c))
    /\ WF_vars(Pump)

FairSpec == Spec /\ Fairness

----------------------------------------------------------------------------
(* What the transport promises.                                            *)

(* The registry never names a connection whose handler has taken its robot *)
(* off, nor one of another robot: whichever way the handlers of two        *)
(* connections of one robot interleave, the pump never sends into a channel *)
(* that nobody will close.                                                 *)
EntryIsServed ==
    \A r \in Robots, c \in Conns :
        registry[r] = c =>
            /\ owner[c] = r
            /\ handler[c] \in {"listed", "reading", "unlisting"}

\* What went, or still goes, down a connection.
Downlink(c) == got[c] \o down[c]

(* Down a connection go assignments of its own robot, in the order the     *)
(* scheduler made them, and none of them twice, neither on one connection  *)
(* nor on two connections of the robot; the pump dropped none of them.     *)
InOrderAndOnce ==
    /\ \A c \in Conns : \A i \in 1..Len(Downlink(c)) :
        LET n == Downlink(c)[i]
        IN  n # RegisterAck =>
                /\ n <= pumped /\ n \notin dropped
                /\ target[n] = owner[c]
                /\ \A j \in 1..(i - 1) : Downlink(c)[j] < n
    /\ \A c, d \in Conns :
        \A i \in 1..Len(Downlink(c)), j \in 1..Len(Downlink(d)) :
            Downlink(c)[i] = Downlink(d)[j] /\ c # d
                => Downlink(c)[i] = RegisterAck

(* A connection that the robot has left does not linger: its handler comes *)
(* to its end, with the writer it waits for.                               *)
ConnectionEnds ==
    \A c \in Conns :
        client[c] = "closed" ~>
            /\ handler[c] \in {"ended", "refused"}
            /\ writer[c] # "running"

(* What the pump has put into the channel of a connection is lost only     *)
(* with the robot: not when the server hangs up after an undecodable frame, *)
(* nor when a second connection takes the entry over.                      *)
NothingLost ==
    [][\A c \in Conns :
          Len(Downlink(c)') < Len(Downlink(c)) => client[c] = "closed"]_vars

(* And it does not stay in the channel.                                    *)
ChannelDrains ==
    \A c \in Conns : down[c] # <<>> ~> down[c] = <<>>

(* server.rs:187: the dispatch of a robot is dropped when the robot is off *)
(* line, and the registry has no channel of it.  So none is dropped while  *)
(* a handler reads from an open connection of the robot.                   *)
DroppedOnlyOffLine ==
    [][\A n \in dropped' \ dropped :
          ~ \E c \in Conns : /\ owner[c] = target[n]
                             /\ client[c] = "open"
                             /\ handler[c] = "reading"]_vars
=============================================================================
