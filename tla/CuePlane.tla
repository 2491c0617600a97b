------------------------------- MODULE CuePlane -------------------------------
(***************************************************************************)
(* The control plane from a datagram to the audio thread's object table:   *)
(*                                                                         *)
(*   OSC thread     receives a packet; transport commands go to the        *)
(*                  inbound mailbox, object commands through the sink into *)
(*                  cmd_fifo_; then it forwards the whole outbound mailbox *)
(*                  through the same sink                                  *)
(*   control loop   applies the inbound mailbox to CueEngine, ticks it and *)
(*                  posts what it emits to the outbound mailbox            *)
(*   audio thread   drains cmd_fifo_ into obj_cache_ and renders a block   *)
(*                                                                         *)
(* A frame is emitted object by object, as an ObjMove followed by an       *)
(* ObjActive; the other four commands of emitObject each write a field of  *)
(* their own the way ObjActive does.  The three queues are the bounded     *)
(* queues that CommandFifo implements.                                     *)
(***************************************************************************)
EXTENDS CueEngine, SequencesExt

CONSTANTS
    MailboxCap,   \* kCueMailboxCap
    FifoCap,      \* capacity of cmd_fifo_
    Packets,      \* the commands that arrive
    MaxPackets    \* bound: packets received

VARIABLES
    inbound,      \* inbound_mailbox_
    toPost,       \* the frames the running method of the engine has yet to emit
    left,         \* the objects of the first of them that are left
    part,         \* the command of the next of these objects that is due
    outbound,     \* outbound_mailbox_
    fifo,         \* cmd_fifo_
    cache,        \* obj_cache_
    udp,          \* the OSC thread: "receive" or "forward"
    received,     \* packets received so far
    drops,        \* inbound_drops_ and outbound_mailbox_drops_
    lost,         \* ghost: pushes of the sink that cmd_fifo_ refused
    touched       \* ghost: objects commanded directly since the last emission

emitVars == <<toPost, left, part>>
queueVars == <<inbound, emitVars, outbound, fifo>>
planeVars == <<vars, queueVars, cache, udp, received, drops, lost, touched>>

Transport == {"go", "next", "prev", "stop"}

-----------------------------------------------------------------------------
ObjMove(o, p) == [tag |-> "move", obj |-> o, pos |-> p]
ObjActive(o, a) == [tag |-> "active", obj |-> o, active |-> a]

\* Mutant of EmitObject: the discrete field first.
EmitObjectReversed(o, f) == <<ObjActive(o, f.active), ObjMove(o, f.pos)>>

EmitObject(o, f) == <<ObjMove(o, f.pos), ObjActive(o, f.active)>>

\* What the engine's clients can send.
ObjectCommands ==
    [tag : {"move"}, obj : Objects, pos : Int]
        \cup [tag : {"active"}, obj : Objects, active : BOOLEAN]

ASSUME PlaneAssumption ==
    /\ Objects \subseteq Nat /\ Objects # {}
    /\ {MailboxCap, FifoCap, MaxPackets} \subseteq Nat
    /\ \A c \in Packets :
          \/ c.tag \in Transport /\ (c.tag = "go" => c.index \in Indices)
          \/ c.tag \notin Transport /\ c \in ObjectCommands

-----------------------------------------------------------------------------
PlaneInit ==
    /\ Init
    /\ toPost = <<>> /\ left = Objects /\ part = 1
    /\ inbound = <<>> /\ outbound = <<>> /\ fifo = <<>>
    /\ cache = [o \in Objects |-> [pos |-> 0, active |-> FALSE]]
    /\ udp = "receive" /\ received = 0
    /\ drops = [inbound |-> 0, outbound |-> 0]
    /\ lost = 0 /\ touched = {}

(* The OSC thread.                                                         *)

\* The sink: what cmd_fifo_ refuses is gone.
Sink(c) ==
    /\ fifo' = IF Len(fifo) < FifoCap THEN Append(fifo, c) ELSE fifo
    /\ lost' = IF Len(fifo) < FifoCap THEN lost ELSE lost + 1

PostInbound(c) ==
    /\ inbound' = IF Len(inbound) < MailboxCap THEN Append(inbound, c) ELSE inbound
    /\ drops' = [drops EXCEPT !.inbound = IF Len(inbound) < MailboxCap THEN @ ELSE @ + 1]

Receive ==
    /\ udp = "receive" /\ received < MaxPackets
    /\ \E c \in Packets :
          IF c.tag \in Transport
          THEN PostInbound(c) /\ UNCHANGED <<fifo, lost, touched>>
          ELSE /\ Sink(c)
               /\ touched' = touched \cup {c.obj}
               /\ UNCHANGED <<inbound, drops>>
    /\ received' = received + 1
    /\ udp' = "forward"
    /\ UNCHANGED <<vars, emitVars, outbound, cache>>

\* recvfrom times out after 100 ms.
ReceiveNothing ==
    /\ udp = "receive"
    /\ udp' = "forward"
    /\ UNCHANGED <<vars, queueVars, cache, received, drops, lost, touched>>

\* Mutant of Forward: the mailbox is drained only if a packet has come.
ForwardAfterPacket ==
    /\ udp = "forward" /\ outbound # <<>> /\ received < MaxPackets
    /\ Sink(Head(outbound))
    /\ outbound' = Tail(outbound)
    /\ UNCHANGED <<vars, inbound, emitVars, cache, udp, received, drops, touched>>

Forward ==
    /\ udp = "forward" /\ outbound # <<>>
    /\ Sink(Head(outbound))
    /\ outbound' = Tail(outbound)
    /\ UNCHANGED <<vars, inbound, emitVars, cache, udp, received, drops, touched>>

ForwardDone ==
    /\ udp = "forward" /\ outbound = <<>>
    /\ udp' = "receive"
    /\ UNCHANGED <<vars, queueVars, cache, received, drops, lost, touched>>

(* The control loop.                                                       *)

WakeLoop ==
    /\ toPost = <<>>
    /\ Wake
    /\ UNCHANGED <<queueVars, cache, udp, received, drops, lost, touched>>

\* A method of the engine has run: its emission is now to be posted, and
\* overrides what was commanded directly before.
Emitting ==
    /\ toPost' = burst'
    /\ touched' = IF burst' = <<>> THEN touched ELSE {}
    /\ UNCHANGED <<left, part>>

ApplyInbound ==
    /\ toPost = <<>> /\ inbound # <<>>
    /\ inbound' = Tail(inbound)
    /\ LET c == Head(inbound)
       IN  CASE c.tag = "go"   -> CueGoTo(c.index)
             [] c.tag = "next" -> CueNext
             [] c.tag = "prev" -> CuePrev
             [] c.tag = "stop" -> CueStop
    /\ Emitting
    /\ UNCHANGED <<outbound, fifo, cache, udp, received, drops, lost>>

TickEngine ==
    /\ toPost = <<>> /\ inbound = <<>>
    /\ Tick
    /\ Emitting
    /\ UNCHANGED <<inbound, outbound, fifo, cache, udp, received, drops, lost>>

\* The loops over the frames, their objects and the commands of an object.
Posted(o, cmds) ==
    IF part < Len(cmds) THEN part' = part + 1 /\ UNCHANGED <<toPost, left>>
    ELSE /\ part' = 1
         /\ IF left = {o} THEN toPost' = Tail(toPost) /\ left' = Objects
                          ELSE left' = left \ {o} /\ UNCHANGED toPost

\* emit_: drop-and-count when the mailbox is full.
Post ==
    /\ toPost # <<>>
    /\ LET o    == Min(left)
           cmds == EmitObject(o, Head(toPost)[o])
       IN  /\ Posted(o, cmds)
           /\ IF Len(outbound) < MailboxCap
              THEN outbound' = Append(outbound, cmds[part]) /\ UNCHANGED drops
              ELSE drops' = [drops EXCEPT !.outbound = @ + 1] /\ UNCHANGED outbound
    /\ UNCHANGED <<vars, inbound, fifo, cache, udp, received, lost, touched>>

(* The audio thread, at the start of a block.                              *)

Apply(table, c) ==
    [table EXCEPT ![c.obj] =
        IF c.tag = "move" THEN [pos |-> c.pos, active |-> TRUE]
                          ELSE [@ EXCEPT !.active = c.active]]

Drain ==
    /\ fifo # <<>>
    /\ cache' = Apply(cache, Head(fifo))
    /\ fifo' = Tail(fifo)
    /\ UNCHANGED <<vars, inbound, emitVars, outbound, udp, received, drops, lost, touched>>

-----------------------------------------------------------------------------
OscThread == Receive \/ ReceiveNothing \/ Forward \/ ForwardDone
ControlLoop == WakeLoop \/ ApplyInbound \/ TickEngine \/ Post
PlaneNext == OscThread \/ ControlLoop \/ Drain

PlaneSpec == PlaneInit /\ [][PlaneNext]_planeVars

\* All three threads keep running, the OSC thread by its receive timeout.
PlaneFairSpec ==
    /\ PlaneSpec
    /\ WF_planeVars(ReceiveNothing) /\ WF_planeVars(Forward) /\ WF_planeVars(ForwardDone)
    /\ WF_planeVars(ApplyInbound \/ TickEngine) /\ WF_planeVars(Post) /\ WF_planeVars(WakeLoop)
    /\ WF_planeVars(Drain)

-----------------------------------------------------------------------------
(* Properties.                                                             *)

\* The audio thread has drained the queue and renders the block from the table.
Rendering == fifo = <<>>

InTransit == toPost # <<>> \/ outbound # <<>> \/ fifo # <<>>

\* What the engine tracks is what the audio thread plays: the engine never
\* reads obj_cache_, so unless a queue overflowed, once nothing is in transit
\* the table holds, for every object nobody commanded directly since, the
\* frame emitted last.  ObjMove re-activates, so the order matters.
TableFollowsEngine ==
    ~InTransit /\ drops.outbound = 0 /\ lost = 0 =>
        \A o \in Objects \ touched : cache[o] = sent[o]

\* Nothing stays on its way for ever, however the three threads interleave: a
\* transport command is applied, and its frames reach the table.  (Once the
\* model's clock has run out the loop wakes no more.)
Settles ==
    InTransit \/ inbound # <<>>
        ~> ~InTransit /\ (inbound = <<>> \/ now = MaxTime)

===============================================================================
