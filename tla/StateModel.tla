------------------------------ MODULE StateModel ------------------------------
(***************************************************************************)
(* The object state kept by sequence number: commands come over UDP, where *)
(* they are lost, doubled and overtaken, and one that is not newer than    *)
(* the last applied to its object is dropped.  Drops that come thick are   *)
(* told to the client, from a ring of the times of the last ones.          *)
(*                                                                         *)
(* A command is told apart by its number, so a field holds the number of   *)
(* the command that set it (0: none has).  The engine records the name of  *)
(* the SOFA file it was asked for here; of the rest the tests are the only *)
(* callers (SpatialEngine.cpp:210).                                        *)
(***************************************************************************)
EXTENDS Naturals, Sequences, FiniteSets

CONSTANTS
    Stream,             \* the commands a client sends, by number
    STATE_MAX_OBJECTS,
    WINDOW_SIZE, BURST_THRESH, WINDOW_MS,
    SofaNames,
    MaxArrivals,        \* bound: packets that arrive
    MaxClock            \* bound: the time

FieldOf == [ObjMove |-> "place", ObjGain |-> "gain", ObjActive |-> "active", ObjAlgo |-> "algo"]
Fields == {FieldOf[tag] : tag \in DOMAIN FieldOf}

\* More drops are remembered than make a burst.
ASSUME StateAssumption ==
    /\ BURST_THRESH \in 1 .. WINDOW_SIZE /\ WINDOW_SIZE \in Nat /\ WINDOW_MS \in Nat
    /\ STATE_MAX_OBJECTS \in Nat \ {0} /\ MaxArrivals \in Nat /\ MaxClock \in Nat

ASSUME StreamAssumption ==
    /\ DOMAIN Stream \subseteq Nat
    /\ \A s \in DOMAIN Stream : Stream[s].tag \in DOMAIN FieldOf => Stream[s].obj \in Nat

VARIABLES
    objects, default_algo, osc_reordered_drops, burst_alerts, reorder_window,
    pending_sofa_name,
    clock, arrivals,
    heard,      \* history: the numbers that have arrived since the last reset
    lateAt      \* history: when a command came that was not the newest

stateVars == <<objects, default_algo, osc_reordered_drops, burst_alerts, reorder_window,
               pending_sofa_name, clock, arrivals, heard, lateAt>>

ObjectEntry == [last_applied_seq |-> 0, valid |-> FALSE, set |-> [f \in Fields |-> 0]]
NoObjects == [o \in 0 .. STATE_MAX_OBJECTS - 1 |-> ObjectEntry]
ReorderWindow == [times |-> [i \in 0 .. WINDOW_SIZE - 1 |-> 0], head |-> 0, count |-> 0]

StateInit ==
    /\ objects = NoObjects /\ default_algo = 0
    /\ osc_reordered_drops = 0 /\ burst_alerts = 0 /\ reorder_window = ReorderWindow
    /\ pending_sofa_name = "" /\ clock = 0 /\ arrivals = 0
    /\ heard = {} /\ lateAt = <<>>

\* Mutant of Pushed: the newest time takes the place of the one before it.
PushedOver(win, now) ==
    [win EXCEPT !.times[0] = now, !.head = @ + 1, !.count = @ + 1]

Pushed(win, now) ==
    [win EXCEPT !.times[win.head % WINDOW_SIZE] = now, !.head = @ + 1, !.count = @ + 1]

CountInWindow(win, now) ==
    Cardinality({i \in 0 .. WINDOW_SIZE - 1 : i < win.count /\ now - win.times[i] <= WINDOW_MS})

\* Mutant of Newer: a number that comes again is taken again.
NewerOrSame(entry, seq) == ~entry.valid \/ seq >= entry.last_applied_seq

Newer(entry, seq) == ~entry.valid \/ seq > entry.last_applied_seq

\* Mutant of Set: the number is not kept.
SetUnnumbered(entry, tag, seq) ==
    [entry EXCEPT !.valid = TRUE, !.set[FieldOf[tag]] = seq]

Set(entry, tag, seq) ==
    [last_applied_seq |-> seq, valid |-> TRUE, set |-> [entry.set EXCEPT ![FieldOf[tag]] = seq]]

ObjectKnown(seq) ==
    Stream[seq].tag \in DOMAIN FieldOf /\ Stream[seq].obj < STATE_MAX_OBJECTS

ApplyNewer(seq) ==
    LET cmd == Stream[seq] IN
    /\ ObjectKnown(seq) /\ Newer(objects[cmd.obj], seq)
    /\ objects' = [objects EXCEPT ![cmd.obj] = Set(@, cmd.tag, seq)]
    /\ UNCHANGED <<osc_reordered_drops, burst_alerts, reorder_window, default_algo>>

\* checkBurst counts the drop it is called for.
DropLate(seq) ==
    /\ ObjectKnown(seq) /\ ~Newer(objects[Stream[seq].obj], seq)
    /\ osc_reordered_drops' = osc_reordered_drops + 1
    /\ reorder_window' = Pushed(reorder_window, clock)
    /\ burst_alerts' = IF CountInWindow(reorder_window', clock) >= BURST_THRESH
                       THEN burst_alerts + 1 ELSE burst_alerts
    /\ UNCHANGED <<objects, default_algo>>

ApplyAlgoSwap(seq) ==
    /\ Stream[seq].tag = "SysAlgoSwap" /\ default_algo' = seq
    /\ UNCHANGED <<objects, osc_reordered_drops, burst_alerts, reorder_window>>

\* Whatever its own number; the name of the SOFA file stays.
ApplyReset(seq) ==
    /\ Stream[seq].tag = "SysReset"
    /\ objects' = NoObjects /\ default_algo' = 0
    /\ osc_reordered_drops' = 0 /\ burst_alerts' = 0 /\ reorder_window' = ReorderWindow

\* No such object, or a command that is about none.
Ignore(seq) ==
    /\ ~ObjectKnown(seq) /\ Stream[seq].tag \notin {"SysAlgoSwap", "SysReset"}
    /\ UNCHANGED <<objects, default_algo, osc_reordered_drops, burst_alerts, reorder_window>>

Overtaken(seq) ==
    /\ ObjectKnown(seq)
    /\ \E s \in heard : ObjectKnown(s) /\ Stream[s].obj = Stream[seq].obj /\ s >= seq

Remember(seq) ==
    IF Stream[seq].tag = "SysReset"
    THEN heard' = {} /\ lateAt' = <<>>
    ELSE /\ heard' = heard \cup {seq}
         /\ lateAt' = IF Overtaken(seq) THEN Append(lateAt, clock) ELSE lateAt

\* Any packet of the stream may arrive next, some never, some twice.
Arrive ==
    /\ arrivals < MaxArrivals /\ arrivals' = arrivals + 1
    /\ \E seq \in DOMAIN Stream :
         /\ \/ ApplyNewer(seq) \/ DropLate(seq) \/ ApplyAlgoSwap(seq) \/ ApplyReset(seq)
            \/ Ignore(seq)
         /\ Remember(seq)
    /\ UNCHANGED <<pending_sofa_name, clock>>

SetPendingSofaName ==
    /\ pending_sofa_name' \in SofaNames
    /\ UNCHANGED <<objects, default_algo, osc_reordered_drops, burst_alerts, reorder_window,
                   clock, arrivals, heard, lateAt>>

Tick ==
    /\ clock < MaxClock /\ clock' = clock + 1
    /\ UNCHANGED <<objects, default_algo, osc_reordered_drops, burst_alerts, reorder_window,
                   pending_sofa_name, arrivals, heard, lateAt>>

StateNext == Arrive \/ SetPendingSofaName \/ Tick

StateSpec == StateInit /\ [][StateNext]_stateVars

-------------------------------------------------------------------------------
(* Properties *)

HeardOf(o) == {s \in heard : ObjectKnown(s) /\ Stream[s].obj = o}

\* Of all that arrived for an object the newest is in effect, and what each
\* field holds is something that arrived (test_p4_state_model_seq.cpp:2).
NewestWins ==
    \A o \in DOMAIN objects :
        /\ \A s \in HeardOf(o) :
              (\A t \in HeardOf(o) : t <= s) => objects[o].set[FieldOf[Stream[s].tag]] = s
        /\ \A f \in Fields : objects[o].set[f] \in HeardOf(o) \cup {0}

\* Why the newest wins: an object's entry stands at the newest command that has
\* arrived for it.
Watermark ==
    /\ heard \subseteq DOMAIN Stream
    /\ objects \in [0 .. STATE_MAX_OBJECTS - 1 ->
                     [last_applied_seq : Nat, valid : BOOLEAN, set : [Fields -> Nat]]]
    /\ \A o \in DOMAIN objects :
          LET e == objects[o] IN
          /\ e.valid <=> HeardOf(o) # {}
          /\ e.valid => /\ e.last_applied_seq \in HeardOf(o)
                        /\ \A s \in HeardOf(o) : s <= e.last_applied_seq
                        /\ e.set[FieldOf[Stream[e.last_applied_seq].tag]] = e.last_applied_seq
          /\ \A f \in Fields : e.set[f] \in HeardOf(o) \cup {0}

LateUpTo(i) == {j \in 1 .. i : lateAt[i] - lateAt[j] <= WINDOW_MS}

\* Every overtaken or doubled command is counted, and the client is told of
\* exactly those that are one of BURST_THRESH within WINDOW_MS, although only
\* the last WINDOW_SIZE are remembered (StateModel.h:4).
BurstTold ==
    /\ osc_reordered_drops = Len(lateAt)
    /\ burst_alerts =
         Cardinality({i \in DOMAIN lateAt : Cardinality(LateUpTo(i)) >= BURST_THRESH})
===============================================================================
