---------------------------- MODULE PluginRegistry ----------------------------
(***************************************************************************)
(* The registry of plug-in instances: the file in which every instance     *)
(* lists the UDP port it has bound, read, swept and replaced by each       *)
(* instance that starts or stops.                                          *)
(*                                                                         *)
(* A host process loads several instances and may be killed at any step;   *)
(* the machine may be rebooted, after which process ids and start times    *)
(* repeat.  The JSON text is what it says and the set of entries it lists. *)
(***************************************************************************)
EXTENDS Integers, FiniteSets

CONSTANTS
    Instances,   \* plug-in instances
    HostOf,      \* the host each is loaded into
    PortRange,   \* kPortRange: ports 1 .. PortRange are tried in order
    Pids,        \* process ids
    MaxLaunches, \* bound: host processes launched in a boot
    MaxBoots,    \* bound: boots
    MaxStarts    \* bound: starts of instances in all

Hosts == {HostOf[i] : i \in Instances}

ASSUME InstancesAssumption == IsFiniteSet(Instances)
ASSUME RangeAssumption == PortRange \in Nat
ASSUME LaunchAssumption == {MaxLaunches, MaxBoots, MaxStarts} \subseteq Nat

VARIABLES
    boot,     \* boot_id
    clock,    \* start time of the process launched last, since the boot
    proc,     \* the process of each host, NoProcess if it does not run
    counter,  \* g_instance_id_counter of each
    doc,      \* what the registry file says
    inode,    \* which file lies at the path
    pc,       \* where each instance is
    port,     \* the port its socket is bound to, 0 for none
    mine,     \* its entry
    listing,  \* the entries it is going to write
    lockfd,   \* the file it has opened for flock, 0 for none
    starts,   \* starts so far
    raced,    \* ghost: two updates of the file have overlapped
    unsaved   \* ghost: entries that could not be added or taken out

machine == <<boot, clock, proc, counter>>
registry == <<doc, inode>>
local == <<pc, port, mine, listing, lockfd>>
traces == <<raced, unsaved>>
registryVars == <<machine, registry, local, starts, traces>>

NoProcess == [pid |-> 0, start |-> 0]
NoEntry   == [pid |-> 0, start |-> 0, id |-> 0, port |-> 0, boot |-> 0]

\* There is no file, or an empty one; it does not parse; a newer version wrote it.
Absent    == [says |-> "nothing", entries |-> {}]
Corrupt   == [says |-> "garbage", entries |-> {}]
Newer     == [says |-> "newer", entries |-> {}]
Json(S)   == [says |-> "instances", entries |-> S]

HostProc(i) == proc[HostOf[i]]
Runs(h) == proc[h] # NoProcess
Inside(i) == pc[i] \notin {"off", "on"}

Unstarted(I) ==
    /\ pc' = [i \in Instances |-> IF i \in I THEN "off" ELSE pc[i]]
    /\ port' = [i \in Instances |-> IF i \in I THEN 0 ELSE port[i]]
    /\ mine' = [i \in Instances |-> IF i \in I THEN NoEntry ELSE mine[i]]
    /\ listing' = [i \in Instances |-> IF i \in I THEN {} ELSE listing[i]]
    /\ lockfd' = [i \in Instances |-> IF i \in I THEN 0 ELSE lockfd[i]]

RegistryInit ==
    /\ boot = 1 /\ clock = 0
    /\ proc = [h \in Hosts |-> NoProcess] /\ counter = [h \in Hosts |-> 0]
    /\ doc \in {Absent, Corrupt, Newer} /\ inode = 1
    /\ pc = [i \in Instances |-> "off"] /\ port = [i \in Instances |-> 0]
    /\ mine = [i \in Instances |-> NoEntry] /\ listing = [i \in Instances |-> {}]
    /\ lockfd = [i \in Instances |-> 0]
    /\ starts = 0 /\ raced = FALSE /\ unsaved = {}

-------------------------------------------------------------------------------
(* The machine.  Bound: once two updates have overlapped nothing begins but  *)
(* what is under way.                                                        *)

\* A process id is free again when its process has ended.
Launch(h) ==
    /\ ~raced /\ ~Runs(h) /\ clock < MaxLaunches
    /\ \E pid \in Pids :
          /\ \A g \in Hosts : proc[g].pid # pid
          /\ proc' = [proc EXCEPT ![h] = [pid |-> pid, start |-> clock + 1]]
    /\ clock' = clock + 1
    /\ counter' = [counter EXCEPT ![h] = 0]
    /\ UNCHANGED <<boot, registry, local, starts, traces>>

\* The sockets and locks of a process end with it, its entries stay.
Kill(h) ==
    /\ ~raced /\ Runs(h)
    /\ proc' = [proc EXCEPT ![h] = NoProcess]
    /\ Unstarted({i \in Instances : HostOf[i] = h})
    /\ UNCHANGED <<boot, clock, counter, registry, starts, traces>>

Reboot ==
    /\ ~raced /\ boot < MaxBoots
    /\ boot' = boot + 1 /\ clock' = 0
    /\ proc' = [h \in Hosts |-> NoProcess]
    /\ Unstarted(Instances)
    /\ UNCHANGED <<counter, registry, starts, traces>>

-------------------------------------------------------------------------------
(* start() and stop() of SpatialEnginePluginUdp *)

\* An update begins; it overlaps with those that are under way.
Begin(i) ==
    /\ Runs(HostOf[i]) /\ ~raced
    /\ raced' = (\E j \in Instances : Inside(j))
    /\ UNCHANGED unsaved

Bound == {port[i] : i \in Instances} \ {0}

\* The first free port of the range, else one the kernel picks beyond it.
FreePort ==
    LET free == (1 .. PortRange + Cardinality(Instances)) \ Bound
    IN  CHOOSE p \in free : \A q \in free : p <= q

Start(i) ==
    /\ pc[i] = "off" /\ Begin(i) /\ starts < MaxStarts
    /\ port' = [port EXCEPT ![i] = FreePort]
    /\ counter' = [counter EXCEPT ![HostOf[i]] = @ + 1]
    /\ mine' = [mine EXCEPT ![i] =
          [pid |-> HostProc(i).pid, start |-> HostProc(i).start, id |-> counter'[HostOf[i]],
           port |-> FreePort, boot |-> boot]]
    /\ pc' = [pc EXCEPT ![i] = "read"]
    /\ starts' = starts + 1
    /\ UNCHANGED <<boot, clock, proc, registry, listing, lockfd>>

\* The socket is closed before the entry is taken out.
Stop(i) ==
    /\ pc[i] = "on" /\ Begin(i)
    /\ port' = [port EXCEPT ![i] = 0]
    /\ pc' = [pc EXCEPT ![i] = "read"]
    /\ UNCHANGED <<machine, registry, mine, listing, lockfd, starts>>

-------------------------------------------------------------------------------
(* registerSelf(), unregisterSelf() and atomicWrite() *)

\* pidAlive: the process exists and is the one that wrote the entry.
Alive(e) == \E h \in Hosts : proc[h] = [pid |-> e.pid, start |-> e.start]

\* Mutant of Sweep: the boot is not compared.
SweepAlive(D) == {e \in D : Alive(e)}

\* The collection of entries of the dead and of earlier boots.
Sweep(D) == {e \in D : Alive(e) /\ e.boot = boot}

\* A start binds the port first, a stop closes it first.
Registering(i) == port[i] # 0

Listed == doc.entries

\* The update is over: a start leaves the instance on, a stop off.
Leave(i, ok) ==
    /\ pc' = [pc EXCEPT ![i] = IF Registering(i) THEN "on" ELSE "off"]
    /\ mine' = [mine EXCEPT ![i] = IF Registering(i) THEN @ ELSE NoEntry]
    /\ listing' = [listing EXCEPT ![i] = {}]
    /\ lockfd' = [lockfd EXCEPT ![i] = 0]
    /\ unsaved' = IF ok THEN unsaved ELSE unsaved \cup {mine[i]}
    /\ UNCHANGED raced

\* Read, parse, sweep and add the own entry; a newer file is left alone.
ReadToRegister(i) ==
    /\ pc[i] = "read" /\ Registering(i)
    /\ IF doc = Newer
       THEN Leave(i, FALSE)
       ELSE /\ listing' = [listing EXCEPT ![i] = Sweep(Listed) \cup {mine[i]}]
            /\ pc' = [pc EXCEPT ![i] = "open"]
            /\ UNCHANGED <<mine, lockfd, traces>>
    /\ UNCHANGED <<machine, registry, port, starts>>

\* Mutant of ReadToUnregister: instances are told apart by their ids alone.
ReadToUnregisterById(i) ==
    /\ pc[i] = "read" /\ ~Registering(i)
    /\ IF doc \in {Absent, Corrupt, Newer}
       THEN Leave(i, doc = Absent)
       ELSE /\ listing' = [listing EXCEPT ![i] = Sweep({e \in Listed : e.id # mine[i].id})]
            /\ pc' = [pc EXCEPT ![i] = "open"]
            /\ UNCHANGED <<mine, lockfd, traces>>
    /\ UNCHANGED <<machine, registry, port, starts>>

\* Read, parse, take the own entry out and sweep.
ReadToUnregister(i) ==
    /\ pc[i] = "read" /\ ~Registering(i)
    /\ IF doc \in {Absent, Corrupt, Newer}
       THEN Leave(i, doc = Absent)
       ELSE /\ listing' = [listing EXCEPT ![i] =
                  Sweep({e \in Listed : e.id # mine[i].id \/ e.pid # mine[i].pid})]
            /\ pc' = [pc EXCEPT ![i] = "open"]
            /\ UNCHANGED <<mine, lockfd, traces>>
    /\ UNCHANGED <<machine, registry, port, starts>>

\* open(O_CREAT) of the file itself, for the lock.
OpenFile(i) ==
    /\ pc[i] = "open"
    /\ lockfd' = [lockfd EXCEPT ![i] = inode]
    /\ pc' = [pc EXCEPT ![i] = "lock"]
    /\ UNCHANGED <<machine, registry, port, mine, listing, starts, traces>>

LockedByOther(i) ==
    \E j \in Instances \ {i} :
        pc[j] = "write" /\ lockfd[j] = lockfd[i]

\* flock, ten times in half a second.
Lock(i) ==
    /\ pc[i] = "lock" /\ ~LockedByOther(i)
    /\ pc' = [pc EXCEPT ![i] = "write"]
    /\ UNCHANGED <<machine, registry, port, mine, listing, lockfd, starts, traces>>

LockTimesOut(i) ==
    /\ pc[i] = "lock" /\ LockedByOther(i)
    /\ Leave(i, FALSE)
    /\ UNCHANGED <<machine, registry, port, starts>>

\* The temporary file is written and renamed over the path: a new file.
Replace(i) ==
    /\ pc[i] = "write"
    /\ doc' = Json(listing[i]) /\ inode' = inode + 1
    /\ Leave(i, TRUE)
    /\ UNCHANGED <<machine, port, starts>>

\* mkstemp, write or rename fails: the file stays as it was.
ReplaceFails(i) ==
    /\ pc[i] = "write"
    /\ Leave(i, FALSE)
    /\ UNCHANGED <<machine, registry, port, starts>>

-------------------------------------------------------------------------------
\* What the daemon, which reads the file every five seconds and takes no lock,
\* would forward to: the entries of this boot that have a port.
Forwarded == {e \in Listed : e.boot = boot /\ e.port # 0}

-------------------------------------------------------------------------------
Update(i) == \/ ReadToRegister(i) \/ ReadToUnregister(i) \/ OpenFile(i)
             \/ Lock(i) \/ LockTimesOut(i) \/ Replace(i) \/ ReplaceFails(i)

RegistryNext ==
    \/ \E h \in Hosts : Launch(h) \/ Kill(h)
    \/ Reboot
    \/ \E i \in Instances : Start(i) \/ Stop(i) \/ Update(i)

RegistrySpec == RegistryInit /\ [][RegistryNext]_registryVars

-------------------------------------------------------------------------------
(* Properties *)

\* Every instance that runs is forwarded to at its port, and no port twice,
\* unless an update failed.
RunningForwarded ==
    (\A i \in Instances : ~Inside(i)) =>
        /\ {mine[i] : i \in {j \in Instances : pc[j] = "on"}} \subseteq Forwarded \cup unsaved
        /\ \A d, e \in Forwarded \ unsaved : d.port = e.port => d = e

\* What an update is going to write lists nothing but instances that run.
OnlyRunningListed ==
    \A i \in Instances : ReadToRegister(i) \/ ReadToUnregister(i) =>
        LET running == {j \in Instances : pc[j] = "on" \/ (j = i /\ Registering(i))}
        IN  listing'[i] \subseteq {mine[j] : j \in running} \cup unsaved

\* As long as no two updates overlap, between updates the daemon forwards to
\* every instance that runs, once, and what an update writes lists no other:
\* those that stopped, were killed or ran before a reboot are swept, although
\* ports, process ids and start times come again.
RegistryTrue ==
    /\ [](~raced => RunningForwarded)
    /\ [][~raced => OnlyRunningListed]_registryVars
===============================================================================
