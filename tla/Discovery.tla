------------------------------- MODULE Discovery -------------------------------
(***************************************************************************)
(* Reconciliation of the retained Home Assistant discovery topics with the *)
(* configuration (controller/discovery.go): a daemon records in a state    *)
(* file every topic it may have published, removes from the broker what    *)
(* the configuration no longer wants, publishes what it wants, and records *)
(* the result.  Daemons of several MQTT clients may share one state file.  *)
(* A daemon may stop between any two steps, every file operation and every *)
(* publication may fail, a publication that timed out may still reach the  *)
(* broker, and a power loss may undo renames that were not yet synced.     *)
(***************************************************************************)
EXTENDS Naturals, FiniteSets

CONSTANTS
    Daemon,        \* processes that share the state file
    Client,        \* MQTT client identifiers
    Nobody,        \* publisher of a topic that is not retained; free lock
    Device,        \* device identifiers
    Entity,        \* the rest of a topic: prefix, component type and entity id
    Configs,       \* Configs[d]: the configurations daemon d may be started with
    Existing,      \* manifests that may be there at first, this client's or another's
    NoState,       \* the state file does not exist
    Corrupt,       \* the state file cannot be decoded or is not private
    MQTTQoS,       \* mqtt.qos of the configuration
    MaxTopics,     \* topics that fit into maxDiscoveryStateSize bytes
    MaxStops       \* bound: how often a daemon is stopped or the power lost

Topic == Device \X Entity

\* A configuration; entities is empty when discovery is disabled.
Config == [client : Client, device : Device, entities : SUBSET Entity]

\* discoveryState as the file holds it.
Manifest == [owner : Client, device : Device, topics : SUBSET Topic]

\* ownedDiscoveryTopic for every topic of the manifest.
ValidManifest(m) == \A t \in m.topics : t[1] = m.device

ASSUME ConfigsAssumption == Configs \in [Daemon -> SUBSET Config]
\* Every controller has a client identifier of its own.
ASSUME ClientAssumption ==
    \A d, e \in Daemon : d # e =>
        \A c \in Configs[d], x \in Configs[e] : c.client # x.client
ASSUME ExistingAssumption == Existing \subseteq {m \in Manifest : ValidManifest(m)}
ASSUME FileAssumption == NoState \notin Manifest /\ Corrupt \notin Manifest /\ NoState # Corrupt
ASSUME NobodyAssumption == Nobody \notin Client /\ Nobody \notin Daemon
ASSUME BoundAssumption == MaxTopics \in Nat /\ MaxStops \in Nat /\ MQTTQoS \in 0..2

VARIABLES
    file,       \* what a process that opens the state file finds
    disk,       \* what the state file may hold after a power loss
    lock,       \* holder of the flock on the lock file
    retained,   \* retained[t]: client that published t, or Nobody
    cfg,        \* cfg[d]: configuration of the running daemon
    pc,         \* pc[d]: where reconcileDiscovery of d is
    due,        \* due[d]: an MQTT connection of d has yet to reconcile
    stale,      \* stale[d]: topics of the manifest that d no longer wants
    todo,       \* todo[d]: topics still to publish in this stage
    late,       \* late[d]: publications that timed out and may still arrive
    ok,         \* ok[d]: the last reconciliation of d returned nil
    stops       \* how often a daemon was stopped or the power lost

vars == <<file, disk, lock, retained, cfg, pc, due, stale, todo, late, ok, stops>>
broker == <<retained, late>>
store == <<file, disk>>

Publishing == {"purge", "clear", "announce"}
Writing == {"renew", "pending", "final"}
Syncing == {"renewSync", "pendingSync", "finalSync"}
Reconciling == {"locked"} \cup Publishing \cup Writing \cup Syncing

\* Mutant of Desired: the topic is built from the client identifier.
DesiredByClient(c) == {c.client} \X c.entities

\* The topics of the publications desiredDiscoveryPublications returns.
Desired(c) == {c.device} \X c.entities

\* Publications remove topics in "purge" and "clear" and set them in "announce".
Op == [topic : Topic, set : BOOLEAN]

Init ==
    /\ file \in {NoState, Corrupt} \cup Existing
    /\ disk = {file}
    /\ lock = Nobody
    /\ retained \in IF file \in Existing
                    THEN {[t \in Topic |-> IF t \in file.topics THEN file.owner ELSE Nobody]}
                    ELSE {[t \in Topic |-> Nobody]}
    /\ cfg \in {c \in [Daemon -> Config] : \A d \in Daemon : c[d] \in Configs[d]}
    /\ pc = [d \in Daemon |-> "down"]
    /\ due = [d \in Daemon |-> FALSE]
    /\ stale = [d \in Daemon |-> {}]
    /\ todo = [d \in Daemon |-> {}]
    /\ late = [d \in Daemon |-> {}]
    /\ ok = [d \in Daemon |-> FALSE]
    /\ stops = 0

-----------------------------------------------------------------------------
(* The life of a daemon *)

\* The daemon starts with one of its configurations and connects.
Start(d, c) ==
    /\ pc[d] = "down"
    /\ cfg' = [cfg EXCEPT ![d] = c]
    /\ pc' = [pc EXCEPT ![d] = "idle"]
    /\ due' = [due EXCEPT ![d] = TRUE]
    /\ UNCHANGED <<store, lock, broker, stale, todo, ok, stops>>

\* Paho reconnects; the connect handler reconciles again.
Reconnect(d) ==
    /\ pc[d] # "down"
    /\ ~due[d]
    /\ due' = [due EXCEPT ![d] = TRUE]
    /\ UNCHANGED <<store, lock, broker, cfg, pc, stale, todo, ok, stops>>

\* The state of a process is gone, its locks are free, and what its MQTT
\* client had not sent is lost.
Dies(ds) ==
    /\ pc' = [d \in Daemon |-> IF d \in ds THEN "down" ELSE pc[d]]
    /\ due' = [d \in Daemon |-> d \notin ds /\ due[d]]
    /\ stale' = [d \in Daemon |-> IF d \in ds THEN {} ELSE stale[d]]
    /\ todo' = [d \in Daemon |-> IF d \in ds THEN {} ELSE todo[d]]
    /\ late' = [d \in Daemon |-> IF d \in ds THEN {} ELSE late[d]]
    /\ ok' = [d \in Daemon |-> d \notin ds /\ ok[d]]
    /\ lock' = IF lock \in ds THEN Nobody ELSE lock
    /\ stops < MaxStops
    /\ stops' = stops + 1
    /\ UNCHANGED <<retained, cfg>>

\* A daemon is killed or exits.
Stop(d) == pc[d] # "down" /\ Dies({d}) /\ UNCHANGED store

\* Power loss: a rename that was not synced may or may not have survived.
PowerLoss ==
    /\ Dies(Daemon)
    /\ file' \in disk
    /\ disk' = {file'}

-----------------------------------------------------------------------------
(* reconcileDiscovery *)

\* Every return: defer unlock(), and the locals are gone.
Return(d, result) ==
    /\ pc' = [pc EXCEPT ![d] = "idle"]
    /\ stale' = [stale EXCEPT ![d] = {}]
    /\ todo' = [todo EXCEPT ![d] = {}]
    /\ ok' = [ok EXCEPT ![d] = result]
    /\ lock' = IF lock = d THEN Nobody ELSE lock
    /\ UNCHANGED <<cfg, due, stops>>

Goto(d, stage) == pc' = [pc EXCEPT ![d] = stage]

\* Mutant of LockFree: the lock file is opened but flock is not called.
LockIgnored == TRUE

\* unix.Flock(LOCK_EX|LOCK_NB) succeeds.
LockFree == lock = Nobody

\* PublishDiscovery, serialised by discoveryMu, and lockDiscoveryState.
Lock(d) ==
    /\ pc[d] = "idle" /\ due[d]
    /\ LockFree
    /\ lock' = d
    /\ due' = [due EXCEPT ![d] = FALSE]
    /\ ok' = [ok EXCEPT ![d] = FALSE]
    /\ Goto(d, "locked")
    /\ UNCHANGED <<store, broker, cfg, stale, todo, stops>>

\* The lock is taken, or directory or lock file are refused.
LockFails(d) ==
    /\ pc[d] = "idle" /\ due[d]
    /\ due' = [due EXCEPT ![d] = FALSE]
    /\ ok' = [ok EXCEPT ![d] = FALSE]
    /\ UNCHANGED <<store, lock, broker, cfg, pc, stale, todo, stops>>

\* Mutant of Owned: the owner is not compared with the configured client.
OwnedByAnyone(m, c) == TRUE

\* The manifest records this client as its owner.
Owned(m, c) == m.owner = c.client

\* loadDiscoveryState and validateDiscoveryState succeed.
Usable(m) == m # NoState => (m # Corrupt /\ ValidManifest(m))

\* No check of the file stops the reconciliation.
Accepted(m, c) == Usable(m) /\ (m # NoState => Owned(m, c))

\* loadDiscoveryState or validateDiscoveryState fail, or the owner differs.
Refuse(d) ==
    /\ pc[d] = "locked"
    /\ ~Accepted(file, cfg[d])
    /\ Return(d, FALSE)
    /\ UNCHANGED <<store, broker>>

\* No manifest, or one of this client and device: compute the stale topics.
Adopt(d) ==
    /\ pc[d] = "locked"
    /\ Accepted(file, cfg[d])
    /\ file # NoState => file.device = cfg[d].device
    /\ stale' = [stale EXCEPT ![d] =
                    IF file = NoState THEN {} ELSE file.topics \ Desired(cfg[d])]
    /\ Goto(d, "pending")
    /\ UNCHANGED <<store, lock, broker, cfg, due, todo, ok, stops>>

\* The device identifier changed: all topics of the manifest are removed first.
ChangeDevice(d) ==
    /\ pc[d] = "locked"
    /\ Accepted(file, cfg[d])
    /\ file # NoState /\ file.device # cfg[d].device
    /\ todo' = [todo EXCEPT ![d] = file.topics]
    /\ Goto(d, "purge")
    /\ UNCHANGED <<store, lock, broker, cfg, due, stale, ok, stops>>

-----------------------------------------------------------------------------
(* publishDiscoveryChanges *)

\* Mutant of discoveryQoS: the configured QoS is used as it is.
configuredQoS == MQTTQoS

discoveryQoS == IF MQTTQoS > 0 THEN MQTTQoS ELSE 1

\* The broker handles a publication of client c; an empty payload removes it.
Applied(op, c) == [retained EXCEPT ![op.topic] = IF op.set THEN c ELSE Nobody]

\* mqtt.Publish returns nil.  An acknowledged publication was handled by the
\* broker; one of QoS 0 may have been dropped by a client that is reconnecting.
Publish(d, t) ==
    /\ pc[d] \in Publishing
    /\ t \in todo[d]
    /\ \E delivered \in IF discoveryQoS = 0 THEN BOOLEAN ELSE {TRUE} :
          retained' = IF delivered
                      THEN Applied([topic |-> t, set |-> pc[d] = "announce"], cfg[d].client)
                      ELSE retained
    /\ todo' = [todo EXCEPT ![d] = @ \ {t}]
    /\ UNCHANGED <<store, lock, cfg, pc, due, stale, late, ok, stops>>

\* mqtt.Publish returns an error: not connected, or timed out and still queued.
PublishFails(d, t) ==
    /\ pc[d] \in Publishing
    /\ t \in todo[d]
    /\ \E queued \in BOOLEAN :
          late' = IF queued
                  THEN [late EXCEPT ![d] = @ \cup {[topic |-> t, set |-> pc[d] = "announce"]}]
                  ELSE late
    /\ Return(d, FALSE)
    /\ UNCHANGED <<store, retained>>

\* The broker handles a publication whose token had timed out.
Deliver(d, op) ==
    /\ op \in late[d]
    /\ retained' = Applied(op, cfg[d].client)
    /\ late' = [late EXCEPT ![d] = @ \ {op}]
    /\ UNCHANGED <<store, lock, cfg, pc, due, stale, todo, ok, stops>>

\* The loop over the topics ends; the next stage follows.
Purged(d) ==
    /\ pc[d] = "purge" /\ todo[d] = {}
    /\ Goto(d, "renew")
    /\ UNCHANGED <<store, lock, broker, cfg, due, stale, todo, ok, stops>>

\* Mutant of Announcements: topics that the manifest lists are not published again.
AnnouncementsUnlisted(d) == Desired(cfg[d]) \ file.topics

\* Every wanted topic is published again, whatever the manifest says.
Announcements(d) == Desired(cfg[d])

Cleared(d) ==
    /\ pc[d] = "clear" /\ todo[d] = {}
    /\ todo' = [todo EXCEPT ![d] = Announcements(d)]
    /\ Goto(d, "announce")
    /\ UNCHANGED <<store, lock, broker, cfg, due, stale, ok, stops>>

Announced(d) ==
    /\ pc[d] = "announce" /\ todo[d] = {}
    /\ Goto(d, "final")
    /\ UNCHANGED <<store, lock, broker, cfg, due, stale, todo, ok, stops>>

-----------------------------------------------------------------------------
(* writeDiscoveryState *)

\* Mutant of Pending: only the topics wanted now are recorded in advance.
PendingWithoutStale(d) == Desired(cfg[d])

\* The over-approximation recorded before publishing: unionTopics.
Pending(d) == stale[d] \cup Desired(cfg[d])

\* Mutant of Topics: the old device's topics are kept with the new device.
TopicsKept(d) ==
    CASE pc[d] = "renew" -> file.topics
      [] pc[d] = "pending" -> Pending(d)
      [] pc[d] = "final" -> Desired(cfg[d])

\* The topics of the manifest written in each stage.
Topics(d) ==
    CASE pc[d] = "renew" -> {}
      [] pc[d] = "pending" -> Pending(d)
      [] pc[d] = "final" -> Desired(cfg[d])

Record(d) == [owner |-> cfg[d].client, device |-> cfg[d].device, topics |-> Topics(d)]

\* The encoded manifest is within maxDiscoveryStateSize.
Fits(topics) == Cardinality(topics) <= MaxTopics

\* The manifest fits and the temporary file, complete and synced, is renamed.
Rename(d) ==
    /\ pc[d] \in Writing
    /\ Fits(Topics(d))
    /\ file' = Record(d)
    /\ disk' = disk \cup {Record(d)}
    /\ pc' = [pc EXCEPT ![d] = CASE @ = "renew" -> "renewSync"
                                 [] @ = "pending" -> "pendingSync"
                                 [] @ = "final" -> "finalSync"]
    /\ UNCHANGED <<lock, broker, cfg, due, stale, todo, ok, stops>>

\* The manifest is too large: with the stale topics, although without them it
\* might fit.
TooLarge(d) ==
    /\ pc[d] \in Writing
    /\ ~Fits(Topics(d))
    /\ Return(d, FALSE)
    /\ UNCHANGED <<store, broker>>

\* A step up to the rename fails.
WriteFails(d) ==
    /\ pc[d] \in Writing
    /\ Fits(Topics(d))
    /\ Return(d, FALSE)
    /\ UNCHANGED <<store, broker>>

\* What follows a completed write that is not the last one.
AfterSync == [renewSync |-> "pending", pendingSync |-> "clear"]

\* directory.Sync: the rename survives a power loss.
SyncDir(d) ==
    /\ pc[d] \in DOMAIN AfterSync
    /\ disk' = {file}
    /\ todo' = [todo EXCEPT ![d] = IF pc[d] = "pendingSync" THEN stale[d] ELSE {}]
    /\ Goto(d, AfterSync[pc[d]])
    /\ UNCHANGED <<file, lock, broker, cfg, due, stale, ok, stops>>

\* The last write is durable: reconcileDiscovery returns nil.
Finish(d) ==
    /\ pc[d] = "finalSync"
    /\ disk' = {file}
    /\ Return(d, TRUE)
    /\ UNCHANGED <<file, broker>>

SyncFails(d) ==
    /\ pc[d] \in Syncing
    /\ Return(d, FALSE)
    /\ UNCHANGED <<store, broker>>

-----------------------------------------------------------------------------
Step(d) ==
    \/ \E c \in Configs[d] : Start(d, c)
    \/ Reconnect(d) \/ Stop(d)
    \/ Lock(d) \/ LockFails(d)
    \/ Refuse(d) \/ Adopt(d) \/ ChangeDevice(d)
    \/ \E t \in Topic : Publish(d, t) \/ PublishFails(d, t)
    \/ \E op \in Op : Deliver(d, op)
    \/ Purged(d) \/ Cleared(d) \/ Announced(d)
    \/ Rename(d) \/ TooLarge(d) \/ WriteFails(d)
    \/ SyncDir(d) \/ Finish(d) \/ SyncFails(d)

Next == PowerLoss \/ \E d \in Daemon : Step(d)

Spec == Init /\ [][Next]_vars

\* A step of reconcileDiscovery that fails.
Failure ==
    \E d \in Daemon :
        \/ LockFails(d) \/ WriteFails(d) \/ SyncFails(d)
        \/ \E t \in Topic : PublishFails(d, t)

\* A step of reconcileDiscovery that succeeds, or that finds the file unusable
\* or the manifest too large.
Progress(d) ==
    \/ Lock(d) \/ Refuse(d) \/ Adopt(d) \/ ChangeDevice(d)
    \/ \E t \in Topic : Publish(d, t)
    \/ Purged(d) \/ Cleared(d) \/ Announced(d)
    \/ Rename(d) \/ TooLarge(d) \/ SyncDir(d) \/ Finish(d)

\* A daemon that is up keeps going, and its connection is renewed now and then:
\* the code retries a failed reconciliation only when that happens.
Fairness == \A d \in Daemon : WF_vars(Progress(d)) /\ WF_vars(Reconnect(d))

FairSpec == Spec /\ Fairness

-----------------------------------------------------------------------------
(* Properties *)

TypeOK ==
    /\ file \in Manifest \cup {NoState, Corrupt}
    /\ disk \subseteq Manifest \cup {NoState, Corrupt}
    /\ lock \in Daemon \cup {Nobody}
    /\ retained \in [Topic -> Client \cup {Nobody}]
    /\ cfg \in [Daemon -> Config]
    /\ pc \in [Daemon -> {"down", "idle"} \cup Reconciling]
    /\ due \in [Daemon -> BOOLEAN]
    /\ stale \in [Daemon -> SUBSET Topic]
    /\ todo \in [Daemon -> SUBSET Topic]
    /\ late \in [Daemon -> SUBSET Op]
    /\ ok \in [Daemon -> BOOLEAN]
    /\ stops \in 0..MaxStops

\* Every state the file may be found in, now or after a power loss.
Survivors == disk \cup {file}

\* m lists t as a topic that client c may have published.
Lists(m, t, c) == m \in Manifest /\ m.owner = c /\ t \in m.topics

\* No topic is ever forgotten: whatever a client has retained at the broker,
\* or has sent and may still be retained, is listed under its name in the state
\* file, now and after any crash or power loss.  This is what writing the
\* over-approximation before publishing is for.
Tracked ==
    /\ \A t \in Topic : retained[t] # Nobody =>
          \A m \in Survivors : Lists(m, t, retained[t])
    /\ \A d \in Daemon : \A op \in late[d] : op.set =>
          \A m \in Survivors : Lists(m, op.topic, cfg[d].client)

\* The daemon accepts every manifest it has written: validateDiscoveryState
\* never locks it out of its own state file, also across device changes.
SelfAccepted == \A m \in Survivors : m # Corrupt => Usable(m)

\* A daemon only touches topics that nobody else has published: a manifest
\* that belongs to another client, or that another daemon is working on, stops
\* the reconciliation before anything is published or removed.
OwnTopicsOnly ==
    \A d \in Daemon : \A t \in todo[d] \cup {op.topic : op \in late[d]} :
        retained[t] \in {Nobody, cfg[d].client}

\* What is retained at the broker for daemon d is what its configuration wants.
Settled(d) == {t \in Topic : retained[t] = cfg[d].client} = Desired(cfg[d])

\* A reconciliation that returned nil left broker and manifest equal to the
\* configuration, and late publications of earlier failed attempts do not
\* change that.
SuccessMeansSettled ==
    \A d \in Daemon : ok[d] =>
        /\ Settled(d)
        /\ file = [owner |-> cfg[d].client, device |-> cfg[d].device, topics |-> Desired(cfg[d])]

\* A daemon that stays up and reconnects now and then ends up with exactly its
\* configured topics once failures have stopped, whatever crashes, failures and
\* configurations came before, unless the state file is corrupt or another
\* client's, or its topics and the wanted ones do not fit into one manifest: no
\* sequence of partial failures leaves a manifest that blocks it.
Converges ==
    \A d \in Daemon :
        /\ <>[][~Failure]_vars
        /\ <>[](pc[d] # "down" /\ file # Corrupt /\ (file # NoState => Owned(file, cfg[d])))
        /\ <>[]Fits(Desired(cfg[d]) \cup
                  (IF file \in Manifest /\ file.device = cfg[d].device THEN file.topics ELSE {}))
        => <>[]Settled(d)
=============================================================================
