---------------------------- MODULE DiscoveryProofs ----------------------------
(***************************************************************************)
(* No discovery topic is forgotten, for any number of daemons, devices,    *)
(* entities and configurations.  The invariant says, for every stage of    *)
(* reconcileDiscovery, what the state file and the broker hold.            *)
(***************************************************************************)
EXTENDS Discovery, TLAPS

Want(d) == Desired(cfg[d])

\* The manifest of d with topics ts.
Rec(d, ts) == [owner |-> cfg[d].client, device |-> cfg[d].device, topics |-> ts]

\* The topics of the device d is configured for.
DeviceTopics(d) == {cfg[d].device} \X Entity

\* The file belongs to another device of the same client.
OldDevice(d) ==
    /\ file \in Manifest
    /\ file.owner = cfg[d].client
    /\ file.device # cfg[d].device

\* stale[d] holds topics of d's device that are not wanted.
StaleOK(d) == stale[d] \subseteq DeviceTopics(d) \ Want(d)

\* The over-approximation is the only thing the file can be found to hold.
PendingDurable(d) ==
    /\ StaleOK(d)
    /\ file = Rec(d, Pending(d))
    /\ disk = {file}

\* Only wanted topics are retained, apart from those in extra.
OnlyWanted(d, extra) == \A t \in Topic : retained[t] # Nobody => t \in Want(d) \cup extra

\* The wanted topics are retained, apart from those in missing.
AllWanted(d, missing) == \A t \in Want(d) \ missing : retained[t] = cfg[d].client

StagePurge(d) ==
    /\ OldDevice(d)
    /\ todo[d] \subseteq file.topics
    /\ \A t \in Topic : retained[t] # Nobody => t \in todo[d]
StageRenew(d) == OldDevice(d) /\ stale[d] = {} /\ \A t \in Topic : retained[t] = Nobody
StageRenewSync(d) == file = Rec(d, {}) /\ stale[d] = {}
StagePending(d) ==
    /\ StaleOK(d)
    /\ file # Corrupt
    /\ file # NoState => /\ file.owner = cfg[d].client
                         /\ file.device = cfg[d].device
                         /\ file.topics \subseteq Pending(d)
StagePendingSync(d) == StaleOK(d) /\ file = Rec(d, Pending(d))
StageClear(d) == PendingDurable(d) /\ todo[d] \subseteq stale[d] /\ OnlyWanted(d, todo[d])
StageAnnounce(d) ==
    /\ PendingDurable(d)
    /\ todo[d] \subseteq Want(d)
    /\ OnlyWanted(d, {}) /\ AllWanted(d, todo[d])
StageFinal(d) == PendingDurable(d) /\ OnlyWanted(d, {}) /\ AllWanted(d, {})
StageFinalSync(d) == file = Rec(d, Want(d)) /\ OnlyWanted(d, {}) /\ AllWanted(d, {})

\* What holds in each stage of reconcileDiscovery.
Stage(d) ==
    /\ pc[d] \in {"locked", "purge"} => stale[d] = {}
    /\ pc[d] = "purge" => StagePurge(d)
    /\ pc[d] = "renew" => StageRenew(d)
    /\ pc[d] = "renewSync" => StageRenewSync(d)
    /\ pc[d] = "pending" => StagePending(d)
    /\ pc[d] = "pendingSync" => StagePendingSync(d)
    /\ pc[d] = "clear" => StageClear(d)
    /\ pc[d] = "announce" => StageAnnounce(d)
    /\ pc[d] = "final" => StageFinal(d)
    /\ pc[d] = "finalSync" => StageFinalSync(d)

\* What holds of a daemon in every stage.
Quiet(d) ==
    /\ cfg[d] \in Configs[d]
    /\ pc[d] \in Reconciling => lock = d
    /\ pc[d] = "down" => late[d] = {}
    /\ pc[d] \notin Publishing => todo[d] = {}
    /\ pc[d] \notin Reconciling => stale[d] = {}
    /\ ok[d] => pc[d] = "idle"

\* Publications that timed out: to wanted topics they set, to others they
\* remove; and the file belongs to their sender.
LateOK(d) ==
    \A op \in late[d] :
        /\ op.set <=> op.topic \in Want(d)
        /\ file \in Manifest /\ file.owner = cfg[d].client

\* A reconciliation that has returned nil.
OkMeansSettled(d) ==
    ok[d] => /\ file = Rec(d, Want(d))
             /\ OnlyWanted(d, {}) /\ AllWanted(d, {})

IInv ==
    /\ TypeOK
    /\ file \in disk
    /\ SelfAccepted
    /\ Tracked
    /\ \A d \in Daemon : Quiet(d) /\ LateOK(d) /\ Stage(d) /\ OkMeansSettled(d)

-----------------------------------------------------------------------------
(* Types *)

LEMMA DesiredTopics ==
    ASSUME NEW c \in Config
    PROVE  Desired(c) \subseteq Topic /\ Desired(c) \subseteq {c.device} \X Entity
BY DEF Desired, Config, Topic

LEMMA TypeInit == Init => TypeOK
<1> SUFFICES ASSUME Init PROVE TypeOK
  OBVIOUS
<1>1. retained \in [Topic -> Client \cup {Nobody}]
  <2>1. CASE file \in Existing
    <3>1. file \in Manifest
      BY <2>1, ExistingAssumption
    <3> QED BY <2>1, <3>1 DEF Init, Manifest
  <2>2. CASE file \notin Existing
    BY <2>2 DEF Init
  <2> QED BY <2>1, <2>2
<1>2. file \in Manifest \cup {NoState, Corrupt}
  BY ExistingAssumption DEF Init
<1> QED BY <1>1, <1>2, BoundAssumption DEF Init, TypeOK

\* A write in any stage records a manifest.
LEMMA RecordType ==
    ASSUME TypeOK, NEW d \in Daemon, pc[d] \in Writing
    PROVE  Record(d) \in Manifest
<1>1. cfg[d] \in Config /\ stale[d] \subseteq Topic
  BY DEF TypeOK
<1>2. Topics(d) \subseteq Topic
  BY <1>1, DesiredTopics DEF Topics, Pending, Writing
<1> QED BY <1>1, <1>2 DEF Record, Manifest, Config

LEMMA TypeStep == TypeOK /\ [Next]_vars => TypeOK'
<1> SUFFICES ASSUME TypeOK, [Next]_vars PROVE TypeOK'
  OBVIOUS
<1> USE DEF Reconciling, Publishing, Writing, Syncing
<1>1. CASE PowerLoss
  BY <1>1, BoundAssumption DEF PowerLoss, Dies, TypeOK
<1>2. ASSUME NEW d \in Daemon, Step(d) PROVE TypeOK'
  <2>1. ASSUME NEW c \in Configs[d], Start(d, c) PROVE TypeOK'
    <3>1. c \in Config
      BY ConfigsAssumption
    <3> QED BY <2>1, <3>1 DEF Start, TypeOK, store, broker
  <2>2. CASE Reconnect(d)
    BY <2>2 DEF Reconnect, TypeOK, store, broker
  <2>3. CASE Stop(d)
    BY <2>3, BoundAssumption DEF Stop, Dies, TypeOK, store
  <2>4. CASE Lock(d)
    BY <2>4 DEF Lock, Goto, TypeOK, store, broker
  <2>5. CASE LockFails(d)
    BY <2>5 DEF LockFails, TypeOK, store, broker
  <2>6. CASE Refuse(d)
    BY <2>6 DEF Refuse, Return, TypeOK, store, broker
  <2>7. CASE Adopt(d)
    <3>1. file # NoState => file \in Manifest
      BY <2>7 DEF Adopt, Accepted, Usable, TypeOK
    <3> QED BY <2>7, <3>1 DEF Adopt, Goto, TypeOK, store, broker, Manifest
  <2>8. CASE ChangeDevice(d)
    <3>1. file \in Manifest
      BY <2>8 DEF ChangeDevice, Accepted, Usable, TypeOK
    <3> QED BY <2>8, <3>1 DEF ChangeDevice, Goto, TypeOK, store, broker, Manifest
  <2>9. ASSUME NEW t \in Topic, Publish(d, t) PROVE TypeOK'
    <3>1. cfg[d].client \in Client
      BY DEF TypeOK, Config
    <3> QED BY <2>9, <3>1 DEF Publish, Applied, TypeOK, store
  <2>10. ASSUME NEW t \in Topic, PublishFails(d, t) PROVE TypeOK'
    <3>1. [topic |-> t, set |-> pc[d] = "announce"] \in Op
      BY DEF Op
    <3> QED BY <2>10, <3>1 DEF PublishFails, Return, TypeOK, store
  <2>11. ASSUME NEW op \in Op, Deliver(d, op) PROVE TypeOK'
    <3>1. cfg[d].client \in Client /\ op.topic \in Topic
      BY DEF TypeOK, Config, Op
    <3> QED BY <2>11, <3>1 DEF Deliver, Applied, TypeOK, store
  <2>12. CASE Purged(d)
    BY <2>12 DEF Purged, Goto, TypeOK, store, broker
  <2>13. CASE Cleared(d)
    <3>1. Desired(cfg[d]) \subseteq Topic
      BY DesiredTopics DEF TypeOK
    <3> QED BY <2>13, <3>1 DEF Cleared, Announcements, Goto, TypeOK, store, broker
  <2>14. CASE Announced(d)
    BY <2>14 DEF Announced, Goto, TypeOK, store, broker
  <2>15. CASE Rename(d)
    <3>1. Record(d) \in Manifest
      BY <2>15, RecordType DEF Rename
    <3> QED BY <2>15, <3>1 DEF Rename, TypeOK, broker
  <2>16. CASE TooLarge(d) \/ WriteFails(d)
    BY <2>16 DEF TooLarge, WriteFails, Return, TypeOK, store, broker
  <2>17. CASE SyncDir(d)
    BY <2>17 DEF SyncDir, AfterSync, Goto, TypeOK, broker
  <2>18. CASE Finish(d)
    BY <2>18 DEF Finish, Return, TypeOK, broker
  <2>19. CASE SyncFails(d)
    BY <2>19 DEF SyncFails, Return, TypeOK, store, broker
  <2> QED BY <1>2, <2>1, <2>2, <2>3, <2>4, <2>5, <2>6, <2>7, <2>8, <2>9, <2>10, <2>11,
             <2>12, <2>13, <2>14, <2>15, <2>16, <2>17, <2>18, <2>19 DEF Step
<1>3. CASE UNCHANGED vars
  BY <1>3 DEF vars, TypeOK
<1> QED BY <1>1, <1>2, <1>3 DEF Next

-----------------------------------------------------------------------------
(* The invariant *)

\* Two daemons never run with the same client identifier.
LEMMA DistinctClients ==
    ASSUME IInv, NEW d \in Daemon, NEW e \in Daemon, d # e
    PROVE  cfg[d].client # cfg[e].client
BY ClientAssumption DEF IInv, Quiet

\* Only the holder of the lock is past lockDiscoveryState.
LEMMA OneReconciles ==
    ASSUME IInv, NEW d \in Daemon, NEW e \in Daemon, d # e, pc[d] \in Reconciling
    PROVE  pc[e] \notin Reconciling
BY DEF IInv, Quiet

\* While d works on the file nobody else has claims on it: no late publication
\* and no completed reconciliation of another daemon.
LEMMA NoClaims ==
    ASSUME IInv, NEW d \in Daemon, NEW e \in Daemon, d # e,
           file # NoState => (file \in Manifest => file.owner = cfg[d].client)
    PROVE  late[e] = {} /\ ~ok[e]
<1>1. cfg[d].client # cfg[e].client
  BY DistinctClients
<1>2. late[e] = {}
  BY <1>1, FileAssumption DEF IInv, LateOK
<1>3. ~ok[e]
  <2> SUFFICES ASSUME ok[e] PROVE FALSE
    BY DEF IInv, TypeOK
  <2>1. file = Rec(e, Want(e))
    BY DEF IInv, OkMeansSettled
  <2>2. file.owner = cfg[e].client
    BY <2>1 DEF Rec
  <2>3. file \in Manifest
    <3>1. cfg[e] \in Config
      BY DEF IInv, TypeOK
    <3> QED BY <2>1, <3>1, DesiredTopics DEF Rec, Want, Manifest, Config
  <2> QED BY <1>1, <2>2, <2>3, FileAssumption
<1> QED BY <1>2, <1>3

\* Past the checks the file is d's, or there is none.
LEMMA StageOwner ==
    ASSUME IInv, NEW d \in Daemon, pc[d] \in Reconciling \ {"locked"}
    PROVE  /\ file # Corrupt
           /\ file # NoState => file \in Manifest /\ file.owner = cfg[d].client
           /\ pc[d] # "pending" => file # NoState
<1> USE FileAssumption
<1>0. file \in Manifest \cup {NoState, Corrupt} /\ cfg[d] \in Config /\ stale[d] \subseteq Topic
  BY DEF IInv, TypeOK
<1>1. Stage(d)
  BY DEF IInv
<1>2. \A ts \in SUBSET Topic : Rec(d, ts) \in Manifest /\ Rec(d, ts).owner = cfg[d].client
  BY <1>0 DEF Rec, Manifest, Config
<1>3. {} \in SUBSET Topic /\ Want(d) \in SUBSET Topic /\ Pending(d) \in SUBSET Topic
  BY <1>0, DesiredTopics DEF Want, Pending
<1>4. CASE pc[d] \in {"purge", "renew"}
  BY <1>1, <1>4 DEF Stage, StagePurge, StageRenew, OldDevice
<1>5. CASE pc[d] = "renewSync"
  BY <1>1, <1>2, <1>3, <1>5 DEF Stage, StageRenewSync
<1>6. CASE pc[d] = "pending"
  BY <1>0, <1>1, <1>6 DEF Stage, StagePending
<1>7. CASE pc[d] = "pendingSync"
  BY <1>1, <1>2, <1>3, <1>7 DEF Stage, StagePendingSync
<1>8. CASE pc[d] \in {"clear", "announce", "final"}
  <2>1. PendingDurable(d)
    BY <1>1, <1>8 DEF Stage, StageClear, StageAnnounce, StageFinal
  <2> QED BY <1>2, <1>3, <1>8, <2>1 DEF PendingDurable
<1>9. CASE pc[d] = "finalSync"
  BY <1>1, <1>2, <1>3, <1>9 DEF Stage, StageFinalSync
<1> QED BY <1>4, <1>5, <1>6, <1>7, <1>8, <1>9 DEF Reconciling, Publishing, Writing, Syncing

\* A step of d that leaves the variables of another daemon e alone keeps e's
\* part, if e is not past the checks and has no claims on what changes.
LEMMA OtherUnaffected ==
    ASSUME IInv, NEW e \in Daemon,
           cfg'[e] = cfg[e], pc'[e] = pc[e], stale'[e] = stale[e], todo'[e] = todo[e],
           late'[e] = late[e], ok'[e] = ok[e],
           pc[e] \in Reconciling => pc[e] = "locked" /\ lock' = lock,
           \/ file' = file /\ retained' = retained
           \/ late[e] = {} /\ ~ok[e]
    PROVE  Quiet(e)' /\ LateOK(e)' /\ Stage(e)' /\ OkMeansSettled(e)'
<1>0. Quiet(e) /\ LateOK(e) /\ Stage(e) /\ OkMeansSettled(e) /\ ok[e] \in BOOLEAN
  BY DEF IInv, TypeOK
<1>1. Quiet(e)'
  BY <1>0 DEF Quiet
<1>2. LateOK(e)'
  BY <1>0 DEF LateOK, Want
<1>3. Stage(e)'
  BY <1>0 DEF Stage, Reconciling, Publishing, Writing, Syncing
<1>4. OkMeansSettled(e)'
  BY <1>0 DEF OkMeansSettled, Rec, Want, OnlyWanted, AllWanted
<1> QED BY <1>1, <1>2, <1>3, <1>4

\* A step that leaves everything alone that e can see keeps e's part.
LEMMA OtherSame ==
    ASSUME IInv, NEW e \in Daemon,
           cfg'[e] = cfg[e], pc'[e] = pc[e], stale'[e] = stale[e], todo'[e] = todo[e],
           late'[e] = late[e], ok'[e] = ok[e],
           pc[e] \in Reconciling => lock' = lock,
           file' = file, disk' = disk, retained' = retained
    PROVE  Quiet(e)' /\ LateOK(e)' /\ Stage(e)' /\ OkMeansSettled(e)'
<1>0. Quiet(e) /\ LateOK(e) /\ Stage(e) /\ OkMeansSettled(e)
  BY DEF IInv
<1>1. Quiet(e)'
  BY <1>0 DEF Quiet
<1>2. LateOK(e)'
  BY <1>0 DEF LateOK, Want
<1>3. Stage(e)'
  BY <1>0 DEF Stage, StagePurge, StageRenew, StageRenewSync, StagePending, StagePendingSync,
              StageClear, StageAnnounce, StageFinal, StageFinalSync, PendingDurable, StaleOK,
              OldDevice, OnlyWanted, AllWanted, Rec, Want, DeviceTopics, Pending
<1>4. OkMeansSettled(e)'
  BY <1>0 DEF OkMeansSettled, Rec, Want, OnlyWanted, AllWanted
<1> QED BY <1>1, <1>2, <1>3, <1>4

\* A step that leaves the file and the broker alone, and publications that
\* may still arrive, keeps what is said of them.
LEMMA StoreSame ==
    ASSUME IInv, file' = file, disk' = disk, retained' = retained, late' = late,
           \A d \in Daemon : late[d] # {} => cfg'[d] = cfg[d]
    PROVE  file' \in disk' /\ SelfAccepted' /\ Tracked'
<1>1. SelfAccepted'
  BY DEF IInv, SelfAccepted, Survivors, Usable, ValidManifest
<1>2. Tracked'
  BY DEF IInv, Tracked, Survivors, Lists
<1> QED BY <1>1, <1>2 DEF IInv

\* The wanted topics belong to the configured device.
LEMMA WantTopics ==
    ASSUME TypeOK, NEW d \in Daemon
    PROVE  /\ Want(d) \subseteq Topic
           /\ Want(d) \subseteq DeviceTopics(d)
           /\ \A t \in Want(d) : t[1] = cfg[d].device
           /\ Pending(d) \subseteq Topic
           /\ cfg[d].client \in Client
BY DEF TypeOK, Config, Want, Desired, Topic, DeviceTopics, Pending

\* While the file belongs to another device no publication that sets a topic
\* is under way: the topic would have to be listed there.
LEMMA NoLateSets ==
    ASSUME IInv, NEW d \in Daemon, OldDevice(d), NEW op \in late[d]
    PROVE  ~op.set /\ op.topic \notin Want(d)
<1>1. SUFFICES ASSUME op.topic \in Want(d) PROVE FALSE
  BY DEF IInv, LateOK
<1>2. op.set
  BY <1>1 DEF IInv, LateOK
<1>3. op.topic \in file.topics
  BY <1>2 DEF IInv, Tracked, Survivors, Lists
<1>4. op.topic[1] = file.device
  BY <1>3, FileAssumption DEF IInv, SelfAccepted, Survivors, Usable, ValidManifest, OldDevice
<1> QED BY <1>1, <1>4, WantTopics DEF IInv, OldDevice

-----------------------------------------------------------------------------
(* The steps *)

LEMMA InitInvariant == Init => IInv
<1> SUFFICES ASSUME Init PROVE IInv
  OBVIOUS
<1>1. TypeOK
  BY TypeInit
<1>2. file \in disk
  BY DEF Init
<1>3. SelfAccepted
  BY ExistingAssumption DEF Init, SelfAccepted, Survivors, Usable
<1>4. Tracked
  <2>1. ASSUME NEW t \in Topic, retained[t] # Nobody PROVE Lists(file, t, retained[t])
    <3>1. file \in Existing
      BY <2>1 DEF Init
    <3>2. file \in Manifest
      BY <3>1, ExistingAssumption
    <3>3. retained = [x \in Topic |-> IF x \in file.topics THEN file.owner ELSE Nobody]
      BY <3>1 DEF Init
    <3> QED BY <2>1, <3>2, <3>3 DEF Lists
  <2> QED BY <2>1 DEF Init, Tracked, Survivors
<1>5. ASSUME NEW d \in Daemon PROVE Quiet(d) /\ LateOK(d) /\ Stage(d) /\ OkMeansSettled(d)
  BY DEF Init, Quiet, LateOK, Stage, OkMeansSettled, Reconciling, Publishing, Writing, Syncing
<1> QED BY <1>1, <1>2, <1>3, <1>4, <1>5 DEF IInv

LEMMA StepStart ==
    ASSUME IInv, TypeOK', NEW d \in Daemon, NEW c \in Configs[d], Start(d, c)
    PROVE  IInv'
<1> USE DEF Start, store, broker, Reconciling, Publishing, Writing, Syncing
<1>0. TypeOK /\ Quiet(d)
  BY DEF IInv
<1>1. late[d] = {} /\ ~ok[d]
  BY <1>0 DEF Quiet
<1>2. file' \in disk' /\ SelfAccepted' /\ Tracked'
  BY <1>0, <1>1, StoreSame DEF TypeOK
<1>3. ASSUME NEW e \in Daemon, e # d
      PROVE Quiet(e)' /\ LateOK(e)' /\ Stage(e)' /\ OkMeansSettled(e)'
  BY <1>0, <1>3, OtherSame DEF TypeOK
<1>4. Quiet(d)' /\ LateOK(d)' /\ Stage(d)' /\ OkMeansSettled(d)'
  BY <1>0, <1>1 DEF TypeOK, Quiet, LateOK, Stage, OkMeansSettled
<1> QED BY <1>2, <1>3, <1>4 DEF IInv

LEMMA StepReconnect ==
    ASSUME IInv, TypeOK', NEW d \in Daemon, Reconnect(d) \/ LockFails(d)
    PROVE  IInv'
<1>0. TypeOK /\ UNCHANGED <<file, disk, lock, retained, late, cfg, pc, stale, todo>>
  BY DEF IInv, Reconnect, LockFails, store, broker
<1>1. file' \in disk' /\ SelfAccepted' /\ Tracked'
  BY <1>0, StoreSame
<1>2. ASSUME NEW e \in Daemon, ok'[e] = ok[e]
      PROVE Quiet(e)' /\ LateOK(e)' /\ Stage(e)' /\ OkMeansSettled(e)'
  BY <1>0, <1>2, OtherSame
<1>3. CASE Reconnect(d)
  BY <1>1, <1>2, <1>3 DEF IInv, Reconnect
<1>4. CASE LockFails(d)
  <2>1. pc[d] = "idle" /\ ~ok'[d] /\ Quiet(d) /\ LateOK(d)
    BY <1>0, <1>4 DEF LockFails, TypeOK, IInv
  <2>2. Quiet(d)' /\ LateOK(d)' /\ Stage(d)' /\ OkMeansSettled(d)'
    BY <1>0, <2>1 DEF Quiet, LateOK, Want, Stage, OkMeansSettled
  <2>3. \A e \in Daemon : e # d => ok'[e] = ok[e]
    BY <1>0, <1>4 DEF LockFails, TypeOK
  <2> QED BY <1>1, <1>2, <2>2, <2>3 DEF IInv
<1> QED BY <1>3, <1>4

\* A daemon that stops, and a power loss, leave the broker and a file that was
\* already among the survivors.
LEMMA StepDies ==
    ASSUME IInv, TypeOK', NEW ds \in SUBSET Daemon, Dies(ds),
           \/ UNCHANGED store
           \/ ds = Daemon /\ file' \in disk /\ disk' = {file'}
    PROVE  IInv'
<1> USE DEF Dies
<1>0. TypeOK
  BY DEF IInv
<1>1. Survivors' \subseteq Survivors /\ file' \in disk'
  BY DEF IInv, Survivors, store
<1>2. SelfAccepted'
  BY <1>1 DEF IInv, SelfAccepted, Usable, ValidManifest
<1>3. Tracked'
  BY <1>0, <1>1 DEF IInv, Tracked, Lists, TypeOK
<1>4. ASSUME NEW e \in Daemon, e \in ds
      PROVE Quiet(e)' /\ LateOK(e)' /\ Stage(e)' /\ OkMeansSettled(e)'
  <2>1. cfg[e] \in Configs[e]
    BY DEF IInv, Quiet
  <2>2. pc'[e] = "down" /\ late'[e] = {} /\ todo'[e] = {} /\ stale'[e] = {} /\ ~ok'[e]
    BY <1>4
  <2> QED BY <2>1, <2>2 DEF Quiet, LateOK, Stage, OkMeansSettled, Reconciling, Publishing,
                            Writing, Syncing
<1>5. ASSUME NEW e \in Daemon, e \notin ds
      PROVE Quiet(e)' /\ LateOK(e)' /\ Stage(e)' /\ OkMeansSettled(e)'
  <2>1. UNCHANGED store
    BY <1>5
  <2>2. pc[e] \in Reconciling => lock' = lock
    BY <1>5 DEF IInv, Quiet
  <2>3. late'[e] = late[e] /\ ok'[e] = ok[e] /\ pc'[e] = pc[e] /\ todo'[e] = todo[e]
        /\ stale'[e] = stale[e]
    BY <1>0, <1>5 DEF TypeOK
  <2> QED BY <2>1, <2>2, <2>3, OtherSame DEF store
<1> QED BY <1>1, <1>2, <1>3, <1>4, <1>5 DEF IInv

LEMMA StepLock ==
    ASSUME IInv, TypeOK', NEW d \in Daemon, Lock(d)
    PROVE  IInv'
<1> USE DEF Lock, LockFree, Goto, store, broker
<1>0. TypeOK /\ Quiet(d) /\ LateOK(d)
  BY DEF IInv
<1>1. file' \in disk' /\ SelfAccepted' /\ Tracked'
  BY StoreSame
<1>2. ASSUME NEW e \in Daemon, e # d
      PROVE Quiet(e)' /\ LateOK(e)' /\ Stage(e)' /\ OkMeansSettled(e)'
  <2>1. pc[e] \notin Reconciling
    BY NobodyAssumption DEF IInv, Quiet
  <2> QED BY <1>0, <1>2, <2>1, OtherSame DEF TypeOK
<1>3. pc'[d] = "locked" /\ ~ok'[d] /\ lock' = d
  BY <1>0 DEF TypeOK
<1>4. Quiet(d)' /\ LateOK(d)' /\ Stage(d)' /\ OkMeansSettled(d)'
  BY <1>0, <1>3 DEF Quiet, LateOK, Want, Stage, OkMeansSettled, Reconciling, Publishing,
                    Writing, Syncing
<1> QED BY <1>1, <1>2, <1>4 DEF IInv

\* Every return other than of a reconciliation that succeeded.
LEMMA StepReturn ==
    ASSUME IInv, TypeOK', NEW d \in Daemon, Refuse(d) \/ TooLarge(d) \/ WriteFails(d) \/ SyncFails(d)
    PROVE  IInv'
<1>0. /\ TypeOK /\ Quiet(d) /\ LateOK(d)
      /\ pc[d] \in Reconciling
      /\ Return(d, FALSE) /\ UNCHANGED <<file, disk, retained, late>>
  BY DEF IInv, Refuse, TooLarge, WriteFails, SyncFails, Reconciling, store, broker
<1>1. file' \in disk' /\ SelfAccepted' /\ Tracked'
  BY <1>0, StoreSame DEF Return
<1>2. ASSUME NEW e \in Daemon, e # d
      PROVE Quiet(e)' /\ LateOK(e)' /\ Stage(e)' /\ OkMeansSettled(e)'
  <2>1. pc[e] \notin Reconciling
    BY <1>0, <1>2, OneReconciles
  <2> QED BY <1>0, <1>2, <2>1, OtherSame DEF TypeOK, Return
<1>3. pc'[d] = "idle" /\ ~ok'[d] /\ stale'[d] = {} /\ todo'[d] = {}
  BY <1>0 DEF TypeOK, Return
<1>4. Quiet(d)' /\ LateOK(d)' /\ Stage(d)' /\ OkMeansSettled(d)'
  BY <1>0, <1>3 DEF Quiet, LateOK, Want, Stage, OkMeansSettled, Reconciling, Publishing,
                    Writing, Syncing, Return
<1> QED BY <1>1, <1>2, <1>4 DEF IInv

LEMMA StepAdopt ==
    ASSUME IInv, TypeOK', NEW d \in Daemon, Adopt(d)
    PROVE  IInv'
<1> USE DEF Adopt, Goto, store, broker
<1>0. TypeOK /\ Quiet(d) /\ LateOK(d) /\ pc[d] \in Reconciling
  BY DEF IInv, Reconciling
<1>1. file' \in disk' /\ SelfAccepted' /\ Tracked'
  BY StoreSame
<1>2. ASSUME NEW e \in Daemon, e # d
      PROVE Quiet(e)' /\ LateOK(e)' /\ Stage(e)' /\ OkMeansSettled(e)'
  <2>1. pc[e] \notin Reconciling
    BY <1>0, <1>2, OneReconciles
  <2> QED BY <1>0, <1>2, <2>1, OtherSame DEF TypeOK
<1>3. pc'[d] = "pending" /\ ok'[d] = ok[d]
      /\ stale'[d] = IF file = NoState THEN {} ELSE file.topics \ Want(d)
  BY <1>0 DEF TypeOK, Want
<1>4. file # NoState => /\ file \in Manifest /\ file # Corrupt /\ file.owner = cfg[d].client
                        /\ file.device = cfg[d].device
                        /\ file.topics \subseteq DeviceTopics(d)
  <2> SUFFICES ASSUME file # NoState
               PROVE  /\ file \in Manifest /\ file # Corrupt /\ file.owner = cfg[d].client
                      /\ file.device = cfg[d].device
                      /\ file.topics \subseteq DeviceTopics(d)
    OBVIOUS
  <2>1. file \in Manifest /\ file # Corrupt /\ file.owner = cfg[d].client /\ ValidManifest(file)
        /\ file.device = cfg[d].device
    BY <1>0 DEF Accepted, Usable, Owned, TypeOK
  <2>2. file.topics \subseteq DeviceTopics(d)
    BY <2>1 DEF Manifest, ValidManifest, DeviceTopics, Topic
  <2> QED BY <2>1, <2>2
<1>5. StagePending(d)'
  <2>1. StaleOK(d)'
    BY <1>3, <1>4 DEF StaleOK, Want, DeviceTopics
  <2>2. file # NoState => file.topics \subseteq Pending(d)'
    BY <1>3 DEF Pending, Want
  <2>3. file # Corrupt
    BY <1>0, FileAssumption DEF Accepted, Usable
  <2> QED BY <1>4, <2>1, <2>2, <2>3 DEF StagePending
<1>6. Quiet(d)' /\ LateOK(d)' /\ Stage(d)' /\ OkMeansSettled(d)'
  BY <1>0, <1>3, <1>5 DEF Quiet, LateOK, Want, Stage, OkMeansSettled, Reconciling, Publishing,
                          Writing, Syncing
<1> QED BY <1>1, <1>2, <1>6 DEF IInv

LEMMA StepChangeDevice ==
    ASSUME IInv, TypeOK', NEW d \in Daemon, ChangeDevice(d)
    PROVE  IInv'
<1> USE DEF ChangeDevice, Goto, store, broker
<1>0. TypeOK /\ Quiet(d) /\ LateOK(d) /\ Stage(d) /\ pc[d] \in Reconciling
  BY DEF IInv, Reconciling
<1>1. file' \in disk' /\ SelfAccepted' /\ Tracked'
  BY StoreSame
<1>2. ASSUME NEW e \in Daemon, e # d
      PROVE Quiet(e)' /\ LateOK(e)' /\ Stage(e)' /\ OkMeansSettled(e)'
  <2>1. pc[e] \notin Reconciling
    BY <1>0, <1>2, OneReconciles
  <2> QED BY <1>0, <1>2, <2>1, OtherSame DEF TypeOK
<1>3. pc'[d] = "purge" /\ ok'[d] = ok[d] /\ stale'[d] = {} /\ todo'[d] = file.topics
  BY <1>0 DEF TypeOK, Stage
<1>4. StagePurge(d)'
  <2>1. OldDevice(d)'
    BY <1>0 DEF OldDevice, Accepted, Usable, Owned, TypeOK
  <2>2. \A t \in Topic : retained[t] # Nobody => t \in file.topics
    BY DEF IInv, Tracked, Survivors, Lists
  <2> QED BY <1>3, <2>1, <2>2 DEF StagePurge
<1>5. Quiet(d)' /\ LateOK(d)' /\ Stage(d)' /\ OkMeansSettled(d)'
  BY <1>0, <1>3, <1>4 DEF Quiet, LateOK, Want, Stage, OkMeansSettled, Reconciling, Publishing,
                          Writing, Syncing
<1> QED BY <1>1, <1>2, <1>5 DEF IInv

\* An acknowledged publication: discoveryQoS is never 0.
LEMMA StepPublish ==
    ASSUME IInv, TypeOK', NEW d \in Daemon, NEW t \in Topic, Publish(d, t)
    PROVE  IInv'
<1> USE DEF store
<1>0. /\ TypeOK /\ Quiet(d) /\ LateOK(d) /\ Stage(d) /\ SelfAccepted /\ Tracked
      /\ pc[d] \in Reconciling \ {"locked"} /\ pc[d] \in Publishing /\ pc[d] # "pending"
      /\ t \in todo[d]
      /\ UNCHANGED <<file, disk, lock, cfg, pc, due, stale, late, ok, stops>>
  BY DEF IInv, Publish, Reconciling, Publishing
<1>1. /\ retained' = [retained EXCEPT ![t] = IF pc[d] = "announce" THEN cfg[d].client ELSE Nobody]
      /\ todo' = [todo EXCEPT ![d] = @ \ {t}]
  <2> DEFINE op == [topic |-> t, set |-> pc[d] = "announce"]
  <2>1. discoveryQoS # 0
    BY BoundAssumption DEF discoveryQoS
  <2>2. retained' = Applied(op, cfg[d].client)
    BY <2>1 DEF Publish
  <2>3. op.topic = t /\ (op.set <=> pc[d] = "announce")
    OBVIOUS
  <2> HIDE DEF op
  <2> QED BY <2>2, <2>3 DEF Publish, Applied
<1>2. \A x \in Topic : retained'[x] = IF x # t THEN retained[x]
                                      ELSE IF pc[d] = "announce" THEN cfg[d].client ELSE Nobody
  BY <1>0, <1>1 DEF TypeOK
<1>3. todo'[d] = todo[d] \ {t}
  BY <1>0, <1>1 DEF TypeOK
<1>4. cfg[d].client \in Client /\ cfg[d].client # Nobody
  BY <1>0, WantTopics, NobodyAssumption
<1>5. pc[d] = "announce" => \A m \in Survivors : Lists(m, t, cfg[d].client)
  <2> SUFFICES ASSUME pc[d] = "announce" PROVE \A m \in Survivors : Lists(m, t, cfg[d].client)
    OBVIOUS
  <2>1. file \in Manifest /\ file.owner = cfg[d].client
    BY <1>0, StageOwner
  <2>2. file.topics = Pending(d) /\ Survivors = {file} /\ t \in Pending(d)
    BY <1>0 DEF Stage, StageAnnounce, PendingDurable, Rec, Survivors, Pending, Want
  <2> QED BY <2>1, <2>2 DEF Lists
<1>6. file' \in disk' /\ SelfAccepted'
  BY <1>0 DEF IInv, SelfAccepted, Survivors, Usable, ValidManifest
<1>7. Tracked'
  BY <1>0, <1>2, <1>5 DEF Tracked, Survivors, Lists
<1>8. ASSUME NEW e \in Daemon, e # d
      PROVE Quiet(e)' /\ LateOK(e)' /\ Stage(e)' /\ OkMeansSettled(e)'
  <2>1. pc[e] \notin Reconciling
    BY <1>0, <1>8, OneReconciles
  <2>2. late[e] = {} /\ ~ok[e]
    BY <1>0, <1>8, StageOwner, NoClaims
  <2>3. todo'[e] = todo[e]
    BY <1>0, <1>1, <1>8 DEF TypeOK
  <2> QED BY <1>0, <2>1, <2>2, <2>3, OtherUnaffected
<1>9. Stage(d)'
  <2>1. CASE pc[d] = "purge"
    <3>1. StagePurge(d)'
      BY <1>0, <1>2, <1>3, <2>1 DEF Stage, StagePurge, OldDevice
    <3> QED BY <1>0, <2>1, <3>1 DEF Stage
  <2>2. CASE pc[d] = "clear"
    <3>1. StageClear(d)'
      BY <1>0, <1>2, <1>3, <2>2 DEF Stage, StageClear, PendingDurable, StaleOK, DeviceTopics,
                                    Want, Rec, Pending, OnlyWanted
    <3> QED BY <1>0, <2>2, <3>1 DEF Stage
  <2>3. CASE pc[d] = "announce"
    <3>1. PendingDurable(d)'
      BY <1>0, <2>3 DEF Stage, StageAnnounce, PendingDurable, StaleOK, DeviceTopics, Want, Rec, Pending
    <3>2. OnlyWanted(d, {})' /\ AllWanted(d, todo[d])' /\ todo'[d] \subseteq Want(d)'
      <4>1. todo[d] \subseteq Want(d) /\ OnlyWanted(d, {}) /\ AllWanted(d, todo[d])
            /\ Want(d) \subseteq Topic
        BY <1>0, <2>3, WantTopics DEF Stage, StageAnnounce
      <4> QED BY <1>0, <1>2, <1>3, <1>4, <2>3, <4>1 DEF Want, OnlyWanted, AllWanted
    <3> QED BY <1>0, <2>3, <3>1, <3>2 DEF Stage, StageAnnounce
  <2> QED BY <1>0, <2>1, <2>2, <2>3 DEF Publishing
<1>10. Quiet(d)' /\ LateOK(d)' /\ OkMeansSettled(d)'
  BY <1>0 DEF Quiet, LateOK, Want, OkMeansSettled, Publishing
<1> QED BY <1>6, <1>7, <1>8, <1>9, <1>10 DEF IInv

\* A publication that timed out: what it may still do fits the configuration.
LEMMA StepPublishFails ==
    ASSUME IInv, TypeOK', NEW d \in Daemon, NEW t \in Topic, PublishFails(d, t)
    PROVE  IInv'
<1> DEFINE op == [topic |-> t, set |-> pc[d] = "announce"]
<1>0. /\ TypeOK /\ Quiet(d) /\ LateOK(d) /\ Stage(d) /\ SelfAccepted /\ Tracked
      /\ pc[d] \in Reconciling \ {"locked"} /\ pc[d] \in Publishing /\ pc[d] # "pending"
      /\ t \in todo[d] /\ Return(d, FALSE) /\ UNCHANGED <<file, disk, retained>>
  BY DEF IInv, PublishFails, Reconciling, Publishing, store
<1>1. late' = late \/ late' = [late EXCEPT ![d] = @ \cup {op}]
  BY DEF PublishFails
<1>2. late'[d] \subseteq late[d] \cup {op} /\ \A e \in Daemon : e # d => late'[e] = late[e]
  BY <1>0, <1>1 DEF TypeOK
<1>3. file \in Manifest /\ file.owner = cfg[d].client
  BY <1>0, StageOwner
<1>4. op.set <=> op.topic \in Want(d)
  <2>1. CASE pc[d] = "purge"
    <3>1. t[1] = file.device /\ file.device # cfg[d].device
      BY <1>0, <1>3, <2>1, FileAssumption DEF Stage, StagePurge, OldDevice, SelfAccepted, Survivors,
                                    Usable, ValidManifest
    <3>2. t \notin Want(d)
      BY <1>0, <3>1, WantTopics
    <3> QED BY <2>1, <3>2
  <2>2. CASE pc[d] = "clear"
    <3>1. t \notin Want(d)
      BY <1>0, <2>2 DEF Stage, StageClear, PendingDurable, StaleOK
    <3> QED BY <2>2, <3>1
  <2>3. CASE pc[d] = "announce"
    <3>1. t \in Want(d)
      BY <1>0, <2>3 DEF Stage, StageAnnounce
    <3> QED BY <2>3, <3>1
  <2> QED BY <1>0, <2>1, <2>2, <2>3 DEF Publishing
<1>5. op.set => \A m \in Survivors : Lists(m, op.topic, cfg[d].client)
  <2> SUFFICES ASSUME pc[d] = "announce" PROVE \A m \in Survivors : Lists(m, t, cfg[d].client)
    OBVIOUS
  <2>2. file.topics = Pending(d) /\ Survivors = {file} /\ t \in Pending(d)
    BY <1>0 DEF Stage, StageAnnounce, PendingDurable, Rec, Survivors, Pending, Want
  <2> QED BY <1>3, <2>2 DEF Lists
<1>6. file' \in disk' /\ SelfAccepted'
  BY <1>0 DEF IInv, SelfAccepted, Survivors, Usable, ValidManifest
<1>7. Tracked'
  <2>1. ASSUME NEW e \in Daemon, NEW x \in late'[e], x.set
        PROVE  \A m \in Survivors : Lists(m, x.topic, cfg[e].client)
    BY <1>0, <1>2, <1>5, <2>1 DEF Tracked
  <2> QED BY <1>0, <2>1 DEF Tracked, Survivors, Lists, Return
<1>8. ASSUME NEW e \in Daemon, e # d
      PROVE Quiet(e)' /\ LateOK(e)' /\ Stage(e)' /\ OkMeansSettled(e)'
  <2>1. pc[e] \notin Reconciling
    BY <1>0, <1>8, OneReconciles
  <2> QED BY <1>0, <1>2, <1>8, <2>1, OtherSame DEF TypeOK, Return
<1>9. pc'[d] = "idle" /\ ~ok'[d] /\ stale'[d] = {} /\ todo'[d] = {} /\ cfg' = cfg
  BY <1>0 DEF TypeOK, Return
<1>10. LateOK(d)'
  BY <1>0, <1>2, <1>3, <1>4, <1>9 DEF LateOK, Want
<1>11. Quiet(d)' /\ Stage(d)' /\ OkMeansSettled(d)'
  BY <1>0, <1>9 DEF Quiet, Stage, OkMeansSettled, Reconciling, Publishing, Writing, Syncing
<1> QED BY <1>6, <1>7, <1>8, <1>10, <1>11 DEF IInv

\* A publication that arrives late: it cannot undo what was settled since.
LEMMA StepDeliver ==
    ASSUME IInv, TypeOK', NEW d \in Daemon, NEW op \in Op, Deliver(d, op)
    PROVE  IInv'
<1>0. /\ TypeOK /\ Quiet(d) /\ LateOK(d) /\ Stage(d) /\ OkMeansSettled(d) /\ Tracked
      /\ op \in late[d] /\ op.topic \in Topic
      /\ UNCHANGED <<file, disk, lock, cfg, pc, due, stale, todo, ok, stops>>
  BY DEF IInv, Deliver, store, Op
<1>1. \A x \in Topic : retained'[x] = IF x # op.topic THEN retained[x]
                                      ELSE IF op.set THEN cfg[d].client ELSE Nobody
  BY <1>0 DEF Deliver, Applied, TypeOK
<1>2. late'[d] \subseteq late[d] /\ \A e \in Daemon : e # d => late'[e] = late[e]
  BY <1>0 DEF Deliver, TypeOK
<1>3. file \in Manifest /\ file.owner = cfg[d].client /\ (op.set <=> op.topic \in Want(d))
  BY <1>0 DEF LateOK
<1>4. cfg[d].client \in Client /\ cfg[d].client # Nobody
  BY <1>0, WantTopics, NobodyAssumption
<1>5. file' \in disk' /\ SelfAccepted'
  BY <1>0 DEF IInv, SelfAccepted, Survivors, Usable, ValidManifest
<1>6. Tracked'
  BY <1>0, <1>1, <1>2 DEF Tracked, Survivors, Lists
<1>7. ASSUME NEW e \in Daemon, e # d
      PROVE Quiet(e)' /\ LateOK(e)' /\ Stage(e)' /\ OkMeansSettled(e)'
  <2>1. late[e] = {} /\ ~ok[e]
    BY <1>3, <1>7, NoClaims
  <2>2. pc[e] \in Reconciling => pc[e] = "locked"
    BY <1>3, <1>7, StageOwner, DistinctClients, FileAssumption
  <2> QED BY <1>0, <1>2, <1>7, <2>1, <2>2, OtherUnaffected
<1>8. ASSUME NEW extra, OnlyWanted(d, extra) PROVE OnlyWanted(d, extra)'
  BY <1>0, <1>1, <1>3, <1>8 DEF OnlyWanted, Want
<1>9. ASSUME NEW missing, AllWanted(d, missing)
      PROVE  \A x \in Want(d) \ missing : retained'[x] = cfg[d].client
  BY <1>0, <1>1, <1>3, <1>9, WantTopics DEF AllWanted
<1>10. Stage(d)'
  <2>1. CASE pc[d] \in {"purge", "renew"}
    <3>1. ~op.set
      BY <1>0, <2>1, NoLateSets DEF Stage, StagePurge, StageRenew
    <3> QED BY <1>0, <1>1, <2>1, <3>1 DEF Stage, StagePurge, StageRenew, OldDevice
  <2>2. CASE pc[d] = "clear"
    BY <1>0, <1>8, <2>2 DEF Stage, StageClear, PendingDurable, StaleOK, DeviceTopics, Want, Rec,
                            Pending, OnlyWanted
  <2>3. CASE pc[d] = "announce"
    BY <1>0, <1>8, <1>9, <2>3 DEF Stage, StageAnnounce, PendingDurable, StaleOK, DeviceTopics, Want,
                            Rec, Pending, OnlyWanted, AllWanted
  <2>4. CASE pc[d] = "final"
    BY <1>0, <1>8, <1>9, <2>4 DEF Stage, StageFinal, PendingDurable, StaleOK, DeviceTopics, Want,
                            Rec, Pending, OnlyWanted, AllWanted
  <2>5. CASE pc[d] = "finalSync"
    BY <1>0, <1>8, <1>9, <2>5 DEF Stage, StageFinalSync, Want, Rec, OnlyWanted, AllWanted
  <2>6. CASE pc[d] \notin {"purge", "renew", "clear", "announce", "final", "finalSync"}
    BY <1>0, <2>6 DEF Stage, StageRenewSync, StagePending, StagePendingSync, StaleOK,
                      DeviceTopics, Want, Rec, Pending
  <2> QED BY <2>1, <2>2, <2>3, <2>4, <2>5, <2>6
<1>11. OkMeansSettled(d)'
  BY <1>0, <1>8, <1>9 DEF OkMeansSettled, Rec, Want, OnlyWanted, AllWanted
<1>12. Quiet(d)' /\ LateOK(d)'
  BY <1>0, <1>2 DEF Quiet, LateOK, Want
<1> QED BY <1>5, <1>6, <1>7, <1>10, <1>11, <1>12 DEF IInv

\* The ends of the loops over the topics.
LEMMA StepStageEnds ==
    ASSUME IInv, TypeOK', NEW d \in Daemon, Purged(d) \/ Cleared(d) \/ Announced(d)
    PROVE  IInv'
<1>0. /\ TypeOK /\ Quiet(d) /\ LateOK(d) /\ Stage(d) /\ OkMeansSettled(d)
      /\ pc[d] \in Reconciling
      /\ UNCHANGED <<file, disk, lock, retained, late, cfg, stale, ok>>
  BY DEF IInv, Purged, Cleared, Announced, Reconciling, Publishing, store, broker
<1>1. file' \in disk' /\ SelfAccepted' /\ Tracked'
  BY <1>0, StoreSame
<1>2. ASSUME NEW e \in Daemon, e # d
      PROVE Quiet(e)' /\ LateOK(e)' /\ Stage(e)' /\ OkMeansSettled(e)'
  <2>1. pc'[e] = pc[e] /\ todo'[e] = todo[e]
    BY <1>0, <1>2 DEF Purged, Cleared, Announced, Goto, TypeOK
  <2> QED BY <1>0, <2>1, OtherSame
<1>3. LateOK(d)'
  BY <1>0 DEF LateOK, Want
<1>4. CASE Purged(d)
  <2>1. pc[d] = "purge" /\ pc'[d] = "renew" /\ todo[d] = {} /\ todo'[d] = {}
    BY <1>0, <1>4 DEF Purged, Goto, TypeOK
  <2>2. Stage(d)'
    BY <1>0, <2>1 DEF Stage, StagePurge, StageRenew, OldDevice
  <2>3. Quiet(d)' /\ OkMeansSettled(d)'
    BY <1>0, <2>1 DEF Quiet, OkMeansSettled, Reconciling, Publishing, Writing, Syncing
  <2> QED BY <1>1, <1>2, <1>3, <2>2, <2>3 DEF IInv
<1>5. CASE Cleared(d)
  <2>1. pc[d] = "clear" /\ pc'[d] = "announce" /\ todo[d] = {} /\ todo'[d] = Want(d)
    BY <1>0, <1>5 DEF Cleared, Announcements, Goto, TypeOK, Want
  <2>2. StageAnnounce(d)'
    BY <1>0, <2>1 DEF Stage, StageClear, StageAnnounce, PendingDurable, StaleOK, DeviceTopics,
                      Want, Rec, Pending, OnlyWanted, AllWanted
  <2>3. Quiet(d)' /\ OkMeansSettled(d)' /\ Stage(d)'
    BY <1>0, <2>1, <2>2 DEF Quiet, Stage, OkMeansSettled, Reconciling, Publishing, Writing, Syncing
  <2> QED BY <1>1, <1>2, <1>3, <2>3 DEF IInv
<1>6. CASE Announced(d)
  <2>1. pc[d] = "announce" /\ pc'[d] = "final" /\ todo[d] = {} /\ todo'[d] = {}
    BY <1>0, <1>6 DEF Announced, Goto, TypeOK
  <2>2. StageFinal(d)'
    BY <1>0, <2>1 DEF Stage, StageAnnounce, StageFinal, PendingDurable, StaleOK, DeviceTopics,
                      Want, Rec, Pending, OnlyWanted, AllWanted
  <2>3. Quiet(d)' /\ OkMeansSettled(d)' /\ Stage(d)'
    BY <1>0, <2>1, <2>2 DEF Quiet, Stage, OkMeansSettled, Reconciling, Publishing, Writing, Syncing
  <2> QED BY <1>1, <1>2, <1>3, <2>3 DEF IInv
<1> QED BY <1>4, <1>5, <1>6

\* Whatever is retained or may still be set is listed in the record written.
LEMMA RecordCovers ==
    ASSUME IInv, NEW d \in Daemon, pc[d] \in Writing
    PROVE  /\ \A t \in Topic : retained[t] # Nobody => Lists(Record(d), t, retained[t])
           /\ \A op \in late[d] : op.set => Lists(Record(d), op.topic, cfg[d].client)
<1>0. /\ TypeOK /\ LateOK(d) /\ Stage(d) /\ Tracked
      /\ pc[d] \in Reconciling \ {"locked"} /\ Want(d) \subseteq Topic
  BY WantTopics DEF IInv, Reconciling, Writing
<1>1. Record(d) \in Manifest /\ Record(d).owner = cfg[d].client /\ Record(d).topics = Topics(d)
  BY <1>0, RecordType DEF Record
<1>2. ASSUME NEW t \in Topic, retained[t] # Nobody
      PROVE  file \in Manifest /\ t \in file.topics /\ file.owner = retained[t]
             /\ retained[t] = cfg[d].client
  <2>1. Lists(file, t, retained[t])
    BY <1>0, <1>2 DEF Tracked, Survivors
  <2> QED BY <1>0, <2>1, StageOwner, FileAssumption DEF Lists
<1>3. CASE pc[d] = "renew"
  <2>1. OldDevice(d) /\ \A t \in Topic : retained[t] = Nobody
    BY <1>0, <1>3 DEF Stage, StageRenew
  <2> QED BY <2>1, NoLateSets
<1>4. CASE pc[d] = "pending"
  <2>1. Topics(d) = Pending(d) /\ Want(d) \subseteq Pending(d)
    BY <1>4 DEF Topics, Pending, Want
  <2>2. file # NoState => file.topics \subseteq Pending(d)
    BY <1>0, <1>4 DEF Stage, StagePending
  <2> QED BY <1>0, <1>1, <1>2, <2>1, <2>2, FileAssumption DEF Lists, LateOK
<1>5. CASE pc[d] = "final"
  <2>1. Topics(d) = Want(d) /\ OnlyWanted(d, {})
    BY <1>0, <1>5 DEF Topics, Want, Stage, StageFinal
  <2> QED BY <1>0, <1>1, <1>2, <2>1 DEF Lists, LateOK, OnlyWanted
<1> QED BY <1>3, <1>4, <1>5 DEF Writing

LEMMA StepRename ==
    ASSUME IInv, TypeOK', NEW d \in Daemon, Rename(d)
    PROVE  IInv'
<1>0. /\ TypeOK /\ Quiet(d) /\ LateOK(d) /\ Stage(d) /\ OkMeansSettled(d) /\ SelfAccepted /\ Tracked
      /\ pc[d] \in Writing /\ pc[d] \in Reconciling \ {"locked"}
      /\ file' = Record(d) /\ disk' = disk \cup {Record(d)}
      /\ UNCHANGED <<lock, retained, late, cfg, due, stale, todo, ok, stops>>
  BY DEF IInv, Rename, Reconciling, Writing, broker
<1>1. Record(d) \in Manifest /\ Record(d).owner = cfg[d].client /\ Record(d) = Rec(d, Topics(d))
  BY <1>0, RecordType DEF Record, Rec
<1>2. Survivors' \subseteq Survivors \cup {Record(d)} /\ file' \in disk'
  BY <1>0 DEF Survivors
<1>3. /\ pc[d] = "renew" => pc'[d] = "renewSync"
      /\ pc[d] = "pending" => pc'[d] = "pendingSync"
      /\ pc[d] = "final" => pc'[d] = "finalSync"
      /\ \A e \in Daemon : e # d => pc'[e] = pc[e]
  BY <1>0 DEF Rename, TypeOK
<1>4. /\ pc[d] = "renew" => pc'[d] = "renewSync" /\ Topics(d) = {} /\ stale[d] = {}
      /\ pc[d] = "pending" => pc'[d] = "pendingSync" /\ Topics(d) = Pending(d) /\ StaleOK(d)
      /\ pc[d] = "final" => pc'[d] = "finalSync" /\ Topics(d) = Want(d)
                            /\ StaleOK(d) /\ OnlyWanted(d, {}) /\ AllWanted(d, {})
  BY <1>0, <1>3 DEF Topics, Want, Stage, StageRenew, StagePending, StageFinal, PendingDurable
<1>5. ValidManifest(Record(d))
  <2>1. \A t \in Topics(d) : t \in DeviceTopics(d)
    BY <1>0, <1>4, WantTopics DEF Writing, StaleOK, Pending, Want
  <2> QED BY <2>1 DEF ValidManifest, Record, DeviceTopics
<1>6. SelfAccepted'
  BY <1>0, <1>1, <1>2, <1>5, FileAssumption DEF SelfAccepted, Usable, ValidManifest
<1>7. \A e \in Daemon : e # d => late[e] = {} /\ ~ok[e] /\ pc[e] \notin Reconciling
  BY <1>0, StageOwner, NoClaims, OneReconciles
<1>8. Tracked'
  BY <1>0, <1>2, <1>7, RecordCovers DEF Tracked, Lists
<1>9. ASSUME NEW e \in Daemon, e # d
      PROVE Quiet(e)' /\ LateOK(e)' /\ Stage(e)' /\ OkMeansSettled(e)'
  BY <1>0, <1>3, <1>7, <1>9, OtherUnaffected
<1>10. LateOK(d)'
  BY <1>0, <1>1 DEF LateOK, Want
<1>11. Stage(d)'
  BY <1>0, <1>1, <1>4 DEF Writing, Stage, StageRenewSync, StagePendingSync, StageFinalSync, Rec,
                    Pending, StaleOK, DeviceTopics, Want, OnlyWanted, AllWanted
<1>12. Quiet(d)' /\ OkMeansSettled(d)'
  BY <1>0, <1>4 DEF Quiet, OkMeansSettled, Reconciling, Publishing, Writing, Syncing
<1> QED BY <1>2, <1>6, <1>8, <1>9, <1>10, <1>11, <1>12 DEF IInv

\* The directory is synced: the file is what a power loss leaves.
LEMMA StepSync ==
    ASSUME IInv, TypeOK', NEW d \in Daemon, SyncDir(d) \/ Finish(d)
    PROVE  IInv'
<1>0. /\ TypeOK /\ Quiet(d) /\ LateOK(d) /\ Stage(d) /\ OkMeansSettled(d) /\ SelfAccepted /\ Tracked
      /\ pc[d] \in Syncing /\ pc[d] \in Reconciling \ {"locked"}
      /\ disk' = {file}
      /\ UNCHANGED <<file, retained, late, cfg>>
  BY DEF IInv, SyncDir, AfterSync, Finish, Return, Reconciling, Syncing, broker
<1>1. Survivors' \subseteq Survivors /\ file' \in disk'
  BY <1>0 DEF Survivors
<1>2. SelfAccepted'
  BY <1>0, <1>1 DEF SelfAccepted, Usable, ValidManifest
<1>3. Tracked'
  BY <1>0, <1>1 DEF Tracked, Lists
<1>4. ASSUME NEW e \in Daemon, e # d
      PROVE Quiet(e)' /\ LateOK(e)' /\ Stage(e)' /\ OkMeansSettled(e)'
  <2>1. late[e] = {} /\ ~ok[e] /\ pc[e] \notin Reconciling
    BY <1>0, <1>4, StageOwner, NoClaims, OneReconciles
  <2>2. pc'[e] = pc[e] /\ todo'[e] = todo[e] /\ stale'[e] = stale[e] /\ ok'[e] = ok[e]
    BY <1>0, <1>4 DEF SyncDir, Finish, Return, Goto, TypeOK
  <2> QED BY <1>0, <2>1, <2>2, OtherUnaffected
<1>5. LateOK(d)'
  BY <1>0 DEF LateOK, Want
<1>6. CASE Finish(d)
  <2>1. pc[d] = "finalSync" /\ pc'[d] = "idle" /\ stale'[d] = {} /\ todo'[d] = {}
    BY <1>0, <1>6 DEF Finish, Return, TypeOK
  <2>2. Quiet(d)' /\ Stage(d)'
    BY <1>0, <2>1 DEF Quiet, Stage, Reconciling, Publishing, Writing, Syncing
  <2>3. OkMeansSettled(d)'
    BY <1>0, <2>1 DEF Stage, StageFinalSync, OkMeansSettled, Rec, Want, OnlyWanted, AllWanted
  <2> QED BY <1>1, <1>2, <1>3, <1>4, <1>5, <2>2, <2>3 DEF IInv
<1>7. CASE SyncDir(d) /\ pc[d] = "renewSync"
  <2>1. pc'[d] = "pending" /\ stale'[d] = stale[d] /\ todo'[d] = {} /\ ok'[d] = ok[d] /\ lock' = lock
    BY <1>0, <1>7 DEF SyncDir, AfterSync, Goto, TypeOK
  <2>2. StagePending(d)'
    <3>1. file = Rec(d, {}) /\ stale[d] = {}
      BY <1>0, <1>7 DEF Stage, StageRenewSync
    <3>2. file # Corrupt
      BY <1>0, StageOwner
    <3> QED BY <1>0, <2>1, <3>1, <3>2 DEF StagePending, StaleOK, Rec
  <2>3. Quiet(d)' /\ Stage(d)' /\ OkMeansSettled(d)'
    BY <1>0, <2>1, <2>2 DEF Quiet, Stage, OkMeansSettled, Reconciling, Publishing, Writing, Syncing
  <2> QED BY <1>1, <1>2, <1>3, <1>4, <1>5, <2>3 DEF IInv
<1>8. CASE SyncDir(d) /\ pc[d] = "pendingSync"
  <2>1. pc'[d] = "clear" /\ stale'[d] = stale[d] /\ todo'[d] = stale[d] /\ ok'[d] = ok[d] /\ lock' = lock
    BY <1>0, <1>8 DEF SyncDir, AfterSync, Goto, TypeOK
  <2>2. StaleOK(d) /\ file = Rec(d, Pending(d))
    BY <1>0, <1>8 DEF Stage, StagePendingSync
  <2>3. PendingDurable(d)'
    BY <1>0, <2>1, <2>2 DEF PendingDurable, StaleOK, DeviceTopics, Want, Rec, Pending
  <2>4. \A t \in Topic : retained[t] # Nobody => t \in Pending(d)
    BY <1>0, <2>2 DEF Tracked, Survivors, Lists, Rec
  <2>5. OnlyWanted(d, todo[d])'
    BY <1>0, <2>1, <2>4 DEF OnlyWanted, Pending, Want
  <2>6. Quiet(d)' /\ Stage(d)' /\ OkMeansSettled(d)'
    BY <1>0, <2>1, <2>3, <2>5 DEF Quiet, Stage, StageClear, OkMeansSettled, Reconciling, Publishing,
                                  Writing, Syncing
  <2> QED BY <1>1, <1>2, <1>3, <1>4, <1>5, <2>6 DEF IInv
<1> QED BY <1>6, <1>7, <1>8 DEF SyncDir, AfterSync

-----------------------------------------------------------------------------
(* The theorems *)

LEMMA NextInvariant == IInv /\ [Next]_vars => IInv'
<1> SUFFICES ASSUME IInv, [Next]_vars PROVE IInv'
  OBVIOUS
<1>0. TypeOK'
  BY TypeStep DEF IInv
<1>1. CASE PowerLoss
  BY <1>0, <1>1, StepDies DEF PowerLoss
<1>2. ASSUME NEW d \in Daemon, Step(d) PROVE IInv'
  <2>1. CASE \E c \in Configs[d] : Start(d, c)
    BY <1>0, <2>1, StepStart
  <2>2. CASE Reconnect(d) \/ LockFails(d)
    BY <1>0, <2>2, StepReconnect
  <2>3. CASE Stop(d)
    <3>1. {d} \in SUBSET Daemon /\ Dies({d}) /\ UNCHANGED store
      BY <2>3 DEF Stop
    <3> QED BY <1>0, <3>1, StepDies
  <2>4. CASE Lock(d)
    BY <1>0, <2>4, StepLock
  <2>5. CASE Refuse(d) \/ TooLarge(d) \/ WriteFails(d) \/ SyncFails(d)
    BY <1>0, <2>5, StepReturn
  <2>6. CASE Adopt(d)
    BY <1>0, <2>6, StepAdopt
  <2>7. CASE ChangeDevice(d)
    BY <1>0, <2>7, StepChangeDevice
  <2>8. CASE \E t \in Topic : Publish(d, t) \/ PublishFails(d, t)
    BY <1>0, <2>8, StepPublish, StepPublishFails
  <2>9. CASE \E op \in Op : Deliver(d, op)
    BY <1>0, <2>9, StepDeliver
  <2>10. CASE Purged(d) \/ Cleared(d) \/ Announced(d)
    BY <1>0, <2>10, StepStageEnds
  <2>11. CASE Rename(d)
    BY <1>0, <2>11, StepRename
  <2>12. CASE SyncDir(d) \/ Finish(d)
    BY <1>0, <2>12, StepSync
  <2> QED BY <1>2, <2>1, <2>2, <2>3, <2>4, <2>5, <2>6, <2>7, <2>8, <2>9, <2>10, <2>11, <2>12 DEF Step
<1>3. CASE UNCHANGED vars
  <2>1. UNCHANGED <<file, disk, lock, retained, cfg, pc, stale, todo, late, ok>>
    BY <1>3 DEF vars
  <2>2. file' \in disk' /\ SelfAccepted' /\ Tracked'
    BY <2>1, StoreSame
  <2>3. \A e \in Daemon : Quiet(e)' /\ LateOK(e)' /\ Stage(e)' /\ OkMeansSettled(e)'
    BY <2>1, OtherSame
  <2> QED BY <1>0, <2>2, <2>3 DEF IInv
<1> QED BY <1>1, <1>2, <1>3 DEF Next

LEMMA Invariance == Spec => []IInv
BY InitInvariant, NextInvariant, PTL DEF Spec

\* The state of every daemon, of the file and of the broker keeps its type.
THEOREM TypeCorrect == Spec => []TypeOK
<1>1. IInv => TypeOK
  BY DEF IInv
<1> QED BY <1>1, Invariance, PTL

\* Writing the over-approximation before publishing (reconcileDiscovery) makes
\* sure that no retained topic is forgotten, however daemons fail or stop.
THEOREM NothingForgotten == Spec => []Tracked
<1>1. IInv => Tracked
  BY DEF IInv
<1> QED BY <1>1, Invariance, PTL

\* writeDiscoveryState only ever leaves files that validateDiscoveryState takes.
THEOREM OwnManifestAccepted == Spec => []SelfAccepted
<1>1. IInv => SelfAccepted
  BY DEF IInv
<1> QED BY <1>1, Invariance, PTL

\* The owner check and the lock of reconcileDiscovery keep daemons that share a
\* state file from touching each other's topics.
THEOREM ForeignTopicsUntouched == Spec => []OwnTopicsOnly
<1>1. IInv => OwnTopicsOnly
  <2> SUFFICES ASSUME IInv, NEW d \in Daemon,
                      NEW t \in todo[d] \cup {op.topic : op \in late[d]}, retained[t] # Nobody
               PROVE  retained[t] = cfg[d].client
    BY DEF OwnTopicsOnly
  <2>1. todo[d] \subseteq Topic /\ late[d] \subseteq Op
    BY DEF IInv, TypeOK
  <2>2. t \in Topic
    BY <2>1 DEF Op
  <2>3. file \in Manifest /\ file.owner = cfg[d].client
    <3>1. CASE t \in todo[d]
      <4>1. pc[d] \in Publishing
        BY <3>1 DEF IInv, Quiet
      <4>2. pc[d] \in Reconciling \ {"locked"} /\ pc[d] # "pending"
        BY <4>1 DEF Publishing, Reconciling
      <4> QED BY <4>2, StageOwner
    <3>2. CASE t \in {op.topic : op \in late[d]}
      BY <3>2 DEF IInv, LateOK
    <3> QED BY <3>1, <3>2
  <2>4. Lists(file, t, retained[t])
    BY <2>2 DEF IInv, Tracked, Survivors
  <2> QED BY <2>3, <2>4 DEF Lists
<1> QED BY <1>1, Invariance, PTL

\* When reconcileDiscovery returns nil the broker has exactly the configured
\* topics, and publications that had timed out before cannot change that.
THEOREM SuccessSettles == Spec => []SuccessMeansSettled
<1>1. IInv => SuccessMeansSettled
  <2> SUFFICES ASSUME IInv, NEW d \in Daemon, ok[d]
               PROVE  Settled(d) /\ file = Rec(d, Want(d))
    BY DEF SuccessMeansSettled, Rec, Want
  <2>1. file = Rec(d, Want(d)) /\ OnlyWanted(d, {}) /\ AllWanted(d, {})
    BY DEF IInv, OkMeansSettled
  <2>2. cfg[d].client # Nobody /\ Want(d) \subseteq Topic
    BY WantTopics, NobodyAssumption DEF IInv
  <2>3. Settled(d)
    BY <2>1, <2>2 DEF Settled, OnlyWanted, AllWanted, Want
  <2> QED BY <2>1, <2>3
<1> QED BY <1>1, Invariance, PTL
=============================================================================
