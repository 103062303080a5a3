------------------------------ MODULE ConfigApi ------------------------------
(***************************************************************************)
(* The handlers that change the configuration of links and device models   *)
(* (internal/api/channel.go, internal/api/model.go).  Each is a goroutine  *)
(* of the HTTP server that makes several calls of the database; a call is  *)
(* one transaction, what happens between two of them is not.               *)
(*                                                                         *)
(* A link is what its handlers and the plan builder look at: its address   *)
(* and its mounts.  What the engine makes of the tables is BuildPlans      *)
(* (internal/engine/plan.go).  The links may come from a database of the   *)
(* first version, whose rows were never validated; migrateLegacyChannels   *)
(* (internal/store/db.go) has numbered them before anything else runs.     *)
(***************************************************************************)
EXTENDS Integers, Sequences, FiniteSets

CONSTANTS
  Handlers,      \* requests that are made, each once
  Ports,         \* serial ports and IP:port pairs
  Addresses,     \* link parameters: [port, plain] records
  Models,        \* device models
  MountLists,    \* mounts of a link: sequences of [index, commNo, model] records
  LegacyLinks,   \* links found in a database of the first version: sequences of rows
  MaxLinks       \* bound: links

\* Parameters that ParseConfig refuses: a type that is not supported any more,
\* a port that is not there, a number out of range.
Unusable == "unusable"

\* A mount names its device, its unit and its model; no number is validated yet.
Mounts == [index : Int, commNo : Int, model : Models]

ASSUME ConfigAssumption ==
  /\ MaxLinks \in Nat \ {0}
  /\ IsFiniteSet(Ports) /\ Ports # {}
  /\ Unusable \notin Ports
  /\ Addresses \subseteq [port : Ports \cup {Unusable}, plain : BOOLEAN]
  /\ MountLists \subseteq Seq(Mounts)
  /\ \A rows \in LegacyLinks : /\ rows \in Seq([address : Addresses, mounts : Seq(Mounts)])
                               /\ Len(rows) <= MaxLinks

\* Channel indexes.
Indexes == 0 .. MaxLinks - 1

MaxCommNo == 247

NoRow == [address |-> [port |-> "none", plain |-> TRUE], mounts |-> << >>]

Rows == [address : Addresses, mounts : MountLists]

Parses(row) == row.address.port # Unusable

\* Mutant of ResourceKey: the parameters as they are written.
ResourceKeyVerbatim(address) == address

\* Other case and blanks around it name the same port (plain is FALSE).
ResourceKey(address) == address.port

\* A device model: is its protocol registered, does its interface fit it, is
\* maxRegisterCount a whole number, do its properties pass ValidateProps?  One
\* of them at most is amiss: the handlers stop at the first.
Aspects == {"protocol", "interface", "count", "props"}
Contents == {c \in [Aspects -> BOOLEAN] : Cardinality({a \in Aspects : ~c[a]}) <= 1}

NoModel == << >>

Requests ==
  [op : {"create"}, row : Rows] \cup [op : {"update"}, id : Indexes, row : Rows]
    \cup [op : {"deleteChannel"}, id : Indexes]
    \cup [op : {"saveModel"}, model : Models, content : Contents]
    \cup [op : {"deleteModel"}, model : Models, force : BOOLEAN]

NoRequest == [op |-> "none"]

NoLinks == [i \in Indexes |-> NoRow]

NoPlans == [i \in Indexes |-> << >>]

\* migrateLegacyChannels: the rows keep everything but their identifier.
Migrated(rows) ==
  [i \in Indexes |-> IF i < Len(rows) THEN rows[i + 1] ELSE NoRow]

VARIABLES
  channels,      \* table of links; the index is the identifier (ChannelIDFromIndex)
  models,        \* table of device models
  pc,            \* pc[h]: where handler h is
  request,       \* request[h]
  index,         \* index[h]: index that a create has chosen
  loaded,        \* loaded[h]: the links that the reload of h has read
  built,         \* built[h]: the plans made from them
  plans,         \* the plans the engine has last been given
  legacy,        \* history: the links come from the first version
  forced,        \* history: models deleted with force=true
  overlapped,    \* history: a request came in while another was handled
  revived        \* history: an update has inserted a row

tables == <<channels, models>>
reload == <<loaded, built, plans>>
vars == <<tables, legacy, pc, request, index, reload, forced, overlapped, revived>>

Exists(i) == channels[i] # NoRow

Stored == {m \in Models : models[m] # NoModel}

Go(h, to) ==
  /\ pc' = [pc EXCEPT ![h] = to]
  /\ request' = IF to = "done" THEN [request EXCEPT ![h] = NoRequest] ELSE request

Busy == \E h \in Handlers : pc[h] \notin {"free", "done"}

\* runtime.New has to build the plans before the HTTP server listens.
Listening == \A i \in Indexes : Exists(i) => Parses(channels[i])

Receive(h) ==
  /\ Listening
  /\ pc[h] = "free"
  /\ overlapped' = (overlapped \/ Busy)
  /\ \E r \in Requests :
       /\ request' = [request EXCEPT ![h] = r]
       /\ pc' = [pc EXCEPT ![h] =
                   CASE r.op \in {"create", "update"} -> "mounts"
                     [] r.op = "deleteChannel" -> "delete"
                     [] r.op = "saveModel" -> "model"
                     [] r.op = "deleteModel" -> IF r.force THEN "drop" ELSE "used"]
  /\ UNCHANGED <<tables, legacy, index, reload, forced, revived>>

-----------------------------------------------------------------------------
\* SaveChannel.

\* validateMounts: indexes and communication numbers are legal and each their
\* own, every model mounted exists.
Distinct(f) == \A i, j \in DOMAIN f : i # j => f[i] # f[j]

ValidMounts(mounts) ==
  /\ \A k \in DOMAIN mounts : /\ mounts[k].index >= 0
                              /\ mounts[k].commNo \in 1 .. MaxCommNo
                              /\ mounts[k].model \in Stored
  /\ Distinct([k \in DOMAIN mounts |-> mounts[k].index])
  /\ Distinct([k \in DOMAIN mounts |-> mounts[k].commNo])

CheckMounts(h) ==
  /\ pc[h] = "mounts"
  /\ Go(h, IF Parses(request[h].row) /\ ValidMounts(request[h].row.mounts) THEN "ports" ELSE "done")
  /\ UNCHANGED <<tables, legacy, index, reload, forced, overlapped, revived>>

\* The links but the one being updated.
Others(h) ==
  {i \in Indexes : Exists(i) /\ (request[h].op = "update" => i # request[h].id)}

CheckPort(h) ==
  /\ pc[h] = "ports"
  /\ Go(h, IF \E i \in Others(h) : ResourceKey(channels[i].address) = ResourceKey(request[h].row.address) THEN "done"
           ELSE IF request[h].op = "create" THEN "index" ELSE "find")
  /\ UNCHANGED <<tables, legacy, index, reload, forced, overlapped, revived>>

\* nextChannelIndex: the smallest one that is free.
PickIndex(h) ==
  /\ pc[h] = "index"
  /\ \E i \in Indexes :
       /\ ~Exists(i)
       /\ \A j \in Indexes : j < i => Exists(j)
       /\ index' = [index EXCEPT ![h] = i]
  /\ Go(h, "create")
  /\ UNCHANGED <<tables, legacy, reload, forced, overlapped, revived>>

\* Mutant of Create: the primary key of a row that exists is taken over.
CreateOrReplace(h) ==
  /\ pc[h] = "create"
  /\ channels' = [channels EXCEPT ![index[h]] = request[h].row]
  /\ Go(h, "loadChannels")
  /\ UNCHANGED <<models, legacy, index, reload, forced, overlapped, revived>>

\* Create fails on a primary key that exists.
Create(h) ==
  /\ pc[h] = "create"
  /\ IF Exists(index[h])
     THEN Go(h, "done") /\ UNCHANGED channels
     ELSE /\ channels' = [channels EXCEPT ![index[h]] = request[h].row]
          /\ Go(h, "loadChannels")
  /\ UNCHANGED <<models, legacy, index, reload, forced, overlapped, revived>>

\* An update finds its row first ...
FindRow(h) ==
  /\ pc[h] = "find"
  /\ Go(h, IF Exists(request[h].id) THEN "update" ELSE "done")
  /\ UNCHANGED <<tables, legacy, index, reload, forced, overlapped, revived>>

\* Mutant of Update: the runtime is not told.
UpdateQuietly(h) ==
  /\ pc[h] = "update"
  /\ channels' = [channels EXCEPT ![request[h].id] = request[h].row]
  /\ Go(h, "done")
  /\ UNCHANGED <<models, legacy, index, reload, forced, overlapped, revived>>

\* ... and then saves it; gorm's Save inserts a row that it cannot update.
Update(h) ==
  /\ pc[h] = "update"
  /\ channels' = [channels EXCEPT ![request[h].id] = request[h].row]
  /\ revived' = (revived \/ ~Exists(request[h].id))
  /\ Go(h, "loadChannels")
  /\ UNCHANGED <<models, legacy, index, reload, forced, overlapped>>

-----------------------------------------------------------------------------
\* DeleteChannel, SaveModel, DeleteModel.

DeleteChannel(h) ==
  /\ pc[h] = "delete"
  /\ channels' = [channels EXCEPT ![request[h].id] = NoRow]
  /\ Go(h, IF Exists(request[h].id) THEN "loadChannels" ELSE "done")
  /\ UNCHANGED <<models, legacy, index, reload, forced, overlapped, revived>>

\* validateModelProfile and validateModelProperties.  maxRegisterCount is not
\* among the fields the handler decodes.
ValidModel(c) == c.protocol /\ c.interface /\ c.props

SaveModel(h) ==
  /\ pc[h] = "model"
  /\ IF ValidModel(request[h].content)
     THEN /\ models' = [models EXCEPT ![request[h].model] = request[h].content]
          /\ forced' = forced \ {request[h].model}
          /\ Go(h, "loadChannels")
     ELSE Go(h, "done") /\ UNCHANGED <<models, forced>>
  /\ UNCHANGED <<channels, legacy, index, reload, overlapped, revived>>

Uses(i) == {channels[i].mounts[k].model : k \in DOMAIN channels[i].mounts}

Mounted(m) == \E i \in Indexes : m \in Uses(i)

\* channelsUsingModel.
CheckUsed(h) ==
  /\ pc[h] = "used"
  /\ Go(h, IF Mounted(request[h].model) THEN "done" ELSE "drop")
  /\ UNCHANGED <<tables, legacy, index, reload, forced, overlapped, revived>>

DropModel(h) ==
  /\ pc[h] = "drop"
  /\ models' = [models EXCEPT ![request[h].model] = NoModel]
  /\ forced' = IF request[h].force THEN forced \cup {request[h].model} ELSE forced
  /\ Go(h, IF request[h].model \in Stored THEN "loadChannels" ELSE "done")
  /\ UNCHANGED <<channels, legacy, index, reload, overlapped, revived>>

-----------------------------------------------------------------------------
\* notifyConfigChanged, applyPlans: the links are read, then the models, the
\* plans are built and given to the engine.  What the manager makes of it while
\* it starts or stops is in module Manager.

\* buildDevicePlan accepts the model.
Buildable(c) == c.protocol /\ c.count /\ c.props

\* buildChannelPlan: mounts with a negative index or one seen before are left
\* out; the others keep their index, whether they can be polled or not.
Kept(mounts) ==
  {k \in DOMAIN mounts : /\ mounts[k].index >= 0
                         /\ \A j \in 1 .. k - 1 : mounts[j].index # mounts[k].index}

\* A communication number is taken by the first mount that could use it.
Claims(mounts, k) ==
  mounts[k].model \in Stored /\ mounts[k].commNo \in 1 .. MaxCommNo

Valid(mounts, k) ==
  /\ Claims(mounts, k)
  /\ \A j \in Kept(mounts) :
       j < k /\ Claims(mounts, j) => mounts[j].commNo # mounts[k].commNo
  /\ Buildable(models[mounts[k].model])

Device(mounts, k) ==
  [model |-> mounts[k].model, unit |-> mounts[k].commNo, valid |-> Valid(mounts, k)]

\* Mutant of ChannelPlan: devices that cannot be polled are left out and the
\* others are numbered anew.
ChannelPlanRenumbered(mounts) ==
  LET Good    == {k \in Kept(mounts) : Valid(mounts, k)}
      rank(k) == Cardinality({j \in Good : mounts[j].index < mounts[k].index})
  IN  [x \in {rank(k) : k \in Good} |-> Device(mounts, CHOOSE k \in Good : rank(k) = x)]

ChannelPlan(mounts) ==
  [x \in {mounts[k].index : k \in Kept(mounts)} |->
     Device(mounts, CHOOSE k \in Kept(mounts) : mounts[k].index = x)]

LoadChannels(h) ==
  /\ pc[h] = "loadChannels"
  /\ loaded' = [loaded EXCEPT ![h] = channels]
  /\ Go(h, "loadModels")
  /\ UNCHANGED <<tables, legacy, index, built, plans, forced, overlapped, revived>>

\* A link without a device has no plan.
BuildPlans(links) == [i \in Indexes |-> ChannelPlan(links[i].mounts)]

LoadModels(h) ==
  /\ pc[h] = "loadModels"
  /\ built' = [built EXCEPT ![h] = BuildPlans(loaded[h])]
  /\ loaded' = [loaded EXCEPT ![h] = NoLinks]
  /\ Go(h, "apply")
  /\ UNCHANGED <<tables, legacy, index, plans, forced, overlapped, revived>>

Apply(h) ==
  /\ pc[h] = "apply"
  /\ plans' = built[h]
  /\ built' = [built EXCEPT ![h] = NoPlans]
  /\ Go(h, "done")
  /\ UNCHANGED <<tables, legacy, index, loaded, forced, overlapped, revived>>

-----------------------------------------------------------------------------
\* The plans have been built once.  A link that does not parse ends the boot.
Init ==
  /\ \E rows \in LegacyLinks : channels = Migrated(rows) /\ legacy = (rows # << >>)
  /\ models \in IF legacy THEN [Models -> Contents \cup {NoModel}] ELSE {[m \in Models |-> NoModel]}
  /\ pc = [h \in Handlers |-> "free"]
  /\ request = [h \in Handlers |-> NoRequest]
  /\ index = [h \in Handlers |-> 0]
  /\ loaded = [h \in Handlers |-> NoLinks]
  /\ built = [h \in Handlers |-> NoPlans]
  /\ plans = IF Listening THEN BuildPlans(channels) ELSE NoPlans
  /\ forced = {}
  /\ overlapped = FALSE
  /\ revived = FALSE

Handler(h) ==
  \/ Receive(h)
  \/ CheckMounts(h) \/ CheckPort(h) \/ PickIndex(h) \/ Create(h)
  \/ FindRow(h) \/ Update(h)
  \/ DeleteChannel(h)
  \/ SaveModel(h) \/ CheckUsed(h) \/ DropModel(h)
  \/ LoadChannels(h) \/ LoadModels(h) \/ Apply(h)

Next == \E h \in Handlers : Handler(h)

Spec == Init /\ [][Next]_vars

-----------------------------------------------------------------------------
\* Properties.

Places == {"free", "mounts", "ports", "index", "create", "find", "update", "delete",
           "model", "used", "drop", "loadChannels", "loadModels", "apply", "done"}

Links == [Indexes -> Rows \cup {NoRow} \cup UNION {{rows[k] : k \in DOMAIN rows} : rows \in LegacyLinks}]

IsPlan(p) ==
  \A x \in DOMAIN p : x \in Nat /\ DOMAIN p[x] = {"model", "unit", "valid"}

TypeOK ==
  /\ legacy \in BOOLEAN
  /\ channels \in Links
  /\ models \in [Models -> Contents \cup {NoModel}]
  /\ pc \in [Handlers -> Places]
  /\ \A h \in Handlers : request[h] = NoRequest \/ request[h] \in Requests
  /\ index \in [Handlers -> Indexes]
  /\ loaded \in [Handlers -> Links]
  /\ \A i \in Indexes : IsPlan(plans[i]) /\ \A h \in Handlers : IsPlan(built[h][i])
  /\ forced \subseteq Models
  /\ overlapped \in BOOLEAN
  /\ revived \in BOOLEAN

PortsExclusive ==
  \A i, j \in Indexes :
    i # j /\ Exists(i) /\ Exists(j) => channels[i].address.port # channels[j].address.port

MountsExist == \A i \in Indexes : Uses(i) \subseteq Stored \cup forced

\* README, links: no serial port and no IP:port is used by two links; models: a
\* model that a link refers to is not deleted, unless by force.  Check and
\* change are calls of their own, so they hold until requests overlap.
TablesConsistent == overlapped \/ legacy \/ (PortsExclusive /\ MountsExist)

\* The same of requests that may overlap (one of them).  The code does not keep
\* it.
AlwaysConsistent == legacy \/ (PortsExclusive /\ MountsExist)

\* Two requests that have chosen the same free index do not overwrite each
\* other: a create never replaces a link that exists (nextChannelIndex is read
\* before the insertion, the primary key decides).
CreateKeepsRows ==
  [][\A i \in Indexes :
       Exists(i) /\ (\E h \in Handlers : pc[h] = "create" /\ pc'[h] # "create") =>
         channels'[i] = channels[i]]_vars

MountIndexes(i) == {channels[i].mounts[k].index : k \in DOMAIN channels[i].mounts}

\* The device at index x polls the mount that has this index, and no other one:
\* what cannot be polled shifts nothing (plan.go:130).
PlanFollows(i) ==
  /\ DOMAIN plans[i] = {x \in MountIndexes(i) : x >= 0}
  /\ \A x \in DOMAIN plans[i] :
       \E k \in DOMAIN channels[i].mounts :
         LET mount == channels[i].mounts[k] IN
         /\ mount.index = x
         /\ plans[i][x].model = mount.model
         /\ plans[i][x].unit = mount.commNo
         /\ plans[i][x].valid => mount.model \in Stored /\ Buildable(models[mount.model])
  /\ \A x, y \in DOMAIN plans[i] :
       plans[i][x].valid /\ plans[i][y].valid /\ x # y => plans[i][x].unit # plans[i][y].unit

\* Mounts that validateMounts has accepted are polled as long as their models
\* are there and maxRegisterCount decodes.
Polled(i) ==
  ValidMounts(channels[i].mounts) =>
    \A x \in DOMAIN plans[i] : plans[i][x].valid = Buildable(models[plans[i][x].model])

\* The engine runs what the tables say: after each request that is alone, also
\* with links that were never validated.
AcceptedIsBuilt ==
  Listening => Busy \/ overlapped \/ \A i \in Indexes : PlanFollows(i) /\ Polled(i)

\* The same of requests that may overlap: an older reading of the tables can be
\* applied after a newer one (manager.go:221).  The code does not keep it.
LastSavedIsBuilt ==
  Listening => Busy \/ \A i \in Indexes : PlanFollows(i) /\ Polled(i)

\* model.go:19: what the engine could not execute is refused when it is saved.
\* The code does not keep it: maxRegisterCount is not looked at.
AcceptedIsExecutable == legacy \/ \A m \in Stored : Buildable(models[m])

\* manager.go:190: a configuration that cannot be built leaves the runtime
\* stopped, and the API tells why.  At boot the process ends instead.
BadLinkIsReported == Listening

\* channel.go, SaveChannel: an update only replaces a row that exists.  The
\* code does not keep this.
UpdateNeverInserts == ~revived
=============================================================================
