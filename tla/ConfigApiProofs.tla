-------------------------- MODULE ConfigApiProofs --------------------------
(***************************************************************************)
(* The configuration API, for any number of requests, links, models and    *)
(* mounts: what a request leaves in the tables, and what the engine makes  *)
(* of them.                                                                *)
(***************************************************************************)
EXTENDS ConfigApi, SequenceTheorems, WellFoundedInduction, TLAPS

-----------------------------------------------------------------------------
\* Plans: what buildChannelPlan makes of any mounts.

\* A set of natural numbers that is not empty has a least one.
LEMMA Least ==
  ASSUME NEW T, T \subseteq Nat, T # {}
  PROVE  \E m \in T : \A n \in T : m <= n
  <1>1. IsWellFoundedOn(OpToRel(<, Nat), Nat)
    BY NatLessThanWellFounded
  <1>2. PICK m \in T : \A n \in T : ~(<<n, m>> \in OpToRel(<, Nat))
    BY <1>1, WFMin
  <1>3. ASSUME NEW n \in T PROVE m <= n
    <2>1. m \in Nat /\ n \in Nat
      BY <1>2
    <2>2. ~(n < m)
      BY <1>2, <2>1 DEF OpToRel
    <2> QED
      BY <2>1, <2>2
  <1> QED
    BY <1>2, <1>3

\* Every index that is not negative is kept, with the first mount that has it.
LEMMA FirstIsKept ==
  ASSUME NEW mounts \in Seq(Mounts), NEW k \in DOMAIN mounts, mounts[k].index >= 0
  PROVE  \E j \in Kept(mounts) : mounts[j].index = mounts[k].index
  <1> DEFINE T == {j \in DOMAIN mounts : mounts[j].index = mounts[k].index}
  <1>0. DOMAIN mounts = 1 .. Len(mounts) /\ Len(mounts) \in Nat
    OBVIOUS
  <1>1. T \subseteq Nat /\ T # {}
    BY <1>0
  <1>2. PICK m \in T : \A n \in T : m <= n
    BY <1>1, Least
  <1>3. ASSUME NEW j \in 1 .. m - 1 PROVE mounts[j].index # mounts[m].index
    <2>1. m \in 1 .. Len(mounts) /\ mounts[m].index = mounts[k].index
      BY <1>0, <1>2
    <2>2. j \in DOMAIN mounts /\ ~(m <= j)
      BY <1>0, <2>1
    <2> QED
      BY <1>2, <2>1, <2>2
  <1>4. m \in Kept(mounts)
    BY <1>2, <1>3 DEF Kept
  <1> QED
    BY <1>2, <1>4

\* The plan of a link has the indexes of its mounts, and the device of one of
\* the mounts that are kept at each.
LEMMA PlanOfMounts ==
  ASSUME NEW mounts \in Seq(Mounts)
  PROVE  /\ Kept(mounts) \subseteq DOMAIN mounts
         /\ DOMAIN ChannelPlan(mounts) = {x \in {mounts[k].index : k \in DOMAIN mounts} : x >= 0}
         /\ \A x \in DOMAIN ChannelPlan(mounts) :
              \E k \in Kept(mounts) : mounts[k].index = x /\ ChannelPlan(mounts)[x] = Device(mounts, k)
  <1> DEFINE X == {mounts[k].index : k \in Kept(mounts)}
             Pick(x) == CHOOSE k \in Kept(mounts) : mounts[k].index = x
  <1>1. Kept(mounts) \subseteq DOMAIN mounts /\ \A k \in Kept(mounts) : mounts[k].index >= 0
    BY DEF Kept
  <1>2. X = {x \in {mounts[k].index : k \in DOMAIN mounts} : x >= 0}
    <2>1. X \subseteq {x \in {mounts[k].index : k \in DOMAIN mounts} : x >= 0}
      BY <1>1
    <2>2. ASSUME NEW k \in DOMAIN mounts, mounts[k].index >= 0 PROVE mounts[k].index \in X
      BY <2>2, FirstIsKept
    <2> QED
      BY <2>1, <2>2
  <1>3. ChannelPlan(mounts) = [x \in X |-> Device(mounts, Pick(x))]
    BY DEF ChannelPlan
  <1>4. ASSUME NEW x \in X PROVE Pick(x) \in Kept(mounts) /\ mounts[Pick(x)].index = x
    OBVIOUS
  <1> HIDE DEF X, Pick
  <1>5. ASSUME NEW x \in X
        PROVE  \E k \in Kept(mounts) : mounts[k].index = x /\ ChannelPlan(mounts)[x] = Device(mounts, k)
    BY <1>3, <1>4
  <1> QED
    BY <1>1, <1>2, <1>3, <1>5

\* No two devices that can be polled have the same communication number.
LEMMA UnitsDiffer ==
  ASSUME NEW mounts \in Seq(Mounts), NEW j \in Kept(mounts), NEW k \in Kept(mounts),
         Valid(mounts, j), Valid(mounts, k), j # k
  PROVE  mounts[j].commNo # mounts[k].commNo
  <1>1. j \in Nat /\ k \in Nat
    BY DEF Kept
  <1>2. Claims(mounts, j) /\ Claims(mounts, k)
    BY DEF Valid
  <1>3. CASE j < k
    BY <1>2, <1>3 DEF Valid
  <1>4. CASE k < j
    BY <1>2, <1>4 DEF Valid
  <1> QED
    BY <1>1, <1>3, <1>4

\* Mounts that validateMounts has accepted can be polled if their models can.
LEMMA AcceptedIsValid ==
  ASSUME NEW mounts \in Seq(Mounts), ValidMounts(mounts), NEW k \in Kept(mounts)
  PROVE  Valid(mounts, k) <=> Buildable(models[mounts[k].model])
  <1>1. k \in DOMAIN mounts /\ Kept(mounts) \subseteq DOMAIN mounts /\ Kept(mounts) \subseteq Nat
    BY DEF Kept
  <1>2. Claims(mounts, k)
    BY <1>1 DEF ValidMounts, Claims
  <1>3. ASSUME NEW j \in Kept(mounts), j < k PROVE mounts[j].commNo # mounts[k].commNo
    <2> DEFINE f == [i \in DOMAIN mounts |-> mounts[i].commNo]
    <2>1. Distinct(f)
      BY DEF ValidMounts
    <2>2. j \in DOMAIN f /\ k \in DOMAIN f /\ j # k
      BY <1>1, <1>3
    <2>3. f[j] # f[k]
      BY <2>1, <2>2 DEF Distinct
    <2> QED
      BY <1>1, <2>3
  <1> QED
    BY <1>2, <1>3 DEF Valid

\* The mounts of a link, validated or not.
LEMMA TableMounts ==
  ASSUME NEW links \in Links, NEW i \in Indexes
  PROVE  links[i].mounts \in Seq(Mounts)
  <1>1. CASE links[i] \in Rows
    BY <1>1, ConfigAssumption DEF Rows
  <1>2. CASE links[i] = NoRow
    BY <1>2 DEF NoRow
  <1>3. CASE links[i] \in UNION {{rows[k] : k \in DOMAIN rows} : rows \in LegacyLinks}
    <2>1. PICK rows \in LegacyLinks : \E k \in DOMAIN rows : links[i] = rows[k]
      BY <1>3
    <2>2. PICK k \in DOMAIN rows : links[i] = rows[k]
      BY <2>1
    <2> DEFINE R == [address : Addresses, mounts : Seq(Mounts)]
    <2>3. rows \in Seq(R)
      BY ConfigAssumption
    <2>4. ASSUME NEW row \in R PROVE row.mounts \in Seq(Mounts)
      OBVIOUS
    <2> HIDE DEF R
    <2>5. rows[k] \in R
      BY <2>3
    <2> QED
      BY <2>2, <2>4, <2>5
  <1> QED
    BY <1>1, <1>2, <1>3 DEF Links

\* Plans that were built from the tables follow them.
LEMMA BuiltFollows ==
  ASSUME channels \in Links, plans = BuildPlans(channels), NEW i \in Indexes
  PROVE  PlanFollows(i) /\ Polled(i)
  <1> DEFINE mounts == channels[i].mounts
             plan == ChannelPlan(mounts)
  <1>1. mounts \in Seq(Mounts) /\ plans[i] = plan
    BY TableMounts DEF BuildPlans
  <1>2. MountIndexes(i) = {mounts[k].index : k \in DOMAIN mounts}
    BY DEF MountIndexes
  <1> HIDE DEF mounts, plan
  <1>3. /\ Kept(mounts) \subseteq DOMAIN mounts
        /\ DOMAIN plan = {x \in {mounts[k].index : k \in DOMAIN mounts} : x >= 0}
        /\ \A x \in DOMAIN plan : \E k \in Kept(mounts) : mounts[k].index = x /\ plan[x] = Device(mounts, k)
    BY <1>1, PlanOfMounts DEF plan
  <1>4. ASSUME NEW x \in DOMAIN plan
        PROVE  \E k \in DOMAIN mounts :
                 /\ mounts[k].index = x
                 /\ plan[x].model = mounts[k].model
                 /\ plan[x].unit = mounts[k].commNo
                 /\ plan[x].valid => mounts[k].model \in Stored /\ Buildable(models[mounts[k].model])
    <2>1. PICK k \in Kept(mounts) : mounts[k].index = x /\ plan[x] = Device(mounts, k)
      BY <1>3
    <2>2. /\ plan[x].model = mounts[k].model /\ plan[x].unit = mounts[k].commNo
          /\ plan[x].valid = Valid(mounts, k)
      BY <2>1 DEF Device
    <2>3. Valid(mounts, k) => mounts[k].model \in Stored /\ Buildable(models[mounts[k].model])
      BY DEF Valid, Claims
    <2> QED
      BY <1>3, <2>1, <2>2, <2>3
  <1>5. ASSUME NEW x \in DOMAIN plan, NEW y \in DOMAIN plan, plan[x].valid, plan[y].valid, x # y
        PROVE  plan[x].unit # plan[y].unit
    <2>1. PICK j \in Kept(mounts) : mounts[j].index = x /\ plan[x] = Device(mounts, j)
      BY <1>3
    <2>2. PICK k \in Kept(mounts) : mounts[k].index = y /\ plan[y] = Device(mounts, k)
      BY <1>3
    <2>3. /\ plan[x].unit = mounts[j].commNo /\ plan[x].valid = Valid(mounts, j)
          /\ plan[y].unit = mounts[k].commNo /\ plan[y].valid = Valid(mounts, k)
      BY <2>1, <2>2 DEF Device
    <2>4. mounts[j].commNo # mounts[k].commNo
      BY <1>1, <1>5, <2>1, <2>2, <2>3, UnitsDiffer
    <2> QED
      BY <2>3, <2>4
  <1>6. PlanFollows(i)
    BY <1>1, <1>2, <1>3, <1>4, <1>5 DEF PlanFollows, mounts
  <1>7. ASSUME ValidMounts(mounts), NEW x \in DOMAIN plan
        PROVE  plan[x].valid = Buildable(models[plan[x].model])
    <2>1. PICK k \in Kept(mounts) : plan[x] = Device(mounts, k)
      BY <1>3
    <2>2. plan[x].valid = Valid(mounts, k) /\ plan[x].model = mounts[k].model
      BY <2>1 DEF Device
    <2>3. Valid(mounts, k) <=> Buildable(models[mounts[k].model])
      BY <1>1, <1>7, AcceptedIsValid
    <2>4. Valid(mounts, k) = Buildable(models[mounts[k].model])
      BY <2>3 DEF Valid, Claims, Buildable
    <2> QED
      BY <2>2, <2>4
  <1>8. Polled(i)
    BY <1>1, <1>7 DEF Polled, mounts
  <1> QED
    BY <1>6, <1>8

-----------------------------------------------------------------------------
\* The handlers.

Creates == [op : {"create"}, row : Rows]
Updates == [op : {"update"}, id : Indexes, row : Rows]
Deletes == [op : {"deleteChannel"}, id : Indexes]
Saves   == [op : {"saveModel"}, model : Models, content : Contents]
Drops   == [op : {"deleteModel"}, model : Models, force : BOOLEAN]

\* Every variable has its type.
TableType ==
  /\ channels \in Links
  /\ models \in [Models -> Contents \cup {NoModel}]
  /\ pc \in [Handlers -> Places]
  /\ request \in [Handlers -> Requests \cup {NoRequest}]
  /\ index \in [Handlers -> Indexes]
  /\ loaded \in [Handlers -> Links]
  /\ built = [h \in Handlers |-> built[h]]
  /\ \A i \in Indexes : IsPlan(plans[i]) /\ \A h \in Handlers : IsPlan(built[h][i])
  /\ forced \subseteq Models
  /\ legacy \in BOOLEAN /\ overlapped \in BOOLEAN /\ revived \in BOOLEAN

\* A handler is where its request brings it.
Placed(h) ==
  /\ pc[h] \in {"mounts", "ports"} => request[h] \in Creates \cup Updates
  /\ pc[h] \in {"index", "create"} => request[h] \in Creates
  /\ pc[h] \in {"find", "update"} => request[h] \in Updates
  /\ pc[h] = "delete" => request[h] \in Deletes
  /\ pc[h] = "model" => request[h] \in Saves
  /\ pc[h] \in {"used", "drop"} => request[h] \in Drops

PlaceInv == \A h \in Handlers : Placed(h)

\* Once the mounts are accepted the row is one that parses, and nothing is
\* received by a gateway that has not started.
Checked == {"ports", "index", "create", "find", "update"}

ListenInv ==
  /\ ~Listening => \A h \in Handlers : pc[h] = "free"
  /\ \A h \in Handlers : pc[h] \in Checked => Parses(request[h].row)

Active(h) == pc[h] \notin {"free", "done"}

AloneInv == ~overlapped => \A h, k \in Handlers : Active(h) /\ Active(k) => h = k

\* What a handler that is alone has checked is still so when it writes.
FreePort(h) ==
  \A i \in Others(h) : channels[i].address.port # request[h].row.address.port

CheckedInv(h) ==
  /\ pc[h] \in Checked => ValidMounts(request[h].row.mounts)
  /\ pc[h] \in Checked \ {"ports"} => FreePort(h)
  /\ pc[h] = "drop" /\ ~request[h].force => ~Mounted(request[h].model)

ConsistentInv ==
  ~overlapped /\ ~legacy => PortsExclusive /\ MountsExist /\ \A h \in Handlers : CheckedInv(h)

\* The engine has been given what the tables hold, or the handler that has
\* changed them is about to give it.
Reloads == {"loadChannels", "loadModels", "apply"}

Loaded(h) ==
  /\ pc[h] = "loadModels" => loaded[h] = channels
  /\ pc[h] = "apply" => built[h] = BuildPlans(channels)

BuiltInv ==
  ~overlapped /\ Listening =>
    /\ \A h \in Handlers : Loaded(h)
    /\ (\A h \in Handlers : pc[h] \notin Reloads) => plans = BuildPlans(channels)

IInv == TableType /\ PlaceInv /\ ListenInv /\ AloneInv /\ ConsistentInv /\ BuiltInv

\* What is built is a plan.
LEMMA PlanTypes ==
  /\ \A links \in Links, i \in Indexes : IsPlan(BuildPlans(links)[i])
  /\ \A i \in Indexes : IsPlan(NoPlans[i])
  <1>1. ASSUME NEW links \in Links, NEW i \in Indexes PROVE IsPlan(BuildPlans(links)[i])
    <2> DEFINE mounts == links[i].mounts
    <2>1. mounts \in Seq(Mounts) /\ BuildPlans(links)[i] = ChannelPlan(mounts)
      BY TableMounts DEF BuildPlans
    <2> HIDE DEF mounts
    <2>2. ASSUME NEW x \in DOMAIN ChannelPlan(mounts)
          PROVE  x \in Nat /\ DOMAIN ChannelPlan(mounts)[x] = {"model", "unit", "valid"}
      <3>1. PICK k \in Kept(mounts) : mounts[k].index = x /\ ChannelPlan(mounts)[x] = Device(mounts, k)
        BY <2>1, PlanOfMounts
      <3>2. k \in DOMAIN mounts /\ mounts[k] \in Mounts /\ mounts[k].index >= 0
        BY <2>1, <3>1 DEF Kept
      <3> QED
        BY <3>1, <3>2 DEF Mounts, Device
    <2> QED
      BY <2>1, <2>2 DEF IsPlan
  <1>2. \A i \in Indexes : IsPlan(NoPlans[i])
    BY DEF NoPlans, IsPlan
  <1> QED
    BY <1>1, <1>2

\* What a row and a model are.
LEMMA RowTypes ==
  /\ \A row \in Rows : row.mounts \in Seq(Mounts)
  /\ NoModel \notin Contents
  /\ \A links \in Links, i \in Indexes, row \in Rows : [links EXCEPT ![i] = row] \in Links
  /\ \A links \in Links, i \in Indexes : [links EXCEPT ![i] = NoRow] \in Links
  <1>1. \A row \in Rows : row.mounts \in Seq(Mounts)
    BY ConfigAssumption DEF Rows
  <1>2. NoModel \notin Contents
    <2>1. \A c \in Contents : "props" \in DOMAIN c
      BY DEF Contents, Aspects
    <2>2. DOMAIN NoModel = {}
      BY DEF NoModel
    <2> QED
      BY <2>1, <2>2
  <1>3. /\ \A links \in Links, i \in Indexes, row \in Rows : [links EXCEPT ![i] = row] \in Links
        /\ \A links \in Links, i \in Indexes : [links EXCEPT ![i] = NoRow] \in Links
    BY DEF Links
  <1> QED
    BY <1>1, <1>2, <1>3

\* A request names its kind.
LEMMA RequestKinds ==
  ASSUME NEW r \in Requests
  PROVE  /\ r.op = "create" => r \in Creates
         /\ r.op = "update" => r \in Updates
         /\ r.op = "deleteChannel" => r \in Deletes
         /\ r.op = "saveModel" => r \in Saves
         /\ r.op = "deleteModel" => r \in Drops
         /\ r.op \in {"create", "update", "deleteChannel", "saveModel", "deleteModel"}
  BY DEF Requests, Creates, Updates, Deletes, Saves, Drops

\* A new database, or one of the first version, when the plans have been built.
LEMMA InitInv == Init => IInv
  <1> SUFFICES ASSUME Init PROVE IInv
    OBVIOUS
  <1>1. PICK rows \in LegacyLinks : channels = Migrated(rows) /\ legacy = (rows # << >>)
    BY DEF Init
  <1>2. channels \in Links
    <2>1. Len(rows) \in Nat /\ DOMAIN rows = 1 .. Len(rows) /\ Len(rows) <= MaxLinks /\ MaxLinks \in Nat
      BY ConfigAssumption
    <2>2. ASSUME NEW i \in Indexes, i < Len(rows)
          PROVE  rows[i + 1] \in UNION {{rs[k] : k \in DOMAIN rs} : rs \in LegacyLinks}
      <3>1. i + 1 \in DOMAIN rows
        BY <2>1, <2>2 DEF Indexes
      <3>2. rows[i + 1] \in {rows[k] : k \in DOMAIN rows}
        BY <3>1
      <3> QED
        BY <3>2
    <2> QED
      BY <1>1, <2>2 DEF Migrated, Links
  <1>3. 0 \in Indexes /\ NoLinks \in Links
    BY ConfigAssumption DEF Indexes, NoLinks, Links
  <1>4. TableType
    <2>1. models \in [Models -> Contents \cup {NoModel}]
      BY DEF Init
    <2>2. \A i \in Indexes : IsPlan(plans[i]) /\ \A h \in Handlers : IsPlan(built[h][i])
      BY <1>2, PlanTypes DEF Init
    <2>3. built = [h \in Handlers |-> built[h]]
      BY DEF Init
    <2> QED
      BY <1>1, <1>2, <1>3, <2>1, <2>2, <2>3 DEF Init, TableType, Places
  <1>5. \A h \in Handlers : pc[h] = "free"
    BY DEF Init
  <1>6. PlaceInv /\ ListenInv /\ AloneInv
    BY <1>5 DEF PlaceInv, Placed, ListenInv, Checked, AloneInv, Active
  <1>7. ConsistentInv
    <2> SUFFICES ASSUME ~legacy PROVE PortsExclusive /\ MountsExist /\ \A h \in Handlers : CheckedInv(h)
      BY DEF ConsistentInv
    <2>1. \A i \in Indexes : channels[i] = NoRow
      <3>1. rows = << >>
        BY <1>1
      <3>2. Len(rows) = 0 /\ \A i \in Indexes : ~(i < 0)
        BY <3>1 DEF Indexes
      <3> QED
        BY <1>1, <3>2 DEF Migrated
    <2>2. \A i \in Indexes : ~Exists(i) /\ Uses(i) = {}
      BY <2>1 DEF Exists, Uses, NoRow
    <2> QED
      BY <1>5, <2>2 DEF PortsExclusive, MountsExist, CheckedInv, Checked
  <1>8. BuiltInv
    BY <1>5 DEF Init, BuiltInv, Loaded, Reloads
  <1> QED
    BY <1>4, <1>6, <1>7, <1>8 DEF IInv

\* The plans of tables that have not changed are the same.
LEMMA SamePlans ==
  ASSUME channels' = channels, models' = models
  PROVE  BuildPlans(channels)' = BuildPlans(channels)
  <1>1. ASSUME NEW mounts PROVE ChannelPlan(mounts)' = ChannelPlan(mounts)
    <2> DEFINE X == {mounts[k].index : k \in Kept(mounts)}
               Pick(x) == CHOOSE k \in Kept(mounts) : mounts[k].index = x
    <2>1. ASSUME NEW k PROVE Device(mounts, k)' = Device(mounts, k)
      BY DEF Device, Valid, Claims, Stored
    <2>2. ChannelPlan(mounts) = [x \in X |-> Device(mounts, Pick(x))]
      BY DEF ChannelPlan
    <2>3. ChannelPlan(mounts)' = [x \in X |-> Device(mounts, Pick(x))']
      BY DEF ChannelPlan
    <2> HIDE DEF X, Pick
    <2> QED
      BY <2>1, <2>2, <2>3
  <1> QED
    BY <1>1 DEF BuildPlans

\* A request is received by a gateway that has started, and marked when another
\* is handled.
LEMMA ReceiveInv ==
  ASSUME IInv, NEW h \in Handlers, Receive(h)
  PROVE  IInv'
  <1>0. /\ TableType /\ PlaceInv /\ ListenInv /\ AloneInv /\ ConsistentInv /\ BuiltInv
        /\ Listening /\ pc[h] = "free" /\ overlapped' = (overlapped \/ Busy)
        /\ UNCHANGED <<channels, models, legacy, index, loaded, built, plans, forced, revived>>
    BY DEF IInv, Receive, tables, reload
  <1>1. PICK r \in Requests :
          /\ request' = [request EXCEPT ![h] = r]
          /\ pc' = [pc EXCEPT ![h] =
                      CASE r.op \in {"create", "update"} -> "mounts"
                        [] r.op = "deleteChannel" -> "delete"
                        [] r.op = "saveModel" -> "model"
                        [] r.op = "deleteModel" -> IF r.force THEN "drop" ELSE "used"]
    BY DEF Receive
  <1>2. /\ pc'[h] \in {"mounts", "delete", "model", "drop", "used"}
        /\ pc'[h] = "mounts" => r \in Creates \cup Updates
        /\ pc'[h] = "delete" => r \in Deletes
        /\ pc'[h] = "model" => r \in Saves
        /\ pc'[h] \in {"drop", "used"} => r \in Drops
        /\ pc'[h] = "drop" => r.force
    <2>0. pc'[h] = CASE r.op \in {"create", "update"} -> "mounts"
                     [] r.op = "deleteChannel" -> "delete"
                     [] r.op = "saveModel" -> "model"
                     [] r.op = "deleteModel" -> IF r.force THEN "drop" ELSE "used"
      BY <1>0, <1>1 DEF TableType
    <2>1. CASE r.op \in {"create", "update"}
      BY <2>0, <2>1, RequestKinds
    <2>2. CASE r.op = "deleteChannel"
      BY <2>0, <2>2, RequestKinds
    <2>3. CASE r.op = "saveModel"
      BY <2>0, <2>3, RequestKinds
    <2>4. CASE r.op = "deleteModel"
      BY <2>0, <2>4, RequestKinds
    <2> QED
      BY <2>1, <2>2, <2>3, <2>4, RequestKinds
  <1>3. /\ request'[h] = r
        /\ \A k \in Handlers \ {h} : pc'[k] = pc[k] /\ request'[k] = request[k]
    BY <1>0, <1>1 DEF TableType
  <1>4. TableType'
    <2>1. pc' \in [Handlers -> Places] /\ request' \in [Handlers -> Requests \cup {NoRequest}]
      BY <1>0, <1>1, <1>2 DEF TableType, Places
    <2>2. overlapped' \in BOOLEAN
      BY <1>0 DEF TableType, Busy
    <2> QED
      BY <1>0, <2>1, <2>2 DEF TableType
  <1>5. PlaceInv'
    BY <1>0, <1>2, <1>3 DEF PlaceInv, Placed
  <1>6. ListenInv'
    BY <1>0, <1>2, <1>3 DEF ListenInv, Listening, Exists, Checked
  <1>7. ~overlapped' => ~overlapped /\ \A k \in Handlers \ {h} : ~Active(k) /\ ~Active(k)'
    BY <1>0, <1>3 DEF Busy, Active
  <1>8. AloneInv'
    BY <1>7 DEF AloneInv
  <1>9. ConsistentInv'
    <2> SUFFICES ASSUME ~overlapped', ~legacy', NEW k \in Handlers
                 PROVE  PortsExclusive' /\ MountsExist' /\ CheckedInv(k)'
      BY DEF ConsistentInv
    <2>1. PortsExclusive' /\ MountsExist'
      BY <1>0, <1>7 DEF ConsistentInv, PortsExclusive, MountsExist, Exists, Uses, Stored
    <2>2. CASE k = h
      BY <1>2, <1>3, <2>1, <2>2 DEF CheckedInv, Checked
    <2>3. CASE k # h
      BY <1>7, <2>1, <2>3 DEF CheckedInv, Checked, Active
    <2> QED
      BY <2>1, <2>2, <2>3
  <1>10. BuiltInv'
    <2> SUFFICES ASSUME ~overlapped' PROVE (\A k \in Handlers : Loaded(k)') /\ plans' = BuildPlans(channels)'
      BY DEF BuiltInv
    <2>1. \A k \in Handlers : pc[k] \notin Reloads
      BY <1>0, <1>7 DEF Active, Reloads
    <2>2. plans' = BuildPlans(channels)'
      BY <1>0, <1>7, <2>1, SamePlans DEF BuiltInv
    <2>3. \A k \in Handlers : pc'[k] \notin Reloads
      BY <1>2, <1>3, <2>1 DEF Reloads
    <2> QED
      BY <2>2, <2>3 DEF Loaded, Reloads
  <1> QED
    BY <1>4, <1>5, <1>6, <1>8, <1>9, <1>10 DEF IInv

\* A handler that takes a step is active, and the only one until requests overlap.
LEMMA StepAlone ==
  ASSUME IInv, NEW h \in Handlers, Handler(h), ~Receive(h)
  PROVE  /\ Active(h) /\ Listening
         /\ UNCHANGED <<legacy, overlapped>>
         /\ \E to \in Places : Go(h, to)
         /\ \A k \in Handlers \ {h} : pc'[k] = pc[k] /\ request'[k] = request[k]
         /\ ~overlapped => \A k \in Handlers \ {h} : ~Active(k) /\ pc[k] \notin Reloads
  <1>1. TableType /\ ListenInv /\ AloneInv
    BY DEF IInv
  <1>2. Active(h) /\ UNCHANGED <<legacy, overlapped>>
    BY DEF Handler, Active, CheckMounts, CheckPort, PickIndex, Create, FindRow, Update, DeleteChannel,
       SaveModel, CheckUsed, DropModel, LoadChannels, LoadModels, Apply
  <1>3. \E to \in Places : Go(h, to)
    BY DEF Places, Handler, CheckMounts, CheckPort, PickIndex, Create, FindRow, Update, DeleteChannel,
       SaveModel, CheckUsed, DropModel, LoadChannels, LoadModels, Apply
  <1>4. \A k \in Handlers \ {h} : pc'[k] = pc[k] /\ request'[k] = request[k]
    BY <1>1, <1>3 DEF Go, TableType
  <1> QED
    BY <1>1, <1>2, <1>3, <1>4 DEF ListenInv, AloneInv, Active, Reloads

\* What such a step has to show of its own handler.
LEMMA StepInvOf ==
  ASSUME IInv, NEW h \in Handlers, Handler(h), ~Receive(h),
         TableType', Placed(h)', Listening',
         pc'[h] \in Checked => Parses(request'[h].row),
         ~overlapped /\ ~legacy => PortsExclusive' /\ MountsExist' /\ CheckedInv(h)',
         ~overlapped => Loaded(h)' /\ (pc'[h] \notin Reloads => plans' = BuildPlans(channels)')
  PROVE  IInv'
  <1>1. /\ UNCHANGED <<legacy, overlapped>>
        /\ \A k \in Handlers \ {h} : pc'[k] = pc[k] /\ request'[k] = request[k]
        /\ Active(h)
        /\ ~overlapped => \A k \in Handlers \ {h} : ~Active(k) /\ pc[k] \notin Reloads
    BY StepAlone
  <1>2. PlaceInv' /\ ListenInv'
    BY <1>1 DEF IInv, PlaceInv, Placed, ListenInv
  <1>3. AloneInv'
    BY <1>1 DEF AloneInv, Active
  <1>4. ConsistentInv'
    BY <1>1 DEF ConsistentInv, CheckedInv, Checked, Active
  <1>5. BuiltInv'
    BY <1>1 DEF BuiltInv, Loaded, Active, Reloads
  <1> QED
    BY <1>2, <1>3, <1>4, <1>5 DEF IInv

\* A step that reads the tables, or fails.
LEMMA QuietInv ==
  ASSUME IInv, NEW h \in Handlers, Handler(h), ~Receive(h),
         UNCHANGED <<channels, models, loaded, built, plans, forced, revived>>,
         index' \in [Handlers -> Indexes],
         pc[h] \notin Reloads, pc'[h] \notin Reloads, Placed(h)',
         pc'[h] \in Checked => Parses(request'[h].row),
         ~overlapped /\ ~legacy => CheckedInv(h)'
  PROVE  IInv'
  <1>1. /\ TableType /\ ConsistentInv /\ BuiltInv /\ Listening
        /\ UNCHANGED <<legacy, overlapped>>
        /\ \E to \in Places : Go(h, to)
        /\ ~overlapped => \A k \in Handlers \ {h} : pc[k] \notin Reloads
    BY StepAlone DEF IInv
  <1>2. TableType'
    BY <1>1 DEF TableType, Go
  <1>3. Listening'
    BY <1>1 DEF Listening, Exists
  <1>4. ~overlapped /\ ~legacy => PortsExclusive' /\ MountsExist' /\ CheckedInv(h)'
    BY <1>1 DEF ConsistentInv, PortsExclusive, MountsExist, Exists, Uses, Stored
  <1>5. ~overlapped => Loaded(h)' /\ plans' = BuildPlans(channels)'
    <2>1. ~overlapped => plans = BuildPlans(channels)
      BY <1>1 DEF BuiltInv
    <2> QED
      BY <2>1, SamePlans DEF Loaded, Reloads
  <1> QED
    BY <1>2, <1>3, <1>4, <1>5, StepInvOf

\* A step that changes the tables, and has them loaded next.
LEMMA ChangeInv ==
  ASSUME IInv, NEW h \in Handlers, Handler(h), ~Receive(h),
         Go(h, "loadChannels"),
         UNCHANGED <<index, loaded, built, plans>>,
         channels' \in Links, models' \in [Models -> Contents \cup {NoModel}],
         forced' \subseteq Models, revived' \in BOOLEAN,
         Listening',
         ~overlapped /\ ~legacy => PortsExclusive' /\ MountsExist'
  PROVE  IInv'
  <1>1. TableType /\ UNCHANGED <<legacy, overlapped>>
    BY StepAlone DEF IInv
  <1>2. pc'[h] = "loadChannels"
    BY <1>1 DEF Go, TableType
  <1>3. TableType'
    BY <1>1 DEF TableType, Go, Places
  <1>4. Placed(h)' /\ pc'[h] \notin Checked /\ CheckedInv(h)' /\ Loaded(h)' /\ pc'[h] \in Reloads
    BY <1>2 DEF Placed, Checked, CheckedInv, Loaded, Reloads
  <1> QED
    BY <1>3, <1>4, StepInvOf
-----------------------------------------------------------------------------
\* SaveChannel.

\* Checking the mounts keeps the invariant.
LEMMA CheckMountsInv ==
  ASSUME IInv, NEW h \in Handlers, CheckMounts(h)
  PROVE  IInv'
  <1>1. TableType /\ Placed(h) /\ pc[h] = "mounts" /\ Handler(h) /\ ~Receive(h)
        /\ UNCHANGED <<channels, models, index, loaded, built, plans, forced, revived>>
    BY DEF IInv, PlaceInv, CheckMounts, Handler, Receive, tables, reload
  <1>2. CASE Parses(request[h].row) /\ ValidMounts(request[h].row.mounts)
    <2>1. pc'[h] = "ports" /\ request' = request
      BY <1>1, <1>2 DEF CheckMounts, Go, TableType
    <2>2. ValidMounts(request[h].row.mounts)'
      BY <1>1, <1>2, <2>1 DEF ValidMounts, Stored
    <2>3. CheckedInv(h)' /\ Placed(h)'
      BY <1>1, <2>1, <2>2 DEF CheckedInv, Checked, Placed
    <2> QED
      BY <1>1, <1>2, <2>1, <2>3, QuietInv DEF TableType, Reloads
  <1>3. CASE ~(Parses(request[h].row) /\ ValidMounts(request[h].row.mounts))
    <2>1. pc'[h] = "done"
      BY <1>1, <1>3 DEF CheckMounts, Go, TableType
    <2>2. CheckedInv(h)' /\ Placed(h)'
      BY <2>1 DEF CheckedInv, Checked, Placed
    <2> QED
      BY <1>1, <2>1, <2>2, QuietInv DEF TableType, Reloads, Checked
  <1> QED
    BY <1>2, <1>3

\* Checking the port keeps the invariant.
LEMMA CheckPortInv ==
  ASSUME IInv, NEW h \in Handlers, CheckPort(h)
  PROVE  IInv'
  <1>1. TableType /\ Placed(h) /\ ListenInv /\ ConsistentInv /\ pc[h] = "ports" /\ Handler(h) /\ ~Receive(h)
        /\ UNCHANGED <<channels, models, index, loaded, built, plans, forced, revived>>
    BY DEF IInv, PlaceInv, CheckPort, Handler, Receive, tables, reload
  <1>2. CASE \E i \in Others(h) : ResourceKey(channels[i].address) = ResourceKey(request[h].row.address)
    <2>1. pc'[h] = "done"
      BY <1>1, <1>2 DEF CheckPort, Go, TableType
    <2>2. CheckedInv(h)' /\ Placed(h)'
      BY <2>1 DEF CheckedInv, Checked, Placed
    <2> QED
      BY <1>1, <2>1, <2>2, QuietInv DEF TableType, Reloads, Checked
  <1>3. CASE ~\E i \in Others(h) : ResourceKey(channels[i].address) = ResourceKey(request[h].row.address)
    <2>1. pc'[h] = (IF request[h].op = "create" THEN "index" ELSE "find") /\ request' = request
      BY <1>1, <1>3 DEF CheckPort, Go, TableType
    <2>2. Placed(h)' /\ Parses(request'[h].row)
      BY <1>1, <2>1 DEF Placed, ListenInv, Checked, Creates, Updates
    <2>3. ASSUME ~overlapped, ~legacy PROVE CheckedInv(h)'
      <3>1. ValidMounts(request[h].row.mounts)'
        BY <1>1, <2>1, <2>3 DEF ConsistentInv, CheckedInv, Checked, ValidMounts, Stored
      <3>2. FreePort(h)'
        BY <1>1, <1>3, <2>1 DEF FreePort, Others, Exists, ResourceKey
      <3> QED
        BY <2>1, <3>1, <3>2 DEF CheckedInv, Checked
    <2> QED
      BY <1>1, <2>1, <2>2, <2>3, QuietInv DEF TableType, Reloads
  <1> QED
    BY <1>2, <1>3

\* A step between the checks and the writing.
LEMMA StillChecked ==
  ASSUME IInv, NEW h \in Handlers, pc[h] \in Checked \ {"ports"}, pc'[h] \in Checked,
         UNCHANGED <<channels, models, request>>
  PROVE  /\ Parses(request'[h].row)
         /\ ~overlapped /\ ~legacy => CheckedInv(h)'
  <1>1. ListenInv /\ ConsistentInv
    BY DEF IInv
  <1>2. Parses(request'[h].row)
    BY <1>1 DEF ListenInv
  <1>3. ASSUME ~overlapped, ~legacy PROVE CheckedInv(h)'
    <2>1. ValidMounts(request[h].row.mounts)'
      BY <1>1, <1>3 DEF ConsistentInv, CheckedInv, ValidMounts, Stored
    <2>2. FreePort(h)'
      BY <1>1, <1>3 DEF ConsistentInv, CheckedInv, FreePort, Others, Exists
    <2> QED
      BY <2>1, <2>2 DEF CheckedInv, Checked
  <1> QED
    BY <1>2, <1>3

\* Picking an index keeps the invariant.
LEMMA PickIndexInv ==
  ASSUME IInv, NEW h \in Handlers, PickIndex(h)
  PROVE  IInv'
  <1>1. TableType /\ Placed(h) /\ pc[h] = "index" /\ Handler(h) /\ ~Receive(h)
        /\ UNCHANGED <<channels, models, loaded, built, plans, forced, revived>>
        /\ index' \in [Handlers -> Indexes]
    BY DEF IInv, TableType, PlaceInv, PickIndex, Handler, Receive, tables, reload
  <1>2. pc'[h] = "create" /\ request' = request
    BY <1>1 DEF PickIndex, Go, TableType
  <1>3. Placed(h)' /\ pc[h] \in Checked \ {"ports"} /\ pc'[h] \in Checked
    BY <1>1, <1>2 DEF Placed, Checked
  <1> QED
    BY <1>1, <1>2, <1>3, StillChecked, QuietInv DEF Reloads

\* Looking for the row keeps the invariant.
LEMMA FindRowInv ==
  ASSUME IInv, NEW h \in Handlers, FindRow(h)
  PROVE  IInv'
  <1>1. TableType /\ Placed(h) /\ pc[h] = "find" /\ Handler(h) /\ ~Receive(h)
        /\ UNCHANGED <<channels, models, index, loaded, built, plans, forced, revived>>
    BY DEF IInv, PlaceInv, FindRow, Handler, Receive, tables, reload
  <1>2. CASE Exists(request[h].id)
    <2>1. pc'[h] = "update" /\ request' = request
      BY <1>1, <1>2 DEF FindRow, Go, TableType
    <2>2. Placed(h)' /\ pc[h] \in Checked \ {"ports"} /\ pc'[h] \in Checked
      BY <1>1, <2>1 DEF Placed, Checked
    <2> QED
      BY <1>1, <2>1, <2>2, StillChecked, QuietInv DEF Reloads, TableType
  <1>3. CASE ~Exists(request[h].id)
    <2>1. pc'[h] = "done"
      BY <1>1, <1>3 DEF FindRow, Go, TableType
    <2>2. CheckedInv(h)' /\ Placed(h)'
      BY <2>1 DEF CheckedInv, Checked, Placed
    <2> QED
      BY <1>1, <2>1, <2>2, QuietInv DEF TableType, Reloads, Checked
  <1> QED
    BY <1>2, <1>3

\* A row that has been checked is written: its port is no other link's.
LEMMA WriteRow ==
  ASSUME IInv, NEW h \in Handlers, pc[h] \in {"create", "update"},
         NEW i \in Indexes,
         request[h].op = "create" => ~Exists(i),
         request[h].op = "update" => i = request[h].id,
         channels' = [channels EXCEPT ![i] = request[h].row],
         models' = models, forced' = forced
  PROVE  /\ channels' \in Links /\ Listening'
         /\ ~overlapped /\ ~legacy => PortsExclusive' /\ MountsExist'
  <1>1. TableType /\ Placed(h) /\ ListenInv /\ ConsistentInv
    BY DEF IInv, PlaceInv
  <1>2. request[h] \in Creates \cup Updates /\ Parses(request[h].row) /\ Listening
    BY <1>1 DEF Placed, ListenInv, Checked
  <1>3. request[h].row \in Rows
    BY <1>2 DEF Creates, Updates
  <1>4. channels' \in Links
    BY <1>1, <1>3, RowTypes DEF TableType
  <1>5. channels'[i] = request[h].row /\ \A j \in Indexes \ {i} : channels'[j] = channels[j]
    BY <1>1 DEF TableType, Links
  <1>6. Listening'
    BY <1>2, <1>5 DEF Listening, Exists, Parses
  <1>7. ASSUME ~overlapped, ~legacy PROVE PortsExclusive' /\ MountsExist'
    <2>1. PortsExclusive /\ MountsExist /\ FreePort(h) /\ ValidMounts(request[h].row.mounts)
      BY <1>1, <1>7 DEF ConsistentInv, CheckedInv, Checked
    <2>2. \A j \in Indexes \ {i} : Exists(j) => channels[j].address.port # request[h].row.address.port
      <3> SUFFICES ASSUME NEW j \in Indexes \ {i}, Exists(j) PROVE j \in Others(h)
        BY <2>1 DEF FreePort
      <3> QED
        BY DEF Others
    <2>3. PortsExclusive'
      BY <1>5, <2>1, <2>2 DEF PortsExclusive, Exists
    <2>4. ASSUME NEW k \in DOMAIN request[h].row.mounts PROVE request[h].row.mounts[k].model \in Stored
      BY <2>1 DEF ValidMounts
    <2>5. MountsExist'
      BY <1>5, <2>1, <2>4 DEF MountsExist, Uses, Stored
    <2> QED
      BY <2>3, <2>5
  <1> QED
    BY <1>4, <1>6, <1>7

\* Creating a row keeps the invariant.
LEMMA CreateInv ==
  ASSUME IInv, NEW h \in Handlers, Create(h)
  PROVE  IInv'
  <1>1. TableType /\ Placed(h) /\ pc[h] = "create" /\ Handler(h) /\ ~Receive(h)
        /\ UNCHANGED <<models, index, loaded, built, plans, forced, revived>>
        /\ index[h] \in Indexes /\ request[h].op = "create"
    BY DEF IInv, TableType, PlaceInv, Placed, Creates, Create, Handler, Receive, tables, reload
  <1>2. CASE Exists(index[h])
    <2>1. pc'[h] = "done" /\ channels' = channels
      BY <1>1, <1>2 DEF Create, Go, TableType
    <2>2. CheckedInv(h)' /\ Placed(h)'
      BY <2>1 DEF CheckedInv, Checked, Placed
    <2> QED
      BY <1>1, <2>1, <2>2, QuietInv DEF TableType, Reloads, Checked
  <1>3. CASE ~Exists(index[h])
    <2>1. channels' = [channels EXCEPT ![index[h]] = request[h].row] /\ Go(h, "loadChannels")
      BY <1>1, <1>3 DEF Create
    <2>2. /\ channels' \in Links /\ Listening'
          /\ ~overlapped /\ ~legacy => PortsExclusive' /\ MountsExist'
      BY <1>1, <1>3, <2>1, WriteRow
    <2> QED
      BY <1>1, <2>1, <2>2, ChangeInv DEF TableType
  <1> QED
    BY <1>2, <1>3

\* Replacing a row keeps the invariant.
LEMMA UpdateInv ==
  ASSUME IInv, NEW h \in Handlers, Update(h)
  PROVE  IInv'
  <1>1. TableType /\ Placed(h) /\ pc[h] = "update" /\ Handler(h) /\ ~Receive(h)
        /\ UNCHANGED <<models, index, loaded, built, plans, forced>>
        /\ request[h].id \in Indexes /\ request[h].op = "update"
    BY DEF IInv, TableType, PlaceInv, Placed, Updates, Update, Handler, Receive, tables, reload
  <1>2. channels' = [channels EXCEPT ![request[h].id] = request[h].row] /\ Go(h, "loadChannels")
        /\ revived' \in BOOLEAN
    BY <1>1 DEF Update, TableType, Exists
  <1>3. /\ channels' \in Links /\ Listening'
        /\ ~overlapped /\ ~legacy => PortsExclusive' /\ MountsExist'
    BY <1>1, <1>2, WriteRow
  <1> QED
    BY <1>1, <1>2, <1>3, ChangeInv DEF TableType

-----------------------------------------------------------------------------
\* DeleteChannel, SaveModel, DeleteModel.

\* Deleting a row keeps the invariant.
LEMMA DeleteChannelInv ==
  ASSUME IInv, NEW h \in Handlers, DeleteChannel(h)
  PROVE  IInv'
  <1>1. TableType /\ Placed(h) /\ pc[h] = "delete" /\ Handler(h) /\ ~Receive(h) /\ ConsistentInv
        /\ UNCHANGED <<models, index, loaded, built, plans, forced, revived>>
        /\ request[h].id \in Indexes
        /\ channels' = [channels EXCEPT ![request[h].id] = NoRow]
    BY DEF IInv, TableType, PlaceInv, Placed, Deletes, DeleteChannel, Handler, Receive, tables, reload
  <1>2. channels'[request[h].id] = NoRow
        /\ \A j \in Indexes \ {request[h].id} : channels'[j] = channels[j]
    BY <1>1 DEF TableType, Links
  <1>3. CASE Exists(request[h].id)
    <2>1. Go(h, "loadChannels")
      BY <1>1, <1>3 DEF DeleteChannel
    <2>2. channels' \in Links
      BY <1>1, RowTypes DEF TableType
    <2>3. Listening'
      <3>1. Listening
        BY <1>1, StepAlone
      <3> QED
        BY <1>2, <3>1 DEF Listening, Exists
    <2>4. ASSUME ~overlapped, ~legacy PROVE PortsExclusive' /\ MountsExist'
      <3>1. PortsExclusive /\ MountsExist
        BY <1>1, <2>4 DEF ConsistentInv
      <3>2. PortsExclusive'
        BY <1>2, <3>1 DEF PortsExclusive, Exists
      <3>3. \A j \in Indexes : j = request[h].id => Uses(j)' = {}
        BY <1>2 DEF Uses, NoRow
      <3>4. \A j \in Indexes \ {request[h].id} : Uses(j)' = Uses(j)
        BY <1>2 DEF Uses
      <3>5. Stored' = Stored
        BY <1>1 DEF Stored
      <3>6. ASSUME NEW j \in Indexes PROVE Uses(j)' \subseteq Stored' \cup forced'
        BY <1>1, <3>1, <3>3, <3>4, <3>5 DEF MountsExist
      <3> QED
        BY <3>2, <3>6 DEF MountsExist
    <2> QED
      BY <1>1, <2>1, <2>2, <2>3, <2>4, ChangeInv DEF TableType
  <1>4. CASE ~Exists(request[h].id)
    <2>1. pc'[h] = "done"
      BY <1>1, <1>4 DEF DeleteChannel, Go, TableType
    <2>2. channels' = channels
      BY <1>1, <1>4 DEF Exists, TableType, Links
    <2>3. CheckedInv(h)' /\ Placed(h)'
      BY <2>1 DEF CheckedInv, Checked, Placed
    <2> QED
      BY <1>1, <2>1, <2>2, <2>3, QuietInv DEF TableType, Reloads, Checked
  <1> QED
    BY <1>3, <1>4

\* Saving a model keeps the invariant.
LEMMA SaveModelInv ==
  ASSUME IInv, NEW h \in Handlers, SaveModel(h)
  PROVE  IInv'
  <1>1. TableType /\ Placed(h) /\ pc[h] = "model" /\ Handler(h) /\ ~Receive(h) /\ ConsistentInv
        /\ UNCHANGED <<channels, index, loaded, built, plans, revived>>
        /\ request[h].model \in Models /\ request[h].content \in Contents
    BY DEF IInv, TableType, PlaceInv, Placed, Saves, SaveModel, Handler, Receive, tables, reload
  <1>2. CASE ValidModel(request[h].content)
    <2>1. /\ models' = [models EXCEPT ![request[h].model] = request[h].content]
          /\ forced' = forced \ {request[h].model}
          /\ Go(h, "loadChannels")
      BY <1>1, <1>2 DEF SaveModel
    <2>2. models' \in [Models -> Contents \cup {NoModel}] /\ forced' \subseteq Models
      BY <1>1, <2>1 DEF TableType
    <2>3. Listening'
      <3>1. Listening
        BY <1>1, StepAlone
      <3> QED
        BY <1>1, <3>1 DEF Listening, Exists
    <2>4. Stored' = Stored \cup {request[h].model}
      BY <1>1, <2>1, RowTypes DEF Stored, TableType
    <2>5. ASSUME ~overlapped, ~legacy PROVE PortsExclusive' /\ MountsExist'
      <3>1. PortsExclusive /\ MountsExist
        BY <1>1, <2>5 DEF ConsistentInv
      <3>2. \A i \in Indexes : Uses(i)' = Uses(i)
        BY <1>1 DEF Uses
      <3> QED
        BY <1>1, <2>1, <2>4, <3>1, <3>2 DEF PortsExclusive, MountsExist, Exists
    <2> QED
      BY <1>1, <2>1, <2>2, <2>3, <2>5, ChangeInv DEF TableType
  <1>3. CASE ~ValidModel(request[h].content)
    <2>1. pc'[h] = "done" /\ UNCHANGED <<models, forced>>
      BY <1>1, <1>3 DEF SaveModel, Go, TableType
    <2>2. CheckedInv(h)' /\ Placed(h)'
      BY <2>1 DEF CheckedInv, Checked, Placed
    <2> QED
      BY <1>1, <2>1, <2>2, QuietInv DEF TableType, Reloads, Checked
  <1> QED
    BY <1>2, <1>3

\* Checking whether a model is used keeps the invariant.
LEMMA CheckUsedInv ==
  ASSUME IInv, NEW h \in Handlers, CheckUsed(h)
  PROVE  IInv'
  <1>1. TableType /\ Placed(h) /\ pc[h] = "used" /\ Handler(h) /\ ~Receive(h)
        /\ UNCHANGED <<channels, models, index, loaded, built, plans, forced, revived>>
    BY DEF IInv, PlaceInv, CheckUsed, Handler, Receive, tables, reload
  <1>2. CASE Mounted(request[h].model)
    <2>1. pc'[h] = "done"
      BY <1>1, <1>2 DEF CheckUsed, Go, TableType
    <2>2. CheckedInv(h)' /\ Placed(h)'
      BY <2>1 DEF CheckedInv, Checked, Placed
    <2> QED
      BY <1>1, <2>1, <2>2, QuietInv DEF TableType, Reloads, Checked
  <1>3. CASE ~Mounted(request[h].model)
    <2>1. pc'[h] = "drop" /\ request' = request
      BY <1>1, <1>3 DEF CheckUsed, Go, TableType
    <2>2. ~Mounted(request[h].model)'
      BY <1>1, <1>3, <2>1 DEF Mounted, Uses
    <2>3. CheckedInv(h)' /\ Placed(h)'
      BY <1>1, <2>1, <2>2 DEF CheckedInv, Checked, Placed
    <2> QED
      BY <1>1, <2>1, <2>3, QuietInv DEF TableType, Reloads, Checked
  <1> QED
    BY <1>2, <1>3

\* Dropping a model keeps the invariant.
LEMMA DropModelInv ==
  ASSUME IInv, NEW h \in Handlers, DropModel(h)
  PROVE  IInv'
  <1> DEFINE m == request[h].model
  <1>1. TableType /\ Placed(h) /\ pc[h] = "drop" /\ Handler(h) /\ ~Receive(h) /\ ConsistentInv
        /\ UNCHANGED <<channels, index, loaded, built, plans, revived>>
        /\ m \in Models
        /\ models' = [models EXCEPT ![m] = NoModel]
        /\ forced' = IF request[h].force THEN forced \cup {m} ELSE forced
    BY DEF IInv, TableType, PlaceInv, Placed, Drops, DropModel, Handler, Receive, tables, reload
  <1>2. models' \in [Models -> Contents \cup {NoModel}] /\ forced' \subseteq Models
    BY <1>1 DEF TableType
  <1>3. Listening'
    <2>1. Listening
      BY <1>1, StepAlone
    <2> QED
      BY <1>1, <2>1 DEF Listening, Exists
  <1>4. Stored' = Stored \ {m}
    BY <1>1 DEF Stored, TableType
  <1>5. ASSUME ~overlapped, ~legacy PROVE PortsExclusive' /\ MountsExist'
    <2>1. PortsExclusive /\ MountsExist /\ (~request[h].force => ~Mounted(m))
      BY <1>1, <1>5 DEF ConsistentInv, CheckedInv
    <2>2. \A i \in Indexes : Uses(i)' = Uses(i)
      BY <1>1 DEF Uses
    <2>3. PortsExclusive'
      BY <1>1, <2>1 DEF PortsExclusive, Exists
    <2>4. ASSUME NEW i \in Indexes PROVE Uses(i) \subseteq Stored' \cup forced'
      <3>1. Uses(i) \subseteq Stored \cup forced /\ (~request[h].force => m \notin Uses(i))
        BY <2>1 DEF MountsExist, Mounted
      <3>2. CASE request[h].force
        BY <1>1, <1>4, <3>1, <3>2
      <3>3. CASE ~request[h].force
        BY <1>1, <1>4, <3>1, <3>3
      <3> QED
        BY <3>2, <3>3
    <2> QED
      BY <2>2, <2>3, <2>4 DEF MountsExist
  <1>6. CASE m \in Stored
    <2>1. Go(h, "loadChannels")
      BY <1>6 DEF DropModel
    <2> QED
      BY <1>1, <1>2, <1>3, <1>5, <2>1, ChangeInv DEF TableType
  <1>7. CASE m \notin Stored
    <2>1. pc'[h] = "done"
      BY <1>1, <1>7 DEF DropModel, Go, TableType
    <2>2. models' = models
      BY <1>1, <1>7 DEF Stored, TableType
    <2>3. pc'[h] \notin Checked /\ pc'[h] \notin Reloads /\ CheckedInv(h)' /\ Placed(h)'
      BY <2>1 DEF CheckedInv, Checked, Reloads, Placed
    <2>4. TableType'
      <3>1. \E to \in Places : Go(h, to)
        BY <1>1, StepAlone
      <3> QED
        BY <1>1, <1>2, <3>1, StepAlone DEF TableType, Go
    <2>5. ~overlapped => Loaded(h)' /\ plans' = BuildPlans(channels)'
      <3>1. ~overlapped => \A k \in Handlers \ {h} : pc[k] \notin Reloads
        BY <1>1, StepAlone
      <3>2. Listening /\ BuiltInv
        BY <1>1, StepAlone DEF IInv
      <3>3. ~overlapped => plans = BuildPlans(channels)
        BY <1>1, <3>1, <3>2 DEF BuiltInv, Reloads
      <3> QED
        BY <1>1, <2>2, <2>3, <3>3, SamePlans DEF Loaded, Reloads
    <2> QED
      BY <1>1, <1>3, <1>5, <2>3, <2>4, <2>5, StepInvOf
  <1> QED
    BY <1>6, <1>7

-----------------------------------------------------------------------------
\* The reload.

\* Loading the links for a reload keeps the invariant.
LEMMA LoadChannelsInv ==
  ASSUME IInv, NEW h \in Handlers, LoadChannels(h)
  PROVE  IInv'
  <1>1. TableType /\ pc[h] = "loadChannels" /\ Handler(h) /\ ~Receive(h) /\ ConsistentInv
        /\ UNCHANGED <<channels, models, index, built, plans, forced, revived>>
        /\ loaded' = [loaded EXCEPT ![h] = channels]
    BY DEF IInv, LoadChannels, Handler, Receive, tables, reload
  <1>2. pc'[h] = "loadModels" /\ loaded'[h] = channels'
    BY <1>1 DEF LoadChannels, Go, TableType
  <1>3. TableType'
    <2>1. \E to \in Places : Go(h, to)
      BY <1>1, StepAlone
    <2>2. UNCHANGED <<legacy, overlapped>>
      BY <1>1, StepAlone
    <2> QED
      BY <1>1, <2>1, <2>2 DEF TableType, Go
  <1>4. Listening'
    BY <1>1, StepAlone DEF Listening, Exists
  <1>5. ~overlapped /\ ~legacy => PortsExclusive' /\ MountsExist'
    BY <1>1 DEF ConsistentInv, PortsExclusive, MountsExist, Exists, Uses, Stored
  <1>6. Placed(h)' /\ pc'[h] \notin Checked /\ CheckedInv(h)' /\ Loaded(h)' /\ pc'[h] \in Reloads
    BY <1>2 DEF Placed, Checked, CheckedInv, Loaded, Reloads
  <1> QED
    BY <1>1, <1>3, <1>4, <1>5, <1>6, StepInvOf

\* Loading the models for a reload keeps the invariant.
LEMMA LoadModelsInv ==
  ASSUME IInv, NEW h \in Handlers, LoadModels(h)
  PROVE  IInv'
  <1>1. TableType /\ pc[h] = "loadModels" /\ Handler(h) /\ ~Receive(h) /\ ConsistentInv /\ BuiltInv
        /\ UNCHANGED <<channels, models, index, plans, forced, revived>>
        /\ built' = [built EXCEPT ![h] = BuildPlans(loaded[h])]
        /\ loaded' = [loaded EXCEPT ![h] = NoLinks]
    BY DEF IInv, LoadModels, Handler, Receive, tables
  <1>2. pc'[h] = "apply" /\ built'[h] = BuildPlans(loaded[h]) /\ \A k \in Handlers \ {h} : built'[k] = built[k]
    BY <1>1 DEF LoadModels, Go, TableType
  <1>3. TableType'
    <2>1. \E to \in Places : Go(h, to)
      BY <1>1, StepAlone
    <2>2. UNCHANGED <<legacy, overlapped>>
      BY <1>1, StepAlone
    <2>3. \A i \in Indexes : IsPlan(plans[i])' /\ \A k \in Handlers : IsPlan(built[k][i])'
      <3>1. \A i \in Indexes : IsPlan(built'[h][i])
        BY <1>1, <1>2, PlanTypes DEF TableType
      <3> QED
        BY <1>1, <1>2, <3>1 DEF TableType, IsPlan
    <2>4. loaded' \in [Handlers -> Links]
      BY <1>1 DEF TableType, Links, NoLinks
    <2>5. built' = [k \in Handlers |-> built'[k]]
      BY <1>1 DEF TableType
    <2> QED
      BY <1>1, <2>1, <2>2, <2>3, <2>4, <2>5 DEF TableType, Go
  <1>4. Listening /\ Listening'
    BY <1>1, StepAlone DEF Listening, Exists
  <1>5. ~overlapped /\ ~legacy => PortsExclusive' /\ MountsExist'
    BY <1>1 DEF ConsistentInv, PortsExclusive, MountsExist, Exists, Uses, Stored
  <1>6. Placed(h)' /\ pc'[h] \notin Checked /\ CheckedInv(h)' /\ pc'[h] \in Reloads
    BY <1>2 DEF Placed, Checked, CheckedInv, Reloads
  <1>7. ~overlapped => Loaded(h)'
    <2>1. ~overlapped => loaded[h] = channels
      BY <1>1, <1>4 DEF BuiltInv, Loaded
    <2> QED
      BY <1>1, <1>2, <2>1, SamePlans DEF Loaded
  <1> QED
    BY <1>1, <1>3, <1>4, <1>5, <1>6, <1>7, StepInvOf

\* Applying a reload keeps the invariant.
LEMMA ApplyInv ==
  ASSUME IInv, NEW h \in Handlers, Apply(h)
  PROVE  IInv'
  <1>1. TableType /\ pc[h] = "apply" /\ Handler(h) /\ ~Receive(h) /\ ConsistentInv /\ BuiltInv
        /\ UNCHANGED <<channels, models, index, loaded, forced, revived>>
        /\ plans' = built[h] /\ built' = [built EXCEPT ![h] = NoPlans]
    BY DEF IInv, Apply, Handler, Receive, tables
  <1>2. pc'[h] = "done" /\ built'[h] = NoPlans /\ \A k \in Handlers \ {h} : built'[k] = built[k]
    BY <1>1 DEF Apply, Go, TableType
  <1>3. TableType'
    <2>1. \E to \in Places : Go(h, to)
      BY <1>1, StepAlone
    <2>2. UNCHANGED <<legacy, overlapped>>
      BY <1>1, StepAlone
    <2>3. \A i \in Indexes : IsPlan(plans[i])' /\ \A k \in Handlers : IsPlan(built[k][i])'
      <3>1. \A i \in Indexes : IsPlan(built'[h][i])
        BY <1>2, PlanTypes
      <3> QED
        BY <1>1, <1>2, <3>1 DEF TableType, IsPlan
    <2>4. built' = [k \in Handlers |-> built'[k]]
      BY <1>1 DEF TableType
    <2> QED
      BY <1>1, <2>1, <2>2, <2>3, <2>4 DEF TableType, Go
  <1>4. Listening /\ Listening'
    BY <1>1, StepAlone DEF Listening, Exists
  <1>5. ~overlapped /\ ~legacy => PortsExclusive' /\ MountsExist'
    BY <1>1 DEF ConsistentInv, PortsExclusive, MountsExist, Exists, Uses, Stored
  <1>6. Placed(h)' /\ pc'[h] \notin Checked /\ CheckedInv(h)' /\ Loaded(h)'
    BY <1>2 DEF Placed, Checked, CheckedInv, Loaded
  <1>7. ~overlapped => plans' = BuildPlans(channels)'
    BY <1>1, <1>4, SamePlans DEF BuiltInv, Loaded
  <1> QED
    BY <1>1, <1>3, <1>4, <1>5, <1>6, <1>7, StepInvOf

-----------------------------------------------------------------------------
\* The specification.

\* So does a step that changes nothing.
LEMMA StutterInv == IInv /\ UNCHANGED vars => IInv'
  <1> SUFFICES ASSUME IInv, UNCHANGED vars PROVE IInv'
    OBVIOUS
  <1>1. UNCHANGED <<channels, models, legacy, pc, request, index, loaded, built, plans, forced, overlapped, revived>>
    BY DEF vars, tables, reload
  <1>2. BuildPlans(channels)' = BuildPlans(channels)
    BY <1>1, SamePlans
  <1>3. TableType' /\ PlaceInv'
    BY <1>1 DEF IInv, TableType, PlaceInv, Placed, IsPlan
  <1>4. ListenInv' /\ AloneInv'
    BY <1>1 DEF IInv, ListenInv, Listening, Exists, AloneInv, Active
  <1>5. PortsExclusive' <=> PortsExclusive
    BY <1>1 DEF PortsExclusive, Exists
  <1>6. MountsExist' <=> MountsExist
    BY <1>1 DEF MountsExist, Uses, Stored
  <1>7. ASSUME NEW h \in Handlers PROVE CheckedInv(h) => CheckedInv(h)'
    BY <1>1 DEF CheckedInv, ValidMounts, Stored, FreePort, Others, Exists, Mounted, Uses
  <1>8. ConsistentInv'
    BY <1>1, <1>5, <1>6, <1>7 DEF IInv, ConsistentInv
  <1>9. BuiltInv'
    BY <1>1, <1>2 DEF IInv, BuiltInv, Loaded, Listening, Exists
  <1> QED
    BY <1>3, <1>4, <1>8, <1>9 DEF IInv

\* The invariant holds of every behaviour.
THEOREM ConfigInvariance == Spec => []IInv
  <1>1. Init => IInv
    BY InitInv
  <1>2. IInv /\ [Next]_vars => IInv'
    <2> SUFFICES ASSUME IInv, [Next]_vars PROVE IInv'
      OBVIOUS
    <2>1. CASE UNCHANGED vars
      BY <2>1, StutterInv
    <2>2. ASSUME NEW h \in Handlers, Handler(h) PROVE IInv'
      BY <2>2, ReceiveInv, CheckMountsInv, CheckPortInv, PickIndexInv, CreateInv, FindRowInv, UpdateInv,
         DeleteChannelInv, SaveModelInv, CheckUsedInv, DropModelInv, LoadChannelsInv, LoadModelsInv, ApplyInv
         DEF Handler
    <2> QED
      BY <2>1, <2>2 DEF Next
  <1> QED
    BY <1>1, <1>2, PTL DEF Spec

\* Every variable keeps its type; a plan is indexed by natural numbers.
THEOREM TypeCorrect == Spec => []TypeOK
  <1>1. IInv => TypeOK
    BY DEF IInv, TableType, TypeOK
  <1> QED
    BY <1>1, ConfigInvariance, PTL

\* As long as requests do not overlap and the links were validated, no port is
\* used by two links and every model mounted is there, unless it was deleted by
\* force (validateChannel, channelsUsingModel).
THEOREM Consistent == Spec => []TablesConsistent
  <1>1. IInv => TablesConsistent
    BY DEF IInv, ConsistentInv, TablesConsistent
  <1> QED
    BY <1>1, ConfigInvariance, PTL

\* After a request that was alone the engine runs what the tables say, whatever
\* the mounts are (buildChannelPlan).
THEOREM Built == Spec => []AcceptedIsBuilt
  <1>1. IInv => AcceptedIsBuilt
    <2> SUFFICES ASSUME IInv, Listening, ~Busy, ~overlapped, NEW i \in Indexes
                 PROVE  PlanFollows(i) /\ Polled(i)
      BY DEF AcceptedIsBuilt
    <2>1. \A h \in Handlers : pc[h] \notin Reloads
      BY DEF Busy, Reloads
    <2>2. plans = BuildPlans(channels) /\ channels \in Links
      BY <2>1 DEF IInv, BuiltInv, TableType
    <2> QED
      BY <2>2, BuiltFollows
  <1> QED
    BY <1>1, ConfigInvariance, PTL

\* A create never replaces a link that exists, with any number of requests that
\* have chosen the same index (SaveChannel, nextChannelIndex).
THEOREM NoOverwrite == Spec => CreateKeepsRows
  <1> DEFINE Keeps == \A i \in Indexes :
                        Exists(i) /\ (\E h \in Handlers : pc[h] = "create" /\ pc'[h] # "create") =>
                          channels'[i] = channels[i]
  <1>1. IInv /\ [Next]_vars => [Keeps]_vars
    <2> SUFFICES ASSUME IInv, Next, NEW i \in Indexes, Exists(i),
                        NEW h \in Handlers, pc[h] = "create", pc'[h] # "create"
                 PROVE  channels'[i] = channels[i]
      BY DEF Keeps
    <2>1. PICK k \in Handlers : Handler(k)
      BY DEF Next
    <2>2. k = h
      <3>1. CASE Receive(k)
        BY <3>1 DEF Receive, IInv, TableType
      <3>2. CASE ~Receive(k)
        BY <2>1, <3>2, StepAlone
      <3> QED
        BY <3>1, <3>2
    <2>3. Create(h)
      BY <2>1, <2>2 DEF Handler, Receive, CheckMounts, CheckPort, PickIndex, FindRow, Update, DeleteChannel,
         SaveModel, CheckUsed, DropModel, LoadChannels, LoadModels, Apply
    <2>4. CASE Exists(index[h])
      BY <2>3, <2>4 DEF Create
    <2>5. CASE ~Exists(index[h])
      <3>1. channels' = [channels EXCEPT ![index[h]] = request[h].row] /\ index[h] # i
        BY <2>3, <2>5 DEF Create
      <3> QED
        BY <3>1 DEF IInv, TableType, Links
    <2> QED
      BY <2>4, <2>5
  <1> QED
    BY <1>1, ConfigInvariance, PTL DEF Spec, CreateKeepsRows
=============================================================================
