-------------------------- MODULE MCCommissioning --------------------------
(* Instances of Commissioning for TLC: the shipped documents and every      *)
(* document one value away from them, on one of them two values.            *)
EXTENDS Commissioning, MCMotionPath

Manifest == [version |-> 1, unknown |-> FALSE]

Robot ==
    [unknown |-> FALSE, joints |-> Names, base |-> "base", end |-> "tip",
     resource_sha256 |-> 1, contract_sha256 |-> 1, mapped |-> ToSet(Names),
     direction |-> -1, offset |-> 0, command_rate |-> 1, state_rate |-> 1]

Safety ==
    [unknown |-> FALSE, velocity |-> 1, acceleration |-> 1, state_timeout |-> 1,
     command_timeout |-> 1, stop_timeout |-> 1, joint_step |-> 1, points |-> 1,
     samples |-> 1, resample_step |-> 1, minimum |-> 0, maximum |-> 1,
     enabled |-> TRUE, margin |-> 0, score |-> 0, singularity |-> TRUE]

Logging == [unknown |-> FALSE, level |-> "INFO", max_bytes |-> 1, backup_count |-> 0]

\* External: equal mappings and only those have equal fingerprints.
Digest(robot) == <<robot.joints, robot.direction, robot.offset>>

Mock == [unknown |-> FALSE, type |-> "mock"]
Replay == [unknown |-> FALSE, type |-> "replay", found |-> TRUE]
Vendor ==
    [unknown |-> FALSE, type |-> "vendor_serial", serial_by_id |-> "by-id",
     expected_version |-> "real", expected_model |-> "real", speed |-> 50,
     mapping_fingerprint |-> Digest(Robot), capabilities |-> {"unverified", "supported"},
     reference |-> "real", deadline |-> 1, retries |-> 0, retry_delay |-> 0,
     baudrate |-> 1]

Document(adapter) ==
    [manifest |-> Manifest, robot |-> Robot, safety |-> Safety, logging |-> Logging,
     adapter |-> adapter]
Shipped == Document(Mock)

Flags == {"enabled", "singularity"}
Broken == {Missing, WrongType}

\* What may stand at a key instead of its value; a text, a list and a set of names
\* are given by example, and every other key holds a number.
Instead(key) ==
    CASE key = "unknown" -> {TRUE}
      [] key = "found" -> {FALSE}
      [] key \in Flags -> BOOLEAN \cup Broken
      [] key = "joints" -> {<<"a", "a", "c">>, <<"a", "b">>, <<"c", "b", "a">>} \cup Broken
      [] key = "mapped" -> {{"a", "b"}} \cup Broken
      [] key \in {"base", "end"} -> {"base", "tip", "elsewhere"} \cup Broken
      [] key = "level" -> {"TRACE"} \cup Broken
      [] key = "type" -> {"other"} \cup Broken
      [] key = "serial_by_id" -> {"ttyUSB"} \cup Broken
      [] key \in {"expected_version", "expected_model", "reference"} ->
           {"placeholder", "empty"} \cup Broken
      [] key = "capabilities" -> {{"unverified"}, {"perhaps"}} \cup Broken
      [] key = "mapping_fingerprint" -> {Digest([Robot EXCEPT !.direction = 1])} \cup Broken
      [] OTHER -> (-1..2) \cup {101, NonFinite} \cup Broken

\* The documents with the value of one of the keys of d replaced.
Near(d, keys) ==
    UNION {UNION {{[d EXCEPT ![part][key] = v] : v \in Instead(key)} :
                    key \in keys \cap DOMAIN d[part]} : part \in DOMAIN d}
Keys(d) == UNION {DOMAIN d[part] : part \in DOMAIN d}

\* The keys whose values are compared with each other.
Related == {"joints", "mapped", "direction", "base", "end", "mapping_fingerprint",
            "capabilities", "reference"}

\* One value away from each document that is shipped, and two of the related ones.
AllDocuments ==
    UNION {{d} \cup Near(d, Keys(d)) : d \in {Document(a) : a \in {Mock, Replay, Vendor}}}
    \cup UNION {Near(d, Related) : d \in Near(Document(Vendor), Related)}

RobotModel(bytes, contract, joints) ==
    [bytes |-> bytes, contract |-> contract, links |-> {"base", "tip"}, joints |-> joints]

Installed == RobotModel(1, 1, Names)
AllModels ==
    { Installed,
      RobotModel(2, 1, Names),               \* rewritten, the same arm
      RobotModel(3, 2, Names),               \* another arm
      RobotModel(4, 3, <<"a", "b">>) }       \* an arm with fewer joints

\* Every request to one configuration, and one request to every other.
CaseInit ==
    \/ document = Shipped /\ CommissioningInit
    \/ request = Plain /\ measured = Start /\ age = 0 /\ CommissioningInit
CaseSpec == CaseInit /\ [][CommissioningNext]_commissioning
=============================================================================
