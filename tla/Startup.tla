------------------------------ MODULE Startup ------------------------------
(***************************************************************************)
(* From a configuration on disk to a disconnected robot session:           *)
(* load_sdk_config (runtime/config/loader.py) and                          *)
(* RobotSessionBuilder.build (api/builders.py).  The loader and the        *)
(* builder read the robot model four times, and a deployment may replace   *)
(* the file between any two of them.                                       *)
(*                                                                         *)
(* A document is a record of records of values.  Missing, WrongType and    *)
(* NonFinite are what a key can hold instead of a proper value; a number   *)
(* is a whole number.                                                      *)
(***************************************************************************)
EXTENDS JointVectors

CONSTANTS
    Documents,             \* what a deployment may have written
    Models,                \* the robot models: [bytes, contract, links, joints]
    FirstModel,            \* the one that is installed
    Missing, WrongType,
    Fingerprint(_)         \* external: SHA-256 of a joint mapping

\* Every document is read for the keys that a constructor reads behind the loader.
ASSUME DocumentsAssumption ==
    \A d \in Documents :
        /\ "offset" \in DOMAIN d.robot
        /\ "resample_step" \in DOMAIN d.safety

VARIABLES
    document,
    model,                 \* the file as it is now
    replaced,              \* the models that were replaced
    step,                  \* "hash", "fingerprint", "parse", "compose" or "done"
    outcome,               \* "none", "built" or the error that was raised
    parsed                 \* the model the kinematics were parsed from

startup == <<document, model, replaced, step, outcome, parsed>>
NoModel == [bytes |-> 0, contract |-> 0, links |-> {}, joints |-> <<>>]

StartupInit ==
    /\ document \in Documents
    /\ model = FirstModel
    /\ replaced = {}
    /\ step = "hash"
    /\ outcome = "none"
    /\ parsed = NoModel

-----------------------------------------------------------------------------
(* The loader                                                              *)

\* _check_keys and the typed readers: every key is there with a value of its
\* type, numbers are finite, and there is no other key.
Strict(section) ==
    /\ \A key \in DOMAIN section : section[key] \notin {Missing, WrongType, NonFinite}
    /\ ~section.unknown

Positive(section, keys) == \A key \in keys : section[key] > 0

\* _require_version and the manifest itself
ManifestAccepted(d) == Strict(d.manifest) /\ d.manifest.version = 1

\* _parse_robot up to the hash of the model ...
RobotNamed(robot) ==
    /\ Strict(robot)
    /\ Len(robot.joints) = Len(JointNames) /\ IsInjective(robot.joints)

\* ... and from its fingerprint on
RobotAccepted(robot) ==
    /\ robot.base # robot.end
    /\ robot.mapped = ToSet(robot.joints)
    /\ robot.direction \in {-1, 1}
    /\ Positive(robot, {"command_rate", "state_rate"})

\* Mutant of SafetyAccepted: the resample step is only checked for being a number.
SafetyAcceptedAnyStep(safety) ==
    /\ Strict(safety)
    /\ Positive(safety, {"velocity", "acceleration", "state_timeout", "command_timeout",
                         "stop_timeout", "joint_step", "points", "samples"})
    /\ safety.minimum < safety.maximum
    /\ safety.enabled
    /\ safety.margin >= 0 /\ safety.score >= 0

\* _parse_safety; velocity and acceleration are the least of their six values.
SafetyAccepted(safety) ==
    /\ Strict(safety)
    /\ Positive(safety, {"velocity", "acceleration", "state_timeout", "command_timeout",
                         "stop_timeout", "joint_step", "points", "samples", "resample_step"})
    /\ safety.minimum < safety.maximum
    /\ safety.enabled
    /\ safety.margin >= 0 /\ safety.score >= 0

\* _parse_logging
LoggingAccepted(logging) ==
    /\ Strict(logging)
    /\ logging.level \in {"DEBUG", "INFO", "WARNING", "ERROR", "CRITICAL"}
    /\ logging.max_bytes > 0 /\ logging.backup_count >= 0

Capabilities == {"supported", "unsupported", "unverified"}

\* _parse_adapter of a real arm.  A text is "real", "placeholder" or "empty"; the
\* capabilities are those an adapter can have, as a set.
HardwareAccepted(hardware, robot) ==
    /\ hardware.serial_by_id = "by-id"
    /\ hardware.expected_version = "real" /\ hardware.expected_model = "real"
    /\ hardware.speed \in 1..100
    /\ hardware.mapping_fingerprint = Fingerprint(robot)
    /\ hardware.capabilities \subseteq Capabilities
    /\ "supported" \in hardware.capabilities => hardware.reference = "real"
    /\ hardware.deadline > 0 /\ hardware.retries >= 0 /\ hardware.retry_delay >= 0
    /\ hardware.baudrate > 0

AdapterAccepted(adapter, robot) ==
    /\ Strict(adapter)
    /\ adapter.type \in {"mock", "replay", "vendor_serial"}
    /\ adapter.type = "vendor_serial" => HardwareAccepted(adapter, robot)

Ends(how) == step' = "done" /\ outcome' = how

\* load_sdk_config: the manifest, and of the robot file all up to the hash.
HashModel ==
    /\ step = "hash"
    /\ IF /\ ManifestAccepted(document) /\ RobotNamed(document.robot)
          /\ model.bytes = document.robot.resource_sha256
         THEN step' = "fingerprint" /\ UNCHANGED outcome
         ELSE Ends("configuration_error")
    /\ UNCHANGED <<document, model, replaced, parsed>>

\* The model is read again for its contract; then the other files.
FingerprintModel ==
    /\ step = "fingerprint"
    /\ IF /\ model.contract = document.robot.contract_sha256
          /\ RobotAccepted(document.robot)
          /\ SafetyAccepted(document.safety)
          /\ LoggingAccepted(document.logging)
          /\ AdapterAccepted(document.adapter, document.robot)
         THEN step' = "parse" /\ UNCHANGED outcome
         ELSE Ends("configuration_error")
    /\ UNCHANGED <<document, model, replaced, parsed>>

-----------------------------------------------------------------------------
(* The builder                                                             *)

\* PoeKinematics.from_urdf: the chain between the links with the joints in order.
ParseModel ==
    /\ step = "parse"
    /\ IF {document.robot.base, document.robot.end} \subseteq model.links
          /\ document.robot.joints = model.joints
         THEN step' = "compose" /\ parsed' = model /\ UNCHANGED outcome
         ELSE Ends("kinematics_error") /\ UNCHANGED parsed
    /\ UNCHANGED <<document, model, replaced>>

\* The constructors that check what they are given, and raise ValueError.
PolicyConstructs(safety) ==
    /\ safety.enabled
    /\ Positive(safety, {"points", "samples"})
    /\ safety.resample_step # NonFinite /\ safety.resample_step > 0

MapperConstructs(robot) ==
    /\ robot.joints # <<>> /\ IsInjective(robot.joints)
    /\ robot.mapped = ToSet(robot.joints)
    /\ robot.direction \in {-1, 1}
    /\ robot.offset # NonFinite

GeneratorConstructs(robot) == robot.command_rate > 0

AdapterConstructs(adapter, robot) ==
    adapter.type = "vendor_serial" =>
        /\ adapter.speed \in 1..100
        /\ adapter.retries >= 0
        /\ adapter.mapping_fingerprint = Fingerprint(robot)
        /\ "supported" \in adapter.capabilities => adapter.reference # "empty"

ReplayFound(adapter) == adapter.type = "replay" => adapter.found

\* Mutant of ComposeSession: the provider's fingerprint is not compared.
ComposeSessionUnchecked ==
    /\ step = "compose"
    /\ Ends("built")
    /\ UNCHANGED <<document, model, replaced, parsed>>

\* from_urdf ends with a fingerprint of its own reading of the file, which build
\* compares; then the objects are built in their order.
ComposeSession ==
    /\ step = "compose"
    /\ Ends(CASE model.contract # document.robot.contract_sha256 -> "configuration_error"
              [] model.contract = document.robot.contract_sha256
                 /\ ~MapperConstructs(document.robot) -> "value_error"
              [] model.contract = document.robot.contract_sha256
                 /\ MapperConstructs(document.robot)
                 /\ ~ReplayFound(document.adapter) -> "configuration_error"
              [] OTHER -> IF /\ AdapterConstructs(document.adapter, document.robot)
                             /\ PolicyConstructs(document.safety)
                             /\ GeneratorConstructs(document.robot)
                          THEN "built" ELSE "value_error")
    /\ UNCHANGED <<document, model, replaced, parsed>>

\* A deployment replaces the model file; no earlier contract comes back.
ReplaceModel ==
    /\ step # "done"
    /\ \E other \in Models :
          /\ other # model
          /\ \A old \in replaced : other.contract # old.contract
          /\ model' = other
    /\ replaced' = replaced \cup {model}
    /\ UNCHANGED <<document, step, outcome, parsed>>

StartupNext == HashModel \/ FingerprintModel \/ ParseModel \/ ComposeSession \/ ReplaceModel

StartupSpec == StartupInit /\ [][StartupNext]_startup

-----------------------------------------------------------------------------
(* Properties                                                              *)

\* A document the strict loader took is never refused by a constructor behind it:
\* the two sets of checks, written apart, agree.
NeverRefusedLate == outcome # "value_error"

\* The kinematics of a session, and with them the joint limits of its safety
\* policy, are those of a model with the contract the configuration pins, however
\* the file is replaced while it is read.
BuiltOnPinnedModel == outcome = "built" => parsed.contract = document.robot.contract_sha256
=============================================================================
