---------------------------- MODULE MinigameConfig ----------------------------
(* The versions of a minigame's configuration on one channel and the pointer *)
(* to the one in use (database/minigame_config.rs), and the clients that read *)
(* them (api/minigame_config.rs).  A client asks for the manifest, for the   *)
(* bundle in use or for one by its number; an administrator acts in between. *)
(* An operator described as a mistake is not the code: it takes the place of *)
(* the definition after it to show which property notices.                  *)
EXTENDS Requests, Integers, FiniteSets

CONSTANTS
    Content,       \* the three JSON arrays; the checksum tells them apart
    MaxVersion     \* bound: the versions that are made

ASSUME MaxVersionIsNumber == MaxVersion \in Nat

VARIABLES
    config,        \* minigame_config_version: the row of each version, or None
    active,        \* minigame_config_active: the version in use, or None
    rollback_to,   \* the rollbacks whose target has been read: the target, or None
    manifest,      \* what each client was told: a version and its checksum, or None
    bundle         \* what each client has loaded, or None

configVars == <<config, active, rollback_to, manifest, bundle>>

Version == 1..MaxVersion
ConfigRow == [status : {"draft", "published"}, content : Content]

ASSUME NoneIsNoConfig == None \notin ConfigRow

Manifest == [version : Version, checksum : Content]
Bundle == [version : Version, content : Content]

ConfigTypeOK ==
    /\ config \in [Version -> ConfigRow \cup {None}]
    /\ active \in Version \cup {None}
    /\ rollback_to \in [Request -> Version \cup {None}]
    /\ manifest \in [UserId -> Manifest \cup {None}]
    /\ bundle \in [UserId -> Bundle \cup {None}]

ConfigInit ==
    /\ config = [v \in Version |-> None]
    /\ active = None
    /\ rollback_to = [r \in Request |-> None]
    /\ manifest = [c \in UserId |-> None]
    /\ bundle = [c \in UserId |-> None]

Made == {v \in Version : config[v] # None}

------------------------------------------------------------------------------

\* create_draft: COALESCE(MAX(version), 0) + 1.  Of two at once the second
\* fails on uq_minigame_config_version, as if it had not been sent.
CreateDraft(content) ==
    LET v == Cardinality(Made) + 1
    IN  /\ v \in Version
        /\ config' = [config EXCEPT ![v] = [status |-> "draft", content |-> content]]
        /\ UNCHANGED <<active, rollback_to, manifest, bundle>>

\* publish: one transaction, which marks the version and moves the pointer.
Publish(v) ==
    /\ config[v] # None
    /\ config' = [config EXCEPT ![v].status = "published"]
    /\ active' = v
    /\ UNCHANGED <<rollback_to, manifest, bundle>>

\* A mistake: that the target exists is enough.
RollbackReadsAnyStatus(r, v) ==
    /\ rollback_to[r] = None
    /\ config[v] # None
    /\ rollback_to' = [rollback_to EXCEPT ![r] = v]
    /\ UNCHANGED <<config, active, manifest, bundle>>

\* rollback: the status of the target, read without a lock ..
RollbackReads(r, v) ==
    /\ rollback_to[r] = None
    /\ config[v] # None /\ config[v].status = "published"
    /\ rollback_to' = [rollback_to EXCEPT ![r] = v]
    /\ UNCHANGED <<config, active, manifest, bundle>>

\* .. and the pointer moved to it, or the transaction fails.
RollbackMoves(r) ==
    /\ rollback_to[r] # None
    /\ active' \in {active, rollback_to[r]}
    /\ rollback_to' = [rollback_to EXCEPT ![r] = None]
    /\ UNCHANGED <<config, manifest, bundle>>

\* get_manifest_h: the version in use and its checksum.
GetManifest(c) ==
    /\ active # None
    /\ manifest' = [manifest EXCEPT ![c] =
           [version |-> active, checksum |-> config[active].content]]
    /\ UNCHANGED <<config, active, rollback_to, bundle>>

\* get_version_h: the bundle of any version that was made, by its number; a draft too.
GetVersion(c, v) ==
    /\ config[v] # None
    /\ bundle' = [bundle EXCEPT ![c] = [version |-> v, content |-> config[v].content]]
    /\ UNCHANGED <<config, active, rollback_to, manifest>>

\* get_active_h: the bundle in use, or 304 if the client says (If-None-Match) that it
\* has its checksum already: it keeps what it has, under the old version number.
GetActive(c) ==
    /\ active # None
    /\ \/ /\ bundle[c] # None /\ bundle[c].content = config[active].content
          /\ UNCHANGED bundle
       \/ bundle' = [bundle EXCEPT ![c] =
                [version |-> active, content |-> config[active].content]]
    /\ UNCHANGED <<config, active, rollback_to, manifest>>

ConfigNext ==
    \/ \E content \in Content : CreateDraft(content)
    \/ \E v \in Version : Publish(v)
    \/ \E r \in Request : (\E v \in Version : RollbackReads(r, v)) \/ RollbackMoves(r)
    \/ \E c \in UserId : GetManifest(c) \/ (\E v \in Version : GetVersion(c, v)) \/ GetActive(c)

ConfigSpec == ConfigInit /\ [][ConfigNext]_configVars

------------------------------------------------------------------------------

\* After whatever is made, published or rolled back, also by a rollback decided
\* before (minigame_config.rs:254-262 reads the status without a lock), the version
\* in use is a published one, and so is any that a client was told of, with the
\* checksum it was told; and a bundle that a client holds, by number, by the pointer
\* or kept after a 304, is still what the server has under that number.
AnnouncedIsPublished ==
    LET Published(v, content) == config[v] = [status |-> "published", content |-> content]
    IN  /\ active # None => \E content \in Content : Published(active, content)
        /\ \A c \in UserId :
             /\ manifest[c] # None => Published(manifest[c].version, manifest[c].checksum)
             /\ bundle[c] # None => /\ config[bundle[c].version] # None
                                    /\ config[bundle[c].version].content = bundle[c].content
===============================================================================
