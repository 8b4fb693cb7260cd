--------------------------- MODULE DeviceIdentity ---------------------------
(***************************************************************************)
(* The identity of a device over the runs of its agent: an environment     *)
(* variable, a file, or a new one that is saved to the file. The stream    *)
(* that saves it keeps the few bytes until it is closed, so what happens   *)
(* to them is known only when load_device_uuid has decided what to say.    *)
(***************************************************************************)
EXTENDS Integers

CONSTANTS
    EnvId,       \* an identity given by DDCS_DEVICE_ID
    MaxStarts    \* bound on the starts; random identities are numbered by the start

VARIABLES
    file,        \* what DDCS_DEVICE_ID_FILE holds: "absent", "broken" or "id"
    saved,       \* the identity in the file, when it holds one
    at,          \* "down", "saving" (the stream is open), "up"
    identity,    \* the identity of the running agent
    announced,   \* LOG_DEVICE_ID_NOT_PERSISTED
    source,      \* "env", "ephemeral", "file", "generated"
    starts       \* number of starts

identityVars == <<file, saved, at, identity, announced, source, starts>>

IdentityInit ==
    /\ file \in {"absent", "broken"} /\ saved = 0
    /\ at = "down" /\ identity = 0 /\ announced = FALSE /\ source = "ephemeral"
    /\ starts = 0

Fresh == starts'

Use(id, from) == identity' = id /\ source' = from

Begin == at = "down" /\ starts < MaxStarts /\ starts' = starts + 1

\* DDCS_DEVICE_ID holds an identity.
FromEnvironment ==
    /\ Begin /\ at' = "up" /\ Use(EnvId, "env")
    /\ announced' = FALSE /\ UNCHANGED <<file, saved>>

\* There is no file: the identity lasts as long as the process, as is meant.
Ephemeral ==
    /\ Begin /\ at' = "up" /\ Use(Fresh, "ephemeral")
    /\ announced' = FALSE /\ UNCHANGED <<file, saved>>

FromFile ==
    /\ Begin /\ file = "id"
    /\ at' = "up" /\ Use(saved, "file")
    /\ announced' = FALSE /\ UNCHANGED <<file, saved>>

\* The file cannot be used, or cannot be opened to be read; it can be opened to be
\* written, which empties it.
OpenToSave ==
    /\ Begin /\ Use(Fresh, "generated")
    /\ at' = "saving" /\ file' = "broken"
    /\ announced' = FALSE /\ UNCHANGED saved

\* It cannot be opened to be written, perhaps for want of a directory.
CannotSave ==
    /\ Begin /\ Use(Fresh, "generated")
    /\ at' = "up" /\ announced' = TRUE
    /\ UNCHANGED <<file, saved>>

\* The insertion is accepted by the buffer of the stream, the function returns, and the
\* destructor writes, which may fail when the disk is full.
CloseStream ==
    /\ at = "saving" /\ at' = "up"
    /\ \/ file' = "id" /\ saved' = identity
       \/ UNCHANGED <<file, saved>>
    /\ UNCHANGED <<identity, announced, source, starts>>

\* The agent ends, or is killed at any point.
Ends ==
    /\ at # "down" /\ at' = "down"
    /\ UNCHANGED <<file, saved, identity, announced, source, starts>>

IdentityNext ==
    \/ FromEnvironment \/ Ephemeral \/ FromFile \/ OpenToSave \/ CannotSave
    \/ CloseStream \/ Ends

IdentitySpec == IdentityInit /\ [][IdentityNext]_identityVars

----------------------------------------------------------------------------
(* Properties *)

\* What the comment in load_device_uuid says: an agent whose new identity could not be
\* saved starts all the same, but says that the next start will not find it.
KeptOrAnnounced ==
    at = "up" /\ source = "generated" /\ ~announced => file = "id" /\ saved = identity
=============================================================================
