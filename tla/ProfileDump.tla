---------------------------- MODULE ProfileDump ----------------------------
(***************************************************************************)
(* dump_recording: the recording is written to a temporary file next to    *)
(* the output and linked to its name when it is complete and on disk.      *)
(* Calls fail, the process is killed, the system goes down, and another    *)
(* program creates the output meanwhile.                                   *)
(***************************************************************************)
EXTENDS Integers

CONSTANT Length    \* bytes of the serialized recording

DumpConstants == Length \in Nat \ {0}

Absent == [state |-> "absent"]
File(written, durable) == [state |-> "file", written |-> written, durable |-> durable]
Foreign == [state |-> "foreign"]

VARIABLES
    temporary,  \* the temporary file
    output,     \* the file at output_path: absent, somebody else's, or linked to the temporary one
    call,       \* the next call
    offset,     \* write_all: offset
    result,     \* the DumpResult returned
    unlinked    \* history: no unlink has failed

dumpVars == <<temporary, output, call, offset, result, unlinked>>

Errors == {"none", "invalid_metadata", "invalid_recording", "temporary_file_create_failed",
           "permission_failed", "write_failed", "sync_failed", "close_failed", "output_already_exists", "publish_failed",
           "temporary_cleanup_failed"}

Result(error, published) == [error |-> error, published |-> published]
NoResult == Result("none", FALSE)

Linked == output.state = "file"

DumpInit ==
    /\ temporary = Absent /\ output \in {Absent, Foreign}
    /\ call = "create" /\ offset = 0 /\ result = NoResult /\ unlinked = TRUE

Fail(error) == call' = "done" /\ result' = Result(error, FALSE)

\* remove_temporary_file, whose result is ignored.
TemporaryAfterFailure == Absent

Cleanup ==
    \/ temporary' = TemporaryAfterFailure /\ UNCHANGED unlinked
    \/ UNCHANGED temporary /\ unlinked' = FALSE

FailAndCleanUp(error) == Fail(error) /\ Cleanup /\ UNCHANGED <<output, offset>>

\* The metadata and the recording are checked, then the temporary file is made.
Create ==
    /\ call = "create"
    /\ \/ /\ temporary' = File(0, 0) /\ call' = "chmod"
          /\ UNCHANGED result
       \/ /\ \E error \in {"invalid_metadata", "invalid_recording",
                            "temporary_file_create_failed"} : Fail(error)
          /\ UNCHANGED temporary
    /\ UNCHANGED <<output, offset, unlinked>>

Chmod ==
    /\ call = "chmod"
    /\ \/ call' = "write" /\ UNCHANGED <<temporary, output, offset, result, unlinked>>
       \/ FailAndCleanUp("permission_failed")

\* write_all goes on until everything is written.
WriteEnds(n) == n = Length

\* write_all, one write: all of the rest, a part of it, or nothing (an error, or 0 bytes).
Write ==
    /\ call = "write"
    /\ \/ \E n \in (offset + 1)..Length :
             /\ offset' = n /\ temporary' = [temporary EXCEPT !.written = n]
             /\ call' = IF WriteEnds(n) THEN "sync" ELSE "write"
             /\ UNCHANGED <<output, result, unlinked>>
       \/ FailAndCleanUp("write_failed")

Sync ==
    /\ call = "sync"
    /\ \/ /\ temporary' = [temporary EXCEPT !.durable = temporary.written]
          /\ call' = "close"
          /\ UNCHANGED <<output, offset, result, unlinked>>
       \/ FailAndCleanUp("sync_failed")

Close ==
    /\ call = "close"
    /\ \/ call' = "link" /\ UNCHANGED <<temporary, output, offset, result, unlinked>>
       \/ FailAndCleanUp("close_failed")

\* Slip: rename, which replaces.
MayLink_Always == TRUE

\* link fails when the name exists.
MayLink == output = Absent

Link ==
    /\ call = "link"
    /\ \/ /\ MayLink
          /\ output' = temporary /\ call' = "unlink"
          /\ UNCHANGED <<temporary, offset, result, unlinked>>
       \/ ~MayLink /\ FailAndCleanUp("output_already_exists")
       \/ FailAndCleanUp("publish_failed")

\* The output is there although the temporary name could not be removed.
CleanupFailure == Result("temporary_cleanup_failed", TRUE)

Unlink ==
    /\ call = "unlink"
    /\ call' = "done"
    /\ \/ /\ temporary' = Absent /\ result' = Result("none", TRUE)
          /\ UNCHANGED unlinked
       \/ /\ result' = CleanupFailure /\ unlinked' = FALSE
          /\ UNCHANGED temporary
    /\ UNCHANGED <<output, offset>>

----------------------------------------------------------------------------

\* The process is killed at any point.
Kill ==
    /\ call \notin {"done", "killed", "down"}
    /\ call' = "killed"
    /\ UNCHANGED <<temporary, output, offset, result, unlinked>>

\* After a crash of the system what was not synced may be missing, and so may names made
\* since, for the directory is not synced.
Lost(file) ==
    IF file.state # "file" THEN {file}
    ELSE {File(n, file.durable) : n \in file.durable..file.written} \cup {Absent}

SystemCrash ==
    /\ call # "down"
    /\ call' = "down"
    /\ temporary' \in Lost(temporary) /\ output' \in Lost(output)
    /\ UNCHANGED <<offset, result, unlinked>>

\* Another program makes or removes a file of that name.
OthersCreate ==
    /\ output = Absent /\ call # "down" /\ output' = Foreign
    /\ UNCHANGED <<temporary, call, offset, result, unlinked>>

OthersRemove ==
    /\ output = Foreign /\ output' = Absent
    /\ UNCHANGED <<temporary, call, offset, result, unlinked>>

DumpNext ==
    \/ Create \/ Chmod \/ Write \/ Sync \/ Close \/ Link \/ Unlink
    \/ Kill \/ SystemCrash \/ OthersCreate \/ OthersRemove

DumpSpec == DumpInit /\ [][DumpNext]_dumpVars

----------------------------------------------------------------------------
(* Properties *)

Files == {Absent} \cup {File(n, d) : n \in 0..Length, d \in 0..Length}

DumpTypeOK ==
    /\ temporary \in Files /\ output \in Files \cup {Foreign}
    /\ call \in {"create", "chmod", "write", "sync", "close", "link", "unlink", "done", "killed",
               "down"}
    /\ offset \in 0..Length /\ unlinked \in BOOLEAN
    /\ result \in [error : Errors, published : BOOLEAN]
    /\ call \in {"sync", "close", "link", "unlink"} => offset = Length

\* Whoever finds the output finds the whole recording, also after a kill or a crash in the
\* middle of the dump.
OutputComplete == Linked => output.written = Length

\* When the dump returns, its temporary file is gone unless the system refused to remove it.
NoLeftovers == (call = "done" /\ unlinked) => temporary = Absent

\* The caller is told the truth about the output: published means that it is there,
\* and success means that nothing else is.
ResultTruthful ==
    call = "done" => /\ result.published <=> Linked
                     /\ result.error = "none" => Linked /\ temporary = Absent

\* A file that somebody else put there is never replaced, even if it appears in the
\* middle of the dump.
NeverReplaces == [][output = Foreign => ~(output'.state = "file")]_dumpVars

DumpConsistent == DumpTypeOK /\ OutputComplete /\ NoLeftovers /\ ResultTruthful
=============================================================================
