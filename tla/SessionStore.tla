---------------------------- MODULE SessionStore ----------------------------
(***************************************************************************)
(* The session store on disk (internal/session/store.go): one file         *)
(* <id>.json per session, written as <id>.json.tmp and renamed; Load reads *)
(* every file of the directory.  Save, Delete and Load exclude each other  *)
(* by the store's mutex, but a server exit or a failing write can leave a  *)
(* save half done.  Of a file's contents only this matters: whether it is  *)
(* a whole record or a part of one.                                        *)
(***************************************************************************)
EXTENDS Naturals, FiniteSets

CONSTANTS
    Ids,        \* session ids
    Faults      \* "exit": the server exits inside a save;
                \* "write": WriteFile fails (a full disk), or the rename

ASSUME FaultsAssumption == Faults \subseteq {"exit", "write"}

VARIABLES
    json,     \* json[id]: the file <id>.json: "absent" or "whole"
    tmp,      \* tmp[id]: the file <id>.json.tmp: "absent", "part" or "whole"
    saving,   \* the ids being saved: none or one
    phase,    \* "down", "up"
    live,     \* the server's sessions: what Load has returned (nothing when
              \* it failed), and those opened since
    saved,    \* ids whose Save succeeded, and that were not deleted since
    deleted,  \* ids whose session was deleted
    used      \* ids that a session was given

vars == <<json, tmp, saving, phase, live, saved, deleted, used>>

Init ==
    /\ json = [id \in Ids |-> "absent"]
    /\ tmp  = [id \in Ids |-> "absent"]
    /\ saving = {}
    /\ phase = "up"
    /\ live = {} /\ saved = {} /\ deleted = {} /\ used = {}

----------------------------------------------------------------------------

Free == phase = "up" /\ saving = {}

(* A faulty variant: the record itself is written, not a file beside it.    *)
SaveInPlace(id) ==
    /\ Free /\ id \notin used
    /\ used' = used \cup {id}
    /\ saving' = saving \cup {id}
    /\ tmp' = [tmp EXCEPT ![id] = "part"]
    /\ json' = [json EXCEPT ![id] = "part"]
    /\ live' = live \cup {id}
    /\ UNCHANGED <<phase, saved, deleted>>

(* Save(sess), first half: the temporary file exists and is incomplete.    *)
SaveBegin(id) ==
    /\ Free /\ id \notin used
    /\ used' = used \cup {id}
    /\ saving' = saving \cup {id}
    /\ live' = live \cup {id}
    /\ tmp' = [tmp EXCEPT ![id] = "part"]
    /\ UNCHANGED <<json, phase, saved, deleted>>

SaveWritten(id) ==
    /\ phase = "up" /\ id \in saving /\ tmp[id] = "part"
    /\ tmp' = [tmp EXCEPT ![id] = "whole"]
    /\ UNCHANGED <<json, saving, phase, live, saved, deleted, used>>

(* WriteFile fails half way or at its end, or the rename does: the error is *)
(* returned and logged, the temporary file stays as it is.                  *)
SaveFails(id) ==
    /\ phase = "up" /\ id \in saving
    /\ "write" \in Faults
    /\ saving' = saving \ {id}
    /\ UNCHANGED <<json, tmp, phase, live, saved, deleted, used>>

SaveRename(id) ==
    /\ phase = "up" /\ id \in saving /\ tmp[id] = "whole"
    /\ json' = [json EXCEPT ![id] = tmp[id]]
    /\ tmp'  = [tmp EXCEPT ![id] = "absent"]
    /\ saving' = saving \ {id}
    /\ saved' = saved \cup {id}
    /\ UNCHANGED <<phase, live, deleted, used>>

(* Delete(id) removes the record; a file that does not exist is no error.  *)
Delete(id) ==
    /\ Free /\ id \in live
    /\ json' = [json EXCEPT ![id] = "absent"]
    /\ saved' = saved \ {id}
    /\ live' = live \ {id}
    /\ deleted' = deleted \cup {id}
    /\ UNCHANGED <<tmp, saving, phase, used>>

Exit ==
    /\ phase = "up"
    /\ saving # {} => "exit" \in Faults
    /\ phase' = "down"
    /\ saving' = {} /\ live' = {}
    /\ UNCHANGED <<json, tmp, saved, deleted, used>>

(* Load: every file of the directory is decoded, and one that does not     *)
(* decode makes the whole Load fail: then no session is restored.          *)
Undecodable == \E id \in Ids : tmp[id] = "part" \/ json[id] = "part"
Decoded == {id \in Ids : tmp[id] = "whole" \/ json[id] = "whole"}

Load ==
    /\ phase = "down"
    /\ phase' = "up"
    /\ live' = IF Undecodable THEN {} ELSE Decoded
    /\ UNCHANGED <<json, tmp, saving, saved, deleted, used>>

Next ==
    \/ \E id \in Ids : \/ SaveBegin(id) \/ SaveWritten(id) \/ SaveFails(id)
                       \/ SaveRename(id) \/ Delete(id)
    \/ Exit
    \/ Load

Spec == Init /\ [][Next]_vars

----------------------------------------------------------------------------

TypeOK ==
    /\ json \in [Ids -> {"absent", "part", "whole"}]
    /\ tmp \in [Ids -> {"absent", "part", "whole"}]
    /\ saving \subseteq Ids /\ Cardinality(saving) <= 1
    /\ phase \in {"down", "up"}
    /\ live \subseteq Ids /\ saved \subseteq Ids
    /\ deleted \subseteq Ids /\ used \subseteq Ids

(* Writing beside the target and renaming works: whatever save was broken   *)
(* off, the files <id>.json are whole records, of exactly the sessions that *)
(* were saved and not deleted.                                              *)
DiskAgrees ==
    \A id \in Ids : json[id] = IF id \in saved THEN "whole" ELSE "absent"

(* "Store persists session metadata so the server can recover after         *)
(* restarts": Load returns every session that was saved and not deleted.    *)
Recovers == [][phase = "down" /\ phase' = "up" => saved \subseteq live']_vars

(* close_binary: the closed session must not stay "persisted in the store,  *)
(* or RestoreSessions would try to respawn a worker for it on the next      *)
(* start".  Load returns no deleted session.                                *)
DeletedStaysDeleted ==
    [][phase = "down" /\ phase' = "up" => live' \cap deleted = {}]_vars
=============================================================================
