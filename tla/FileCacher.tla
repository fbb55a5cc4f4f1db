----------------------------- MODULE FileCacher -----------------------------
(***************************************************************************)
(* The file storage (cms/db/filecacher.py, cms/db/fsobject.py): large      *)
(* objects of the database, found by the digest of their content, and the  *)
(* cache directory that the services of a machine share. Processes get and *)
(* put files, a cleaning tool deletes some, anyone may remove files from   *)
(* the cache, and a process may be killed between any two steps.           *)
(*                                                                         *)
(* A file is told apart by its digest only; what matters of a copy is      *)
(* whether it is all there. A large object is created, written and closed  *)
(* in a transaction of its own, so it appears at once, and one that is     *)
(* open for reading stays readable when it is unlinked (PostgreSQL).       *)
(***************************************************************************)
EXTENDS Naturals

CONSTANTS
    Procs,          \* calls of get_file, put_file and delete
    Digests,
    NoDigest,
    MaxObjects      \* bounds the large objects made

ASSUME FileCacherAssumption == MaxObjects \in Nat /\ NoDigest \notin Digests

Loids == 1 .. MaxObjects

VARIABLES
    cache,          \* per digest: "absent", "part" or "whole" in file_dir
    row,            \* per digest: the loid of its FSObject, or 0
    lobject,        \* per loid: "free", "whole" or "unlinked"
    step,           \* per process: what it does next
    file,           \* per process: the digest it is about
    temp,           \* per process: its temporary file
    loid,           \* per process: the large object it holds, or 0
    got,            \* per process: what it returned: "whole", "error", ...
    doomed          \* the digests delete was called for (of no use to the code)

cacherVars == <<cache, row, lobject, step, file, temp, loid, got, doomed>>

CacherInit ==
    /\ cache = [d \in Digests |-> "absent"]
    /\ row = [d \in Digests |-> 0]
    /\ lobject = [l \in Loids |-> "free"]
    /\ step = [p \in Procs |-> "start"]
    /\ file = [p \in Procs |-> NoDigest]
    /\ temp = [p \in Procs |-> "absent"]
    /\ loid = [p \in Procs |-> 0]
    /\ got = [p \in Procs |-> "nothing"]
    /\ doomed = {}

Goes(p, s) == step' = [step EXCEPT ![p] = s]
Returns(p, r) == Goes(p, "done") /\ got' = [got EXCEPT ![p] = r]

-----------------------------------------------------------------------------
(* get_file and cache_file: _load.                                         *)

GetFile(p, d) ==
    /\ step[p] = "start"
    /\ file' = [file EXCEPT ![p] = d]
    /\ \/ cache[d] # "absent" /\ Returns(p, cache[d])
       \/ cache[d] = "absent" /\ Goes(p, "look up") /\ UNCHANGED got
    /\ UNCHANGED <<cache, row, lobject, temp, loid, doomed>>

LookUp(p) ==
    /\ step[p] = "look up"
    /\ IF row[file[p]] = 0
         THEN Returns(p, "error") /\ UNCHANGED loid
         ELSE Goes(p, "open") /\ loid' = [loid EXCEPT ![p] = row[file[p]]] /\ UNCHANGED got
    /\ UNCHANGED <<cache, row, lobject, file, temp, doomed>>

Open(p) ==
    /\ step[p] = "open"
    /\ IF lobject[loid[p]] = "whole"
         THEN Goes(p, "copy") /\ temp' = [temp EXCEPT ![p] = "part"] /\ UNCHANGED got
         ELSE Returns(p, "error") /\ UNCHANGED temp
    /\ UNCHANGED <<cache, row, lobject, file, loid, doomed>>

(* Mutation: the file is moved to its place before all of it was copied.   *)
AfterCopyEarly(p) ==
    /\ step[p] = "copy"
    /\ Goes(p, "move") /\ UNCHANGED temp

AfterCopy(p) ==
    /\ step[p] = "copy"
    /\ Goes(p, "move") /\ temp' = [temp EXCEPT ![p] = "whole"]

Copy(p) == AfterCopy(p) /\ UNCHANGED <<cache, row, lobject, file, loid, got, doomed>>

(* The file is opened before it is moved, so that it may be dropped from   *)
(* the cache at once.                                                      *)
Move(p) ==
    /\ step[p] = "move"
    /\ cache' = [cache EXCEPT ![file[p]] = temp[p]]
    /\ Returns(p, temp[p])
    /\ temp' = [temp EXCEPT ![p] = "absent"]
    /\ UNCHANGED <<row, lobject, file, loid, doomed>>

-----------------------------------------------------------------------------
(* put_file_from_fobj, which returns the digest.                           *)

PutFile(p, d) ==
    /\ step[p] = "start"
    /\ file' = [file EXCEPT ![p] = d]
    /\ temp' = [temp EXCEPT ![p] = "whole"]
    /\ Goes(p, "create")
    /\ UNCHANGED <<cache, row, lobject, loid, got, doomed>>

AlreadyStored(p) == row[file[p]] # 0

CreateFile(p) ==
    /\ step[p] = "create"
    /\ Goes(p, IF AlreadyStored(p) THEN "put" ELSE "write")
    /\ UNCHANGED <<cache, row, lobject, file, temp, loid, got, doomed>>

(* The object is created, filled and closed.                               *)
WriteObject(p, l) ==
    /\ step[p] = "write" /\ lobject[l] = "free"
    /\ lobject' = [lobject EXCEPT ![l] = "whole"]
    /\ loid' = [loid EXCEPT ![p] = l]
    /\ Goes(p, "commit")
    /\ UNCHANGED <<cache, row, file, temp, got, doomed>>

(* Whoever comes second unlinks what he wrote (IntegrityError).            *)
Superfluous(p) == loid[p]

CommitFile(p) ==
    /\ step[p] = "commit"
    /\ IF row[file[p]] = 0
         THEN row' = [row EXCEPT ![file[p]] = loid[p]] /\ UNCHANGED lobject
         ELSE lobject' = [lobject EXCEPT ![Superfluous(p)] = "unlinked"] /\ UNCHANGED row
    /\ Goes(p, "put")
    /\ UNCHANGED <<cache, file, temp, loid, got, doomed>>

PutInCache(p) ==
    /\ step[p] = "put"
    /\ cache' = [cache EXCEPT ![file[p]] = temp[p]]
    /\ temp' = [temp EXCEPT ![p] = "absent"]
    /\ Returns(p, "stored")
    /\ UNCHANGED <<row, lobject, file, loid, doomed>>

-----------------------------------------------------------------------------
(* delete: the cache, then the large object, then its row. The object is   *)
(* gone as soon as it is unlinked, the row when the session is committed.  *)

Delete(p, d) ==
    /\ step[p] = "start"
    /\ file' = [file EXCEPT ![p] = d]
    /\ cache' = [cache EXCEPT ![d] = "absent"]
    /\ Goes(p, "unlink")
    /\ doomed' = doomed \cup {d}
    /\ UNCHANGED <<row, lobject, temp, loid, got>>

(* lo_unlink raises when another process unlinked the object first.        *)
Unlink(p) ==
    /\ step[p] = "unlink"
    /\ LET l == row[file[p]]
       IN  \/ l = 0 /\ Returns(p, "deleted") /\ UNCHANGED lobject
           \/ l # 0 /\ lobject[l] # "whole" /\ Returns(p, "error") /\ UNCHANGED lobject
           \/ /\ l # 0 /\ lobject[l] = "whole"
              /\ lobject' = [lobject EXCEPT ![l] = "unlinked"]
              /\ Goes(p, "delete row") /\ UNCHANGED got
    /\ UNCHANGED <<cache, row, file, temp, loid, doomed>>

DeleteRow(p) ==
    /\ step[p] = "delete row"
    /\ row' = [row EXCEPT ![file[p]] = 0]
    /\ Returns(p, "deleted")
    /\ UNCHANGED <<cache, lobject, file, temp, loid, doomed>>

(* drop, or somebody empties the cache.                                    *)
Drop(d) ==
    /\ cache[d] # "absent"
    /\ cache' = [cache EXCEPT ![d] = "absent"]
    /\ UNCHANGED <<row, lobject, step, file, temp, loid, got, doomed>>

Killed(p) ==
    /\ step[p] \notin {"start", "done"}
    /\ Returns(p, "killed")
    /\ temp' = [temp EXCEPT ![p] = "absent"]
    /\ UNCHANGED <<cache, row, lobject, file, loid, doomed>>

CacherNext ==
    \/ \E p \in Procs, d \in Digests : GetFile(p, d) \/ PutFile(p, d) \/ Delete(p, d)
    \/ \E p \in Procs : \/ LookUp(p) \/ Open(p) \/ Copy(p) \/ Move(p)
                        \/ CreateFile(p) \/ CommitFile(p) \/ PutInCache(p)
                        \/ Unlink(p) \/ DeleteRow(p) \/ Killed(p)
    \/ \E p \in Procs, l \in Loids : WriteObject(p, l)
    \/ \E d \in Digests : Drop(d)

CacherSpec == CacherInit /\ [][CacherNext]_cacherVars

-----------------------------------------------------------------------------
(* get_file never returns part of a file, nor does the cache hold one: not *)
(* when two processes load it, the cache is emptied, the file is deleted   *)
(* under the reader, or a process is killed while it copies.               *)
ReadsWholeFiles ==
    /\ \A p \in Procs : got[p] # "part"
    /\ \A d \in Digests : cache[d] # "part"

(* A file whose digest put_file_from_fobj returned is in the database and  *)
(* can be read, whoever else stores the same file at the same time and     *)
(* wherever he is killed, as long as nobody deletes it: a delete can take  *)
(* away the row that create_file relied on.                                *)
StoredIsThere ==
    \A p \in Procs :
        got[p] = "stored" /\ file[p] \notin doomed
            => row[file[p]] # 0 /\ lobject[row[file[p]]] = "whole"

(* Both, for processes that load, store and delete at the same time.       *)
CacheSound == ReadsWholeFiles /\ StoredIsThere
=============================================================================
