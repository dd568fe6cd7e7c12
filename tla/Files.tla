-------------------------------- MODULE Files --------------------------------
(***************************************************************************)
(* Private files (app/services/file_attachment_service.py): a row of       *)
(* file_attachments in the database and an object in Supabase Storage,     *)
(* which no transaction joins.                                             *)
(*                                                                         *)
(* An upload commits a PENDING row, stores the object and confirms the     *)
(* row; a deletion removes the object and then the row.  Each of these is  *)
(* a step, in a thread of its own, and a handler can die between any two.  *)
(* The storage is external: a call of it may raise whether it was done or  *)
(* not.  resource_id is no foreign key, so a file outlives its resource;   *)
(* owner_id is one.                                                        *)
(***************************************************************************)
EXTENDS Naturals

CONSTANTS
    File, Owner, Resource,    \* ids: each names one row, once
    OwnerOf,                  \* file_attachments.owner_id
    ResourceOf,               \* file_attachments.resource_id
    Request, NoFile

ASSUME FileConstants ==
    /\ OwnerOf \in [File -> Owner]
    /\ ResourceOf \in [File -> Resource]
    /\ NoFile \notin File

VARIABLES
    owners,      \* the users that exist
    resources,   \* the jobs, proposals, contracts, milestones and profiles that exist
    rows,        \* file -> status of its row
    objects,     \* the files whose object is in the bucket
    reqs,        \* request -> what its handler is doing
    broken       \* files whose handler died half-way, or was told that a call failed which was done

store == <<rows, objects>>
vars == <<owners, resources, rows, objects, reqs, broken>>

-----------------------------------------------------------------------------
Status == {"PENDING", "CONFIRMED"}
Exists(f) == rows[f] \in Status
Idle == [pc |-> "idle", file |-> NoFile]
Busy == {"authorized", "inserted", "stored", "refused", "deleting", "removed"}

Init ==
    /\ owners = Owner /\ resources = Resource
    /\ rows = [f \in File |-> "NONE"]
    /\ objects = {} /\ broken = {}
    /\ reqs = [r \in Request |-> Idle]

At(r, pc) == reqs[r].pc = pc
Starts(r, pc, f) ==
    /\ At(r, "idle")
    /\ reqs' = [reqs EXCEPT ![r] = [pc |-> pc, file |-> f]]
    /\ UNCHANGED <<owners, resources, store, broken>>
Goes(r, pc) == reqs' = [reqs EXCEPT ![r].pc = pc] /\ UNCHANGED <<owners, resources>>
Ends(r) == reqs' = [reqs EXCEPT ![r] = Idle] /\ UNCHANGED <<owners, resources>>

Handled(f) == \E r \in Request : reqs[r].file = f

\* _authorize_resource: the resource exists and the caller has a part in it.
Authorized(f) == ResourceOf[f] \in resources

-----------------------------------------------------------------------------
(* upload *)

\* uuid4 names the row and the object's path.
UploadCheck(r, f) ==
    /\ rows[f] = "NONE" /\ ~Handled(f)
    /\ Authorized(f) /\ OwnerOf[f] \in owners
    /\ Starts(r, "authorized", f)

\* The owner's foreign key may fail by now.
InsertRow(r) ==
    /\ At(r, "authorized")
    /\ LET f == reqs[r].file IN
       IF OwnerOf[f] \in owners
         THEN rows' = [rows EXCEPT ![f] = "PENDING"] /\ Goes(r, "inserted")
         ELSE UNCHANGED rows /\ Ends(r)
    /\ UNCHANGED <<objects, broken>>

\* The call returns only when the object is stored; it may raise all the same.
StoreObject(r, stored, raised) ==
    /\ At(r, "inserted")
    /\ stored \/ raised
    /\ LET f == reqs[r].file IN
       /\ objects' = IF stored THEN objects \cup {f} ELSE objects
       /\ broken' = IF stored /\ raised THEN broken \cup {f} ELSE broken
    /\ Goes(r, IF raised THEN "refused" ELSE "stored")
    /\ UNCHANGED rows

RemovedWith(f) == [rows EXCEPT ![f] = "REMOVED"]    \* a mutant
Removed(f) == [rows EXCEPT ![f] = IF @ \in Status THEN "DELETED" ELSE @]

ForgetRow(r) ==
    /\ At(r, "refused")
    /\ rows' = Removed(reqs[r].file)
    /\ Ends(r) /\ UNCHANGED <<objects, broken>>

\* With the row cascaded away the UPDATE raises StaleDataError.
ConfirmRow(r) ==
    /\ At(r, "stored")
    /\ rows' = [rows EXCEPT ![reqs[r].file] = IF @ = "PENDING" THEN "CONFIRMED" ELSE @]
    /\ Ends(r) /\ UNCHANGED <<objects, broken>>

-----------------------------------------------------------------------------
(* delete, after get_file_for_user *)

\* A mutant: the status is not looked at.
DeleteAnyCheck(r, f) == Exists(f) /\ Authorized(f) /\ Starts(r, "deleting", f)
DeleteCheck(r, f) == rows[f] = "CONFIRMED" /\ Authorized(f) /\ Starts(r, "deleting", f)

\* A mutant: a failing call does not stop the deletion of the row.
RemoveObjectOrNot(r, removed, raised) ==
    /\ At(r, "deleting")
    /\ removed \/ raised
    /\ objects' = IF removed THEN objects \ {reqs[r].file} ELSE objects
    /\ Goes(r, "removed") /\ UNCHANGED <<rows, broken>>

\* To remove an object that is gone already is no error.  When the call raises, the
\* row stays as it is.
RemoveObject(r, removed, raised) ==
    /\ At(r, "deleting")
    /\ removed \/ raised
    /\ LET f == reqs[r].file IN
       /\ objects' = IF removed THEN objects \ {f} ELSE objects
       /\ broken' = IF removed /\ raised THEN broken \cup {f} ELSE broken
    /\ IF raised THEN Ends(r) ELSE Goes(r, "removed")
    /\ UNCHANGED rows

DeleteRow(r) ==
    /\ At(r, "removed")
    /\ rows' = Removed(reqs[r].file)
    /\ Ends(r) /\ UNCHANGED <<objects, broken>>

-----------------------------------------------------------------------------
\* The process dies or a statement fails: what is committed and stored stays.
Die(r) ==
    /\ ~At(r, "idle")
    /\ broken' = IF reqs[r].pc \in {"authorized", "deleting"} THEN broken
                 ELSE broken \cup {reqs[r].file}
    /\ Ends(r) /\ UNCHANGED store

\* delete_me: the rows of the owner's files are cascaded away, their objects are not.
DeleteOwner(u) ==
    /\ u \in owners
    /\ owners' = owners \ {u}
    /\ rows' = [f \in File |-> IF OwnerOf[f] = u /\ Exists(f) THEN "DELETED" ELSE rows[f]]
    /\ UNCHANGED <<resources, objects, reqs, broken>>

\* The resource is deleted, and its files with their objects stay.
DeleteResource(x) ==
    /\ x \in resources
    /\ resources' = resources \ {x}
    /\ UNCHANGED <<owners, store, reqs, broken>>

Next ==
    \/ \E r \in Request :
        \/ \E f \in File : UploadCheck(r, f) \/ DeleteCheck(r, f)
        \/ InsertRow(r) \/ ForgetRow(r) \/ ConfirmRow(r) \/ DeleteRow(r) \/ Die(r)
        \/ \E done, raised \in BOOLEAN : StoreObject(r, done, raised) \/ RemoveObject(r, done, raised)
    \/ \E u \in Owner : DeleteOwner(u)
    \/ \E x \in Resource : DeleteResource(x)

Spec == Init /\ [][Next]_vars

-----------------------------------------------------------------------------
TypeOK ==
    /\ owners \subseteq Owner /\ resources \subseteq Resource
    /\ rows \in [File -> Status \cup {"NONE", "DELETED"}]
    /\ objects \subseteq File /\ broken \subseteq File
    /\ reqs \in [Request -> [pc : Busy \cup {"idle"}, file : File \cup {NoFile}]]

\* A file that no handler works on is confirmed and stored, or neither: only a crash
\* half-way, a call that was done and raised, or the deletion of the owner leaves a
\* row without its object or an object without its row.
AtRestIsWhole ==
    \A f \in File :
        \/ Handled(f) \/ f \in broken \/ OwnerOf[f] \notin owners
        \/ rows[f] = "CONFIRMED" /\ f \in objects
        \/ rows[f] \in {"NONE", "DELETED"} /\ f \notin objects

\* A file is confirmed, and so listed and offered for download, only while its object is
\* in the bucket: no deletion that overlaps the upload takes the object away before.
ConfirmedWhenStored ==
    [][\A f \in File : rows'[f] = "CONFIRMED" /\ rows[f] # "CONFIRMED" => f \in objects]_vars
=============================================================================
