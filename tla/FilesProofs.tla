----------------------------- MODULE FilesProofs -----------------------------
(* Proofs about private files, for any files, owners, resources and requests. *)
EXTENDS Files, TLAPS

Uploading == {"authorized", "inserted", "stored", "refused"}

\* What a handler may rely on while it runs.  An upload has its file for itself, and a
\* deletion works on a file whose upload is over.
Relies(r) ==
    LET f == reqs[r].file IN
    /\ ~At(r, "idle") => f \in File
    /\ At(r, "idle") => f = NoFile
    /\ reqs[r].pc \in Uploading => \A t \in Request : reqs[t].file = f => t = r
    /\ At(r, "authorized") => rows[f] = "NONE" /\ f \notin objects
    /\ At(r, "inserted") => rows[f] \in {"PENDING", "DELETED"} /\ f \notin objects
    /\ At(r, "stored") => rows[f] \in {"PENDING", "DELETED"} /\ f \in objects
    /\ At(r, "refused") => rows[f] \in {"PENDING", "DELETED"} /\ (f \in objects => f \in broken)
    /\ reqs[r].pc \in Uploading /\ rows[f] = "DELETED" => OwnerOf[f] \notin owners
    /\ At(r, "deleting") => rows[f] \in {"CONFIRMED", "DELETED"}
    /\ At(r, "removed") => rows[f] \in {"CONFIRMED", "DELETED"} /\ f \notin objects

\* A file of an owner who is there, with which nothing went wrong half-way, at work or
\* at rest.
Whole(f) ==
    \/ f \in broken \/ OwnerOf[f] \notin owners
    \/ rows[f] = "CONFIRMED" /\ f \in objects
    \/ rows[f] \in {"NONE", "DELETED"} /\ f \notin objects
    \/ rows[f] = "PENDING" /\ \E r \in Request : reqs[r].pc \in Uploading /\ reqs[r].file = f
    \/ rows[f] = "CONFIRMED" /\ \E r \in Request : At(r, "removed") /\ reqs[r].file = f

RequestsOK == \A r \in Request : Relies(r)
FilesWhole == \A f \in File : Whole(f)
FreshIsEmpty == \A f \in File : rows[f] = "NONE" => f \notin objects
FilesInv == TypeOK /\ RequestsOK /\ FilesWhole /\ FreshIsEmpty

-----------------------------------------------------------------------------
\* Every step is one of a request or the deletion of an owner or a resource.
RequestStep(r) ==
    \/ \E f \in File : UploadCheck(r, f) \/ DeleteCheck(r, f)
    \/ InsertRow(r) \/ ForgetRow(r) \/ ConfirmRow(r) \/ DeleteRow(r) \/ Die(r)
    \/ \E done, raised \in BOOLEAN : StoreObject(r, done, raised) \/ RemoveObject(r, done, raised)

LEMMA StepCases ==
    ASSUME [Next]_vars
    PROVE  \/ UNCHANGED vars
           \/ \E r \in Request : RequestStep(r)
           \/ \E u \in Owner : DeleteOwner(u)
           \/ \E x \in Resource : DeleteResource(x)
    BY DEF Next, RequestStep

\* What the step of a request does: to the request itself, and to its file at most.
LEMMA RequestFrame ==
    ASSUME TypeOK, RequestsOK, NEW r \in Request, RequestStep(r)
    PROVE  /\ TypeOK' /\ UNCHANGED <<owners, resources>>
           /\ \A t \in Request \ {r} : reqs'[t] = reqs[t]
           /\ \A f \in File : f # reqs[r].file =>
                 rows'[f] = rows[f] /\ (f \in objects' <=> f \in objects) /\ (f \in broken' <=> f \in broken)
           /\ broken \subseteq broken'
<1> DEFINE Frame == /\ TypeOK' /\ UNCHANGED <<owners, resources>>
                    /\ \A t \in Request \ {r} : reqs'[t] = reqs[t]
                    /\ \A f \in File : f # reqs[r].file =>
                          /\ rows'[f] = rows[f]
                          /\ f \in objects' <=> f \in objects
                          /\ f \in broken' <=> f \in broken
                    /\ broken \subseteq broken'
<1>0. /\ reqs[r] \in [pc : Busy \cup {"idle"}, file : File \cup {NoFile}]
      /\ reqs[r].pc # "idle" => reqs[r].file \in File
    BY DEF TypeOK, RequestsOK, Relies, At
<1>1. ASSUME NEW f \in File, NEW pc \in Busy, Starts(r, pc, f)  PROVE Frame
    BY <1>1 DEF Starts, TypeOK, store
<1>2. ASSUME InsertRow(r)  PROVE Frame
    BY <1>0, <1>2 DEF InsertRow, At, Goes, Ends, Idle, TypeOK, Busy, Status
<1>3. ASSUME ForgetRow(r) \/ ConfirmRow(r) \/ DeleteRow(r)  PROVE Frame
    BY <1>0, <1>3 DEF ForgetRow, ConfirmRow, DeleteRow, Removed, At, Ends, Idle, TypeOK, Status
<1>4. ASSUME Die(r)  PROVE Frame
    BY <1>0, <1>4 DEF Die, At, Ends, Idle, TypeOK, store
<1>5. ASSUME NEW done \in BOOLEAN, NEW raised \in BOOLEAN, StoreObject(r, done, raised)
      PROVE  Frame
    BY <1>0, <1>5 DEF StoreObject, At, Goes, TypeOK, Busy
<1>6. ASSUME NEW done \in BOOLEAN, NEW raised \in BOOLEAN, RemoveObject(r, done, raised)
      PROVE  Frame
    BY <1>0, <1>6 DEF RemoveObject, At, Goes, Ends, Idle, TypeOK, Busy
<1>7. QED
    BY <1>1, <1>2, <1>3, <1>4, <1>5, <1>6 DEF RequestStep, UploadCheck, DeleteCheck, Busy

\* The others keep what they rely on if no upload loses its file, and two deletions of
\* one file leave it as it may be at any moment of them.
LEMMA OthersKeep ==
    ASSUME TypeOK, RequestsOK, NEW r \in Request, RequestStep(r), NEW s \in Request \ {r},
           reqs[s].pc \in Uploading => reqs'[r].file # reqs[s].file,
           reqs[r].file = reqs[s].file /\ reqs[s].pc \in {"deleting", "removed"} =>
              /\ rows'[reqs[s].file] \in {"CONFIRMED", "DELETED"}
              /\ reqs[s].file \in objects' => reqs[s].file \in objects
    PROVE  Relies(s)'
<1>1. /\ reqs'[s] = reqs[s] /\ broken \subseteq broken' /\ UNCHANGED owners
      /\ \A t \in Request \ {r} : reqs'[t] = reqs[t]
      /\ \A f \in File : f # reqs[r].file => rows'[f] = rows[f] /\ (f \in objects' <=> f \in objects)
    BY RequestFrame
<1>2. PICK q : q = reqs[s]
    OBVIOUS
<1>3. /\ q \in [pc : Busy \cup {"idle"}, file : File \cup {NoFile}] /\ Relies(s)
    BY <1>2 DEF TypeOK, RequestsOK
<1>4. CASE q.pc = "idle"
    BY <1>1, <1>2, <1>3, <1>4 DEF Relies, At, Uploading
<1>5. CASE q.pc \in Uploading
  <2>1. reqs[r].file # q.file /\ q.file \in File
      BY <1>2, <1>3, <1>5 DEF Relies, At, Uploading
  <2>2. \A t \in Request : reqs'[t].file = q.file => t = s
      BY <1>1, <1>2, <1>3, <1>5 DEF Relies
  <2>3. QED  BY <1>1, <1>2, <1>3, <1>5, <2>1, <2>2 DEF Relies, At, Uploading
<1>6. CASE q.pc \in {"deleting", "removed"}
    BY <1>1, <1>2, <1>3, <1>6 DEF Relies, At, Uploading
<1>7. QED  BY <1>3, <1>4, <1>5, <1>6 DEF Busy, Uploading

LEMMA RequestsStep ==
    ASSUME FilesInv, NEW r \in Request, RequestStep(r)  PROVE RequestsOK'
<1> USE DEF FilesInv
<1> DEFINE f == reqs[r].file
           Shared == \A s \in Request \ {r} : reqs[s].file = f => reqs[s].pc \notin Uploading
<1>1. /\ reqs \in [Request -> [pc : Busy \cup {"idle"}, file : File \cup {NoFile}]]
      /\ rows \in [File -> Status \cup {"NONE", "DELETED"}] /\ Relies(r)
      /\ \A s \in Request : Relies(s)
      /\ UNCHANGED owners
    BY RequestFrame DEF TypeOK, RequestsOK
\* The step leaves the request idle, or goes on with its file.
<1>2. ASSUME reqs'[r].file \in {f, NoFile}, Relies(r)',
             f \in File /\ rows[f] \in {"CONFIRMED", "DELETED"} =>
                rows'[f] \in {"CONFIRMED", "DELETED"} /\ (f \in objects' => f \in objects)
      PROVE  RequestsOK'
  <2>1. ASSUME NEW s \in Request \ {r}  PROVE Relies(s)'
    <3>1. reqs[s].pc \in Uploading => reqs'[r].file # reqs[s].file
        BY <1>1, <1>2, FileConstants DEF Relies, At, Uploading
    <3>2. f = reqs[s].file /\ reqs[s].pc \in {"deleting", "removed"} =>
             f \in File /\ rows[f] \in {"CONFIRMED", "DELETED"}
        BY <1>1 DEF Relies, At
    <3>3. QED  BY <1>2, <3>1, <3>2, OthersKeep
  <2>2. QED  BY <1>2, <2>1 DEF RequestsOK
<1>3. ASSUME NEW g \in File, UploadCheck(r, g) \/ DeleteCheck(r, g)  PROVE RequestsOK'
  <2>1. PICK pc \in {"authorized", "deleting"} : Starts(r, pc, g)
      BY <1>3 DEF UploadCheck, DeleteCheck
  <2>2. /\ reqs'[r] = [pc |-> pc, file |-> g] /\ UNCHANGED <<rows, objects, broken>> /\ f = NoFile
        /\ \A t \in Request \ {r} : reqs'[t] = reqs[t]
      BY <1>1, <2>1 DEF Starts, store, At, Relies
  <2>3. ASSUME NEW s \in Request \ {r}  PROVE Relies(s)'
    <3>1. reqs[s].pc \in Uploading => g # reqs[s].file
      <4>1. CASE UploadCheck(r, g)
          BY <4>1 DEF UploadCheck, Handled
      <4>2. CASE DeleteCheck(r, g)
          BY <1>1, <4>2 DEF DeleteCheck, Relies, At, Uploading
      <4>3. QED  BY <1>3, <4>1, <4>2
    <3>2. reqs[s].pc \in {"deleting", "removed"} => reqs[s].file # f
        BY <1>1, <2>2, FileConstants DEF Relies, At
    <3>3. QED  BY <2>2, <3>1, <3>2, OthersKeep
  <2>4. Relies(r)'
    <3>1. CASE UploadCheck(r, g)
      <4>1. reqs'[r].pc = "authorized" /\ rows[g] = "NONE" /\ g \notin objects
            /\ \A t \in Request : reqs'[t].file = g => t = r
          BY <1>1, <2>2, <3>1 DEF UploadCheck, Handled, Starts, FreshIsEmpty
      <4>2. QED  BY <2>2, <4>1 DEF Relies, At
    <3>2. CASE DeleteCheck(r, g)
      <4>1. reqs'[r].pc = "deleting" /\ rows[g] = "CONFIRMED"
          BY <1>1, <2>2, <3>2 DEF DeleteCheck, Starts
      <4>2. QED  BY <2>2, <4>1 DEF Relies, At, Uploading
    <3>3. QED  BY <1>3, <3>1, <3>2
  <2>5. QED  BY <2>3, <2>4 DEF RequestsOK
<1>4. ASSUME Ends(r), objects' \subseteq objects, rows' = rows \/ rows' = Removed(f) \/ ConfirmRow(r)
      PROVE  RequestsOK'
  <2>1. reqs'[r] = [pc |-> "idle", file |-> NoFile]
      BY <1>1, <1>4 DEF Ends, Idle
  <2>2. Relies(r)'
      BY <2>1 DEF Relies, At, Uploading
  <2>3. f \in File /\ rows[f] \in {"CONFIRMED", "DELETED"} => rows'[f] \in {"CONFIRMED", "DELETED"}
      BY <1>1, <1>4 DEF Removed, ConfirmRow, Status
  <2>4. QED  BY <1>2, <1>4, <2>1, <2>2, <2>3
<1>5. ASSUME NEW pc \in {"inserted", "stored", "refused", "removed"}, Goes(r, pc)
      PROVE  f \in File => reqs'[r].pc = pc /\ reqs'[r].file = f /\ \A t \in Request \ {r} : reqs'[t] = reqs[t]
    BY <1>1, <1>5 DEF Goes
<1>6. ASSUME InsertRow(r)  PROVE RequestsOK'
  <2>1. CASE OwnerOf[f] \notin owners
      BY <1>4, <1>6, <2>1 DEF InsertRow
  <2>2. CASE OwnerOf[f] \in owners
    <3>1. /\ f \in File /\ f \notin objects /\ \A t \in Request : reqs[t].file = f => t = r
          /\ rows' = [rows EXCEPT ![f] = "PENDING"] /\ Goes(r, "inserted") /\ UNCHANGED objects
          /\ rows[f] = "NONE"
        BY <1>1, <1>6, <2>2 DEF InsertRow, Relies, At, Uploading
    <3>2. /\ reqs'[r].pc = "inserted" /\ reqs'[r].file = f /\ rows'[f] = "PENDING"
          /\ \A t \in Request : reqs'[t].file = f => t = r
        BY <1>1, <1>5, <3>1
    <3>3. Relies(r)'
        BY <3>1, <3>2 DEF Relies, At, Uploading
    <3>4. QED  BY <1>2, <3>1, <3>2, <3>3
  <2>3. QED  BY <2>1, <2>2
<1>7. ASSUME NEW done \in BOOLEAN, NEW raised \in BOOLEAN, StoreObject(r, done, raised)
      PROVE  RequestsOK'
  <2> DEFINE pc == IF raised THEN "refused" ELSE "stored"
  <2>1. /\ f \in File /\ rows[f] \in {"PENDING", "DELETED"} /\ f \notin objects /\ UNCHANGED rows
        /\ \A t \in Request : reqs[t].file = f => t = r
        /\ rows[f] = "DELETED" => OwnerOf[f] \notin owners
      BY <1>1, <1>7 DEF StoreObject, Relies, At, Uploading
  <2>2. /\ Goes(r, pc) /\ pc \in {"refused", "stored"}
        /\ pc = "stored" => f \in objects'
        /\ pc = "refused" => (f \in objects' => f \in broken')
      BY <1>7, <2>1 DEF StoreObject
  <2> HIDE DEF pc
  <2>3. /\ reqs'[r].pc = pc /\ reqs'[r].file = f /\ \A t \in Request : reqs'[t].file = f => t = r
      BY <1>1, <1>5, <2>1, <2>2
  <2>4. Relies(r)'
      BY <1>1, <2>1, <2>2, <2>3 DEF Relies, At, Uploading
  <2>5. ASSUME NEW s \in Request \ {r}  PROVE Relies(s)'
      BY <2>1, <2>3, <1>1, OthersKeep
  <2>6. QED  BY <2>4, <2>5 DEF RequestsOK
<1>8. ASSUME NEW done \in BOOLEAN, NEW raised \in BOOLEAN, RemoveObject(r, done, raised)
      PROVE  RequestsOK'
  <2>1. /\ f \in File /\ rows[f] \in {"CONFIRMED", "DELETED"} /\ UNCHANGED rows
        /\ objects' \subseteq objects
      BY <1>1, <1>8 DEF RemoveObject, Relies, At
  <2>2. CASE raised
      BY <1>4, <1>8, <2>1, <2>2 DEF RemoveObject
  <2>3. CASE ~raised
    <3>1. Goes(r, "removed") /\ f \notin objects'
        BY <1>8, <2>3 DEF RemoveObject
    <3>2. reqs'[r].pc = "removed" /\ reqs'[r].file = f
        BY <1>5, <2>1, <3>1
    <3>3. Relies(r)'
        BY <2>1, <3>1, <3>2 DEF Relies, At, Uploading
    <3>4. QED  BY <1>2, <2>1, <3>2, <3>3
  <2>4. QED  BY <2>2, <2>3
<1>9. ASSUME ForgetRow(r) \/ ConfirmRow(r) \/ DeleteRow(r) \/ Die(r)  PROVE RequestsOK'
    BY <1>4, <1>9 DEF ForgetRow, ConfirmRow, DeleteRow, Die, store
<1>10. QED
    BY <1>3, <1>6, <1>7, <1>8, <1>9 DEF RequestStep

\* Each file is left whole: the step touches its own only.
LEMMA WholeStep ==
    ASSUME FilesInv, NEW r \in Request, RequestStep(r)  PROVE FilesWhole' /\ FreshIsEmpty'
<1> USE DEF FilesInv
<1> DEFINE f == reqs[r].file
           Fine(g) == Whole(g)' /\ (rows'[g] = "NONE" => g \notin objects')
<1>1. /\ reqs \in [Request -> [pc : Busy \cup {"idle"}, file : File \cup {NoFile}]]
      /\ rows \in [File -> Status \cup {"NONE", "DELETED"}] /\ Relies(r)
      /\ UNCHANGED owners /\ broken \subseteq broken'
      /\ \A t \in Request \ {r} : reqs'[t] = reqs[t]
    BY RequestFrame DEF TypeOK, RequestsOK
<1>2. ASSUME NEW g \in File, g # f  PROVE Fine(g)
  <2>1. rows'[g] = rows[g] /\ (g \in objects' <=> g \in objects) /\ (g \in broken' <=> g \in broken)
      BY <1>2, RequestFrame
  <2>2. \A t \in Request : reqs[t].file = g => reqs'[t] = reqs[t]
      BY <1>1, <1>2
  <2>3. Whole(g) /\ (rows[g] = "NONE" => g \notin objects)
      BY DEF FilesWhole, FreshIsEmpty
  <2>4. ASSUME NEW t \in Request, reqs[t].file = g
        PROVE  reqs'[t].file = g /\ reqs'[t].pc = reqs[t].pc
      BY <2>2, <2>4
  <2>5. QED  BY <1>1, <2>1, <2>3, <2>4 DEF Whole, At
<1>3. ASSUME NEW g \in File, g = f, rows'[g] = "NONE"  PROVE g \notin objects'
  <2>1. rows[g] = "NONE" => g \notin objects
      BY DEF FreshIsEmpty
  <2>2. ASSUME NEW done \in BOOLEAN, NEW raised \in BOOLEAN,
               StoreObject(r, done, raised) \/ RemoveObject(r, done, raised)
        PROVE  g \notin objects'
      BY <1>1, <1>3, <2>1, <2>2 DEF StoreObject, RemoveObject, Relies, At
  <2>3. ASSUME UNCHANGED objects  PROVE g \notin objects'
    <3>1. rows[g] # "NONE" => rows'[g] # "NONE"
        BY <1>1, <1>3 DEF RequestStep, UploadCheck, DeleteCheck, Starts, InsertRow, ForgetRow, ConfirmRow,
                          DeleteRow, Die, StoreObject, RemoveObject, Removed, Status, store
    <3>2. QED  BY <1>3, <2>1, <2>3, <3>1
  <2>4. QED
      BY <2>2, <2>3 DEF RequestStep, UploadCheck, DeleteCheck, Starts, InsertRow, ForgetRow, ConfirmRow,
                        DeleteRow, Die, store
<1>4. ASSUME NEW g \in File, g = f, g \notin broken', OwnerOf[g] \in owners  PROVE Whole(g)'
  <2>0. /\ Whole(g) /\ g \notin broken /\ rows[g] \in Status \cup {"NONE", "DELETED"}
        /\ rows[g] = "NONE" => g \notin objects
        /\ reqs[r].pc # "idle" /\ reqs[r].pc \in Busy
      BY <1>1, <1>4, FileConstants DEF FilesWhole, FreshIsEmpty, Relies, At
  <2>1. CASE InsertRow(r)
    <3>1. /\ rows' = [rows EXCEPT ![g] = "PENDING"] /\ Goes(r, "inserted")
        BY <1>4, <2>1 DEF InsertRow
    <3>2. rows'[g] = "PENDING" /\ reqs'[r].pc \in Uploading /\ reqs'[r].file = g
        BY <1>1, <1>4, <3>1 DEF Uploading, Goes
    <3>3. QED  BY <3>2 DEF Whole
  <2>2. CASE ForgetRow(r)
    <3>1. rows[g] = "PENDING" /\ g \notin objects
        BY <1>1, <1>4, <2>0, <2>2 DEF ForgetRow, Relies, At, Uploading
    <3>2. rows'[g] = "DELETED" /\ g \notin objects'
        BY <1>1, <1>4, <2>2, <3>1 DEF ForgetRow, Removed, Status
    <3>3. QED  BY <3>2 DEF Whole
  <2>3. CASE ConfirmRow(r)
    <3>1. rows[g] = "PENDING" /\ g \in objects
        BY <1>1, <1>4, <2>0, <2>3 DEF ConfirmRow, Relies, At, Uploading
    <3>2. rows'[g] = "CONFIRMED" /\ g \in objects'
        BY <1>1, <1>4, <2>3, <3>1 DEF ConfirmRow
    <3>3. QED  BY <3>2 DEF Whole
  <2>4. CASE DeleteRow(r)
    <3>1. rows[g] \in {"CONFIRMED", "DELETED"} /\ g \notin objects
        BY <1>1, <1>4, <2>4 DEF DeleteRow, Relies, At
    <3>2. rows'[g] = "DELETED" /\ g \notin objects'
        BY <1>1, <1>4, <2>4, <3>1 DEF DeleteRow, Removed, Status
    <3>3. QED  BY <3>2 DEF Whole
  <2>5. CASE Die(r)
    <3>1. reqs[r].pc \in {"authorized", "deleting"} /\ UNCHANGED <<rows, objects>>
        BY <1>4, <2>5 DEF Die, store
    <3>2. CASE reqs[r].pc = "authorized"
        BY <1>1, <1>4, <3>1, <3>2 DEF Relies, At, Whole
    <3>3. CASE reqs[r].pc = "deleting"
      <4>1. rows[g] \in {"CONFIRMED", "DELETED"}
          BY <1>1, <1>4, <3>3 DEF Relies, At
      <4>2. \A t \in Request : At(t, "removed") /\ reqs[t].file = g => reqs'[t] = reqs[t]
          BY <1>1, <3>3 DEF At
      <4>3. QED  BY <1>1, <1>4, <2>0, <3>1, <4>1, <4>2 DEF Whole, At
    <3>4. QED  BY <3>1, <3>2, <3>3
  <2>6. ASSUME NEW done \in BOOLEAN, NEW raised \in BOOLEAN, StoreObject(r, done, raised)
        PROVE  Whole(g)'
    <3>1. rows[g] = "PENDING" /\ UNCHANGED rows
        BY <1>1, <1>4, <2>0, <2>6 DEF StoreObject, Relies, At, Uploading
    <3>2. reqs'[r].pc \in {"refused", "stored"} /\ reqs'[r].file = g
        BY <1>1, <1>4, <2>6 DEF StoreObject, Goes
    <3>3. QED  BY <3>1, <3>2 DEF Whole, Uploading
  <2>7. ASSUME NEW done \in BOOLEAN, NEW raised \in BOOLEAN, RemoveObject(r, done, raised)
        PROVE  Whole(g)'
    <3>1. rows[g] \in {"CONFIRMED", "DELETED"} /\ UNCHANGED rows /\ reqs[r].pc = "deleting"
        BY <1>1, <1>4, <2>7 DEF RemoveObject, Relies, At
    <3>2. CASE raised
      <4>1. UNCHANGED objects
          BY <1>4, <2>7, <3>2 DEF RemoveObject
      <4>2. \A t \in Request : At(t, "removed") /\ reqs[t].file = g => reqs'[t] = reqs[t]
          BY <1>1, <3>1 DEF At
      <4>3. QED  BY <1>1, <1>4, <2>0, <3>1, <4>1, <4>2 DEF Whole, At
    <3>3. CASE ~raised
      <4>1. g \notin objects' /\ reqs'[r].pc = "removed" /\ reqs'[r].file = g
          BY <1>1, <1>4, <2>7, <3>3 DEF RemoveObject, Goes
      <4>2. QED  BY <3>1, <4>1 DEF Whole, At
    <3>4. QED  BY <3>2, <3>3
  <2>8. ASSUME NEW h \in File, UploadCheck(r, h) \/ DeleteCheck(r, h)  PROVE FALSE
      BY <2>0, <2>8 DEF UploadCheck, DeleteCheck, Starts, At
  <2>9. QED  BY <2>1, <2>2, <2>3, <2>4, <2>5, <2>6, <2>7, <2>8 DEF RequestStep
<1>5. ASSUME NEW g \in File, g = f  PROVE Fine(g)
  <2>1. CASE g \in broken' \/ OwnerOf[g] \notin owners
    <3>1. Whole(g)'
        BY <1>1, <2>1 DEF Whole
    <3>2. QED  BY <1>3, <1>5, <3>1
  <2>2. QED  BY <1>3, <1>4, <1>5, <2>1
<1>6. QED  BY <1>2, <1>5 DEF FilesWhole, FreshIsEmpty

\* The deletion of an owner or a resource meets any handler.
LEMMA OwnerStep ==
    ASSUME FilesInv, NEW u \in Owner, DeleteOwner(u)  PROVE FilesInv'
<1> USE DEF FilesInv
<1>1. /\ owners' = owners \ {u} /\ UNCHANGED <<resources, objects, reqs, broken>>
      /\ rows' = [f \in File |-> IF OwnerOf[f] = u /\ Exists(f) THEN "DELETED" ELSE rows[f]]
    BY DEF DeleteOwner
<1>2. TypeOK'
    BY <1>1 DEF TypeOK, Status
<1>3. \A f \in File : \/ rows'[f] = rows[f] /\ ~(OwnerOf[f] = u /\ Exists(f))
                      \/ rows'[f] = "DELETED" /\ OwnerOf[f] = u /\ Exists(f)
    BY <1>1
<1>4. ASSUME NEW r \in Request  PROVE Relies(r)'
    BY <1>1, <1>3 DEF TypeOK, RequestsOK, Relies, At, Exists, Status, Uploading
<1>5. ASSUME NEW f \in File  PROVE Whole(f)' /\ (rows'[f] = "NONE" => f \notin objects')
    BY <1>1, <1>3 DEF FilesWhole, FreshIsEmpty, Whole, At
<1>6. QED  BY <1>2, <1>4, <1>5 DEF RequestsOK, FilesWhole, FreshIsEmpty

\* The invariant: what handlers rely on, and that a file is whole, at work or at rest.
THEOREM FilesConsistent == Spec => []FilesInv
<1>1. Init => FilesInv
  <2> SUFFICES ASSUME Init  PROVE FilesInv
      OBVIOUS
  <2>1. TypeOK
      BY DEF Init, TypeOK, Idle, Busy, Status
  <2>2. RequestsOK
      BY DEF Init, RequestsOK, Relies, At, Idle, Uploading
  <2>3. FilesWhole /\ FreshIsEmpty
      BY DEF Init, FilesWhole, FreshIsEmpty, Whole
  <2>4. QED  BY <2>1, <2>2, <2>3 DEF FilesInv
<1>2. FilesInv /\ [Next]_vars => FilesInv'
  <2> SUFFICES ASSUME FilesInv, [Next]_vars  PROVE FilesInv'
      OBVIOUS
  <2>1. ASSUME NEW r \in Request, RequestStep(r)  PROVE FilesInv'
      BY <2>1, RequestFrame, RequestsStep, WholeStep DEF FilesInv
  <2>2. CASE UNCHANGED <<owners, rows, objects, reqs, broken>> /\ resources' \subseteq Resource
      BY <2>2 DEF FilesInv, TypeOK, RequestsOK, FilesWhole, FreshIsEmpty, Relies, Whole, At
  <2>3. ASSUME NEW x \in Resource, DeleteResource(x)  PROVE FilesInv'
      BY <2>2, <2>3 DEF DeleteResource, store, FilesInv, TypeOK
  <2>4. QED  BY <2>1, <2>2, <2>3, OwnerStep, StepCases DEF vars, FilesInv, TypeOK
<1>3. QED  BY <1>1, <1>2, PTL DEF Spec

\* Every variable of the files keeps its type, for any number of files and handlers.
THEOREM FilesTyped == Spec => []TypeOK
<1>1. FilesInv => TypeOK
    BY DEF FilesInv
<1>2. QED  BY <1>1, FilesConsistent, PTL

\* A file that no handler works on has its row and its object, or neither, unless a handler
\* died half-way, was told that a call failed which was done, or the owner is gone.
THEOREM FilesAtRestAreWhole == Spec => []AtRestIsWhole
<1>1. FilesInv => AtRestIsWhole
    BY DEF FilesInv, FilesWhole, Whole, AtRestIsWhole, Handled
<1>2. QED  BY <1>1, FilesConsistent, PTL

\* A file is confirmed only while its object is in the bucket.
THEOREM FilesConfirmedWhenStored == Spec => ConfirmedWhenStored
<1> DEFINE Confirmed == \A f \in File : rows'[f] = "CONFIRMED" /\ rows[f] # "CONFIRMED" => f \in objects
<1>1. ASSUME FilesInv, [Next]_vars  PROVE Confirmed
  <2> SUFFICES ASSUME NEW f \in File, rows'[f] = "CONFIRMED", rows[f] # "CONFIRMED"
               PROVE  f \in objects
      OBVIOUS
  <2>1. /\ rows \in [File -> Status \cup {"NONE", "DELETED"}] /\ \A r \in Request : Relies(r)
        /\ reqs \in [Request -> [pc : Busy \cup {"idle"}, file : File \cup {NoFile}]]
      BY <1>1 DEF FilesInv, TypeOK, RequestsOK
  <2>2. ASSUME NEW r \in Request, RequestStep(r)  PROVE ConfirmRow(r)
      BY <2>1, <2>2 DEF RequestStep, UploadCheck, DeleteCheck, Starts, InsertRow, ForgetRow, DeleteRow, Die,
                        StoreObject, RemoveObject, Removed, Status, store
  <2>3. ASSUME NEW r \in Request, ConfirmRow(r)  PROVE f \in objects
      BY <2>1, <2>3 DEF ConfirmRow, Relies
  <2>4. QED  BY <1>1, <2>2, <2>3, StepCases DEF vars, DeleteOwner, DeleteResource, store
<1>2. FilesInv /\ [Next]_vars => [Confirmed]_vars
    BY <1>1
<1> HIDE DEF Confirmed
<1>3. QED  BY <1>2, FilesConsistent, PTL DEF Spec, ConfirmedWhenStored, Confirmed
=============================================================================
