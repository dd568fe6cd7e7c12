--------------------------- MODULE ListingsProofs ---------------------------
(* Proofs about the listings, for any jobs, profiles, skills and requests.   *)
EXTENDS Listings, TLAPS

\* What a check has established about the record of its own request, whatever others
\* commit later.
CheckedRow(q) ==
    /\ q.pc \in {"validated", "cleared"} => q.id \in Listing
    /\ q.op \in {"createJob", "editJob"} => q.id \in Job
    /\ q.op \in {"createProfile", "editProfile"} => q.id \in Profile
    /\ q.op \in {"createSkill", "renameSkill"} => q.id \in Skill /\ q.name \in Name
    /\ q.op = "createJob" \/ (q.op = "editJob" /\ q.sets # {}) => InOrder(q.range)
    /\ q.op = "createSkill" => \A x \in q.names : x[2] \notin Likes[q.name]
    /\ q.op = "renameSkill" =>
          \/ \A x \in q.names : x[2] \notin Likes[q.name]
          \/ \E x \in q.names : x[1] = q.id /\ x[2] \in Likes[q.name]

ReqsChecked == \A r \in Request : CheckedRow(reqs[r])
ListingsInv == TypeOK /\ ReqsChecked /\ LinksAreGrounded

-----------------------------------------------------------------------------
(* The records of the requests *)

LEMMA NoRangeFacts == NoRange \in Range /\ InOrder(NoRange)
<1>1. PICK a \in Amount : a = CHOOSE x \in Amount : TRUE
    BY ListingConstants
<1>2. NoRange = [c \in Column |-> a]
    BY <1>1 DEF NoRange
<1>3. a \in Nat /\ NoRange["min"] = a /\ NoRange["max"] = a
    BY <1>2, ListingConstants DEF Column
<1>4. QED  BY <1>2, <1>3 DEF Range, InOrder

LEMMA IdleFacts == IdleReq \in Handling /\ CheckedRow(IdleReq)
    BY NoRangeFacts DEF IdleReq, Handling, CheckedRow

\* The names of skills are names, and tell which skills are like a name.
LEMMA NamesFacts ==
    ASSUME TypeOK, NEW name \in Name
    PROVE  /\ Names \in SUBSET (Skill \X Name)
           /\ NamedLike(name) = {} => \A x \in Names : x[2] \notin Likes[name]
           /\ \A s \in NamedLike(name) : \E x \in Names : x[1] = s /\ x[2] \in Likes[name]
<1>1. ASSUME NEW x \in Names
      PROVE  \E s \in Existing : x = <<s, skills[s]>> /\ x \in Skill \X Name
    BY DEF Names, Existing
<1>2. Names \subseteq Skill \X Name
    BY <1>1
<1>3. ASSUME NamedLike(name) = {}, NEW x \in Names  PROVE x[2] \notin Likes[name]
  <2>1. PICK s \in Existing : x = <<s, skills[s]>>
      BY <1>1
  <2>2. skills[s] \notin Likes[name]
      BY <1>3 DEF NamedLike
  <2>3. QED  BY <2>1, <2>2
<1>4. ASSUME NEW s \in NamedLike(name)
      PROVE  \E x \in Names : x[1] = s /\ x[2] \in Likes[name]
  <2>1. s \in Existing /\ skills[s] \in Likes[name] /\ <<s, skills[s]>> \in Names
      BY DEF NamedLike, Names
  <2>2. QED  BY <2>1
<1>5. QED  BY <1>2, <1>3, <1>4

\* A step makes at most one request another: it ends, goes on, or is a new one that was
\* checked.
LEMMA ReqStep ==
    ASSUME TypeOK, ReqsChecked, [Next]_vars
    PROVE  \/ reqs' = reqs
           \/ \E r \in Request, q \in Handling : reqs' = [reqs EXCEPT ![r] = q] /\ CheckedRow(q)
<1> DEFINE Becomes(r, q) == q \in Handling /\ CheckedRow(q) /\ reqs' = [reqs EXCEPT ![r] = q]
<1>0. SUFFICES reqs' = reqs \/ \E r \in Request : \E q : Becomes(r, q)
    OBVIOUS
<1>1. ASSUME NEW r \in Request, Done(r)  PROVE \E q : Becomes(r, q)
    BY <1>1, IdleFacts DEF Done
<1>2. ASSUME NEW r \in Request, Goes(r, "validated"),
             Running(r, "checked", "createProfile") \/ Running(r, "checked", "editProfile")
      PROVE  \E q : Becomes(r, q)
  <2> DEFINE q == [reqs[r] EXCEPT !.pc = "validated"]
  <2>1. reqs[r] \in Handling /\ CheckedRow(reqs[r]) /\ reqs[r].op \in {"createProfile", "editProfile"}
      BY <1>2 DEF TypeOK, ReqsChecked, Running
  <2>2. q \in Handling /\ CheckedRow(q)
      BY <2>1 DEF Handling, CheckedRow, Listing
  <2>3. reqs' = [reqs EXCEPT ![r] = q]
      BY <1>2 DEF Goes
  <2>4. QED  BY <2>2, <2>3
<1>3. ASSUME NEW r \in Request, ClearLinks(r)  PROVE \E q : Becomes(r, q)
  <2> DEFINE q == [reqs[r] EXCEPT !.pc = "cleared", !.cleared = links[reqs[r].id]]
  <2>1. reqs[r] \in Handling /\ CheckedRow(reqs[r]) /\ reqs[r].pc = "validated"
      BY <1>3 DEF TypeOK, ReqsChecked, ClearLinks
  <2>2. links[reqs[r].id] \in SUBSET Skill
      BY <2>1 DEF TypeOK, CheckedRow
  <2>3. q \in Handling
      BY <2>1, <2>2 DEF Handling
  <2>4. CheckedRow(q)
      BY <2>1 DEF Handling, CheckedRow
  <2>5. reqs' = [reqs EXCEPT ![r] = q]
      BY <1>3 DEF ClearLinks
  <2>6. QED  BY <2>3, <2>4, <2>5
<1>4. ASSUME NEW r \in Request, JobStep(r)  PROVE \E q : Becomes(r, q)
  <2>1. ASSUME NEW j \in Job, NEW range \in Range, NEW wants \in Wanted,
               CreateJobCheck(r, j, range, wants)
        PROVE  \E q : Becomes(r, q)
    <3> DEFINE q == [IdleReq EXCEPT !.range = range, !.wants = wants,
                                    !.pc = "checked", !.op = "createJob", !.id = j]
    <3>1. q \in Handling /\ CheckedRow(q)
        BY <2>1, IdleFacts, ListingConstants DEF CreateJobCheck, Handling, CheckedRow, IdleReq, Listing
    <3>2. reqs' = [reqs EXCEPT ![r] = q]
        BY <2>1 DEF CreateJobCheck, Starts, IdleReq
    <3>3. QED  BY <3>1, <3>2
  <2>2. ASSUME NEW j \in Job, NEW range \in Range, NEW given \in SUBSET Column,
               NEW new \in Replacement, EditJobCheck(r, j, range, given, new[1], new[2])
        PROVE  \E q : Becomes(r, q)
    <3> DEFINE sets == {c \in Column : range[c] # jobs[j].budget[c]}
               q == [IdleReq EXCEPT !.pc = IF new[1] THEN "validated" ELSE "checked",
                             !.op = "editJob", !.id = j, !.range = range, !.sets = sets,
                             !.replaces = new[1], !.wants = new[2]]
    <3>1. new[1] \in BOOLEAN /\ new[2] \in SUBSET Skill
      <4>1. \/ \E w \in Wanted : new = <<TRUE, w>>
            \/ new = <<FALSE, {}>>
          BY DEF Replacement
      <4>2. ASSUME NEW w \in Wanted, new = <<TRUE, w>>
            PROVE  new[1] \in BOOLEAN /\ new[2] \in SUBSET Skill
          BY <4>2, ListingConstants
      <4>3. CASE new = <<FALSE, {}>>
          BY <4>3
      <4>4. QED  BY <4>1, <4>2, <4>3
    <3>2. sets \in SUBSET Column /\ (sets # {} => InOrder(range))
        BY <2>2 DEF EditJobCheck, AcceptedRange
    <3>3. q \in Handling /\ CheckedRow(q)
        BY <3>1, <3>2, IdleFacts DEF Handling, CheckedRow, IdleReq, Listing
    <3>4. reqs' = [reqs EXCEPT ![r] = q]
        BY <2>2 DEF EditJobCheck
    <3>5. QED  BY <3>3, <3>4
  <2>3. ASSUME CreateJobCommit(r) \/ EditJobCommit(r)  PROVE Done(r)
      BY <2>3 DEF CreateJobCommit, EditJobCommit, RolledBack
  <2>4. QED  BY <1>1, <1>4, <2>1, <2>2, <2>3 DEF JobStep
<1>5. ASSUME NEW r \in Request, ProfileStep(r)  PROVE \E q : Becomes(r, q)
  <2>1. ASSUME NEW p \in Profile, NEW wants \in Wanted, NEW op \in {"createProfile", "editProfile"},
               Starts(r, op, p, [IdleReq EXCEPT !.replaces = TRUE, !.wants = wants])
        PROVE  \E q : Becomes(r, q)
    <3> DEFINE q == [IdleReq EXCEPT !.replaces = TRUE, !.wants = wants,
                                    !.pc = "checked", !.op = op, !.id = p]
    <3>1. q \in Handling /\ CheckedRow(q)
        BY IdleFacts, ListingConstants DEF Handling, CheckedRow, IdleReq, Listing
    <3>2. reqs' = [reqs EXCEPT ![r] = q]
        BY <2>1 DEF Starts, IdleReq
    <3>3. QED  BY <3>1, <3>2
  <2>2. ASSUME InsertProfile(r) \/ EditProfileSave(r)  PROVE \E q : Becomes(r, q)
      BY <1>1, <1>2, <2>2 DEF InsertProfile, EditProfileSave, RolledBack
  <2>3. ASSUME ReplaceSkills(r)  PROVE Done(r)
      BY <2>3 DEF ReplaceSkills, RolledBack
  <2>4. QED  BY <1>1, <1>5, <2>1, <2>2, <2>3 DEF ProfileStep, CreateProfileCheck, EditProfileCheck
<1>6. ASSUME NEW r \in Request, SkillStep(r)  PROVE \E q : Becomes(r, q)
  <2>1. ASSUME NEW s \in Skill, NEW name \in Name,
               CreateSkillCheck(r, s, name) \/ RenameSkillCheck(r, s, name)
        PROVE  \E q : Becomes(r, q)
    <3> DEFINE op == IF skills[s] = "NONE" THEN "createSkill" ELSE "renameSkill"
               q == [IdleReq EXCEPT !.name = name, !.names = Names,
                                    !.pc = "checked", !.op = op, !.id = s]
    <3>1. skills[s] = "NONE" <=> CreateSkillCheck(r, s, name)
        BY <2>1, ListingConstants DEF CreateSkillCheck, RenameSkillCheck, Existing
    <3>2. q \in Handling
        BY NamesFacts, IdleFacts DEF Handling, IdleReq
    <3>3. CheckedRow(q)
      <4>1. CASE CreateSkillCheck(r, s, name)
          BY <3>1, <4>1, NamesFacts, IdleFacts DEF CreateSkillCheck, CheckedRow, IdleReq
      <4>2. CASE ~CreateSkillCheck(r, s, name)
          BY <2>1, <3>1, <4>2, NamesFacts, IdleFacts DEF RenameSkillCheck, CheckedRow, IdleReq
      <4>3. QED  BY <4>1, <4>2
    <3>4. reqs' = [reqs EXCEPT ![r] = q]
        BY <2>1, <3>1 DEF CreateSkillCheck, RenameSkillCheck, Starts, IdleReq
    <3>5. QED  BY <3>2, <3>3, <3>4
  <2>2. ASSUME NameSkill(r)  PROVE Done(r)
      BY <2>2 DEF NameSkill, RolledBack
  <2>3. QED  BY <1>1, <1>6, <2>1, <2>2 DEF SkillStep
<1>7. QED
    BY <1>1, <1>3, <1>4, <1>5, <1>6
    DEF Next, vars, Die, RolledBack, CloseJob, DeleteJob, DeleteProfile, DeleteSkill

LEMMA ReqsStayChecked ==
    ASSUME TypeOK, ReqsChecked, [Next]_vars
    PROVE  ReqsChecked' /\ reqs' \in [Request -> Handling]
<1>1. CASE reqs' = reqs
    BY <1>1 DEF ReqsChecked, CheckedRow, InOrder, TypeOK, Listing
<1>2. ASSUME NEW r \in Request, NEW q \in Handling, reqs' = [reqs EXCEPT ![r] = q], CheckedRow(q)
      PROVE  ReqsChecked' /\ reqs' \in [Request -> Handling]
  <2>1. \A t \in Request : reqs'[t] = IF t = r THEN q ELSE reqs[t]
      BY <1>2 DEF TypeOK
  <2>2. ReqsChecked'
      BY <1>2, <2>1 DEF ReqsChecked
  <2>3. QED  BY <1>2, <2>2 DEF TypeOK
<1>3. QED  BY <1>1, <1>2, ReqStep

-----------------------------------------------------------------------------
(* The tables *)

\* Each change of a table, by name.
LEMMA TableCases ==
    ASSUME [Next]_vars
    PROVE  \/ UNCHANGED tables
           \/ \E r \in Request : \/ CreateJobCommit(r) \/ EditJobCommit(r) \/ InsertProfile(r)
                                \/ ReplaceSkills(r) \/ NameSkill(r)
           \/ \E j \in Job : CloseJob(j) \/ DeleteJob(j)
           \/ \E p \in Profile : DeleteProfile(p)
           \/ \E s \in Skill : DeleteSkill(s)
<1>1. ASSUME NEW r \in Request, JobStep(r)
      PROVE  UNCHANGED tables \/ CreateJobCommit(r) \/ EditJobCommit(r)
    BY <1>1 DEF JobStep, CreateJobCheck, EditJobCheck, Starts
<1>2. ASSUME NEW r \in Request, ProfileStep(r)
      PROVE  UNCHANGED tables \/ InsertProfile(r) \/ ReplaceSkills(r)
    BY <1>2 DEF ProfileStep, CreateProfileCheck, EditProfileCheck, Starts, EditProfileSave, RolledBack
<1>3. ASSUME NEW r \in Request, SkillStep(r)  PROVE UNCHANGED tables \/ NameSkill(r)
    BY <1>3 DEF SkillStep, CreateSkillCheck, RenameSkillCheck, Starts
<1>4. ASSUME NEW r \in Request, ClearLinks(r) \/ Die(r)  PROVE UNCHANGED tables
    BY <1>4 DEF ClearLinks, Die, RolledBack
<1>5. CASE UNCHANGED vars
    BY <1>5 DEF vars, tables
<1>6. QED  BY <1>1, <1>2, <1>3, <1>4, <1>5 DEF Next

\* A transaction writes links of one listing, to skills that exist, while it exists.
LEMMA LinksStep ==
    ASSUME ListingsInv, NEW l \in Listing, NEW wants, NEW kept \in SUBSET links[l],
           links' = [links EXCEPT ![l] = kept \cup wants], wants \subseteq Existing,
           Exists(l)', UNCHANGED skills,
           \A m \in Listing \ {l} : Exists(m) => Exists(m)'
    PROVE  links' \in [Listing -> SUBSET Skill] /\ LinksAreGrounded'
    BY DEF ListingsInv, TypeOK, LinksAreGrounded, Existing

LEMMA JobTables ==
    ASSUME ListingsInv, NEW j \in Job, NEW row, row \in [status : LiveJob \cup {"DELETED"}, budget : Range],
           jobs' = [jobs EXCEPT ![j] = row], UNCHANGED profiles
    PROVE  /\ jobs' \in [Job -> [status : LiveJob \cup {"NONE", "DELETED"}, budget : Range]]
           /\ Exists(j)' <=> row.status \in LiveJob
           /\ \A m \in Listing \ {j} : Exists(m)' <=> Exists(m)
<1>1. jobs \in [Job -> [status : LiveJob \cup {"NONE", "DELETED"}, budget : Range]]
    BY DEF ListingsInv, TypeOK
<1>2. jobs'[j] = row /\ \A i \in Job \ {j} : jobs'[i] = jobs[i]
    BY <1>1
<1>3. jobs' \in [Job -> [status : LiveJob \cup {"NONE", "DELETED"}, budget : Range]]
    BY <1>1
<1>4. (Exists(j)' <=> row.status \in LiveJob) /\ \A m \in Listing \ {j} : Exists(m)' <=> Exists(m)
    BY <1>2 DEF Exists, Listing
<1>5. QED  BY <1>3, <1>4

LEMMA TablesStay ==
    ASSUME ListingsInv, [Next]_vars
    PROVE  /\ jobs' \in [Job -> [status : LiveJob \cup {"NONE", "DELETED"}, budget : Range]]
           /\ profiles' \subseteq Profile
           /\ skills' \in [Skill -> Name \cup {"NONE", "DELETED"}]
           /\ links' \in [Listing -> SUBSET Skill]
           /\ LinksAreGrounded'
<1> DEFINE Good == /\ jobs' \in [Job -> [status : LiveJob \cup {"NONE", "DELETED"}, budget : Range]]
                   /\ profiles' \subseteq Profile
                   /\ skills' \in [Skill -> Name \cup {"NONE", "DELETED"}]
                   /\ links' \in [Listing -> SUBSET Skill]
                   /\ LinksAreGrounded'
<1>1. CASE UNCHANGED tables
    BY <1>1 DEF tables, ListingsInv, TypeOK, LinksAreGrounded, Exists, Existing
<1>2. ASSUME NEW r \in Request, CreateJobCommit(r), ~UNCHANGED tables  PROVE Good
  <2>1. PICK q \in Handling : q = reqs[r] /\ q.id \in Job
      BY <1>2 DEF CreateJobCommit, Running, ListingsInv, TypeOK, ReqsChecked, CheckedRow
  <2> DEFINE row == [status |-> "OPEN", budget |-> q.range]
  <2>2. /\ jobs[q.id].status = "NONE" /\ q.wants \subseteq Existing
        /\ jobs' = [jobs EXCEPT ![q.id] = row] /\ links' = [links EXCEPT ![q.id] = {} \cup q.wants]
        /\ UNCHANGED <<profiles, skills>>
      BY <1>2, <2>1 DEF CreateJobCommit, RolledBack
  <2>3. row \in [status : LiveJob \cup {"DELETED"}, budget : Range] /\ row.status \in LiveJob
      BY <2>1 DEF Handling, LiveJob
  <2> HIDE DEF row
  <2>4. /\ jobs' \in [Job -> [status : LiveJob \cup {"NONE", "DELETED"}, budget : Range]]
        /\ Exists(q.id)' /\ \A m \in Listing \ {q.id} : Exists(m)' <=> Exists(m)
      BY <2>1, <2>2, <2>3, JobTables
  <2>5. q.id \in Listing /\ {} \in SUBSET links[q.id]
      BY <2>1 DEF Listing
  <2>6. links' \in [Listing -> SUBSET Skill] /\ LinksAreGrounded'
    <3>1. \A m \in Listing \ {q.id} : Exists(m) => Exists(m)'
        BY <2>4
    <3>2. QED  BY <2>2, <2>4, <2>5, <3>1, LinksStep
  <2>7. QED  BY <2>2, <2>4, <2>6 DEF ListingsInv, TypeOK
<1>3. ASSUME NEW r \in Request, EditJobCommit(r), ~UNCHANGED tables  PROVE Good
  <2>1. PICK q \in Handling : q = reqs[r] /\ q.id \in Job
      BY <1>3 DEF EditJobCommit, Running, ListingsInv, TypeOK, ReqsChecked, CheckedRow
  <2> DEFINE row == [jobs[q.id] EXCEPT !.budget = Written(q, jobs[q.id].budget)]
  <2>2. /\ Exists(q.id) /\ (q.replaces => CanLink(q.id, q.wants, Kept(r)))
        /\ jobs' = [jobs EXCEPT ![q.id].budget = Written(q, @)]
        /\ links' = IF q.replaces THEN [links EXCEPT ![q.id] = Kept(r) \cup q.wants] ELSE links
        /\ UNCHANGED <<profiles, skills>>
      BY <1>3, <2>1 DEF EditJobCommit, RolledBack
  <2>3. /\ jobs[q.id] \in [status : LiveJob \cup {"NONE", "DELETED"}, budget : Range]
        /\ jobs[q.id].status \in LiveJob
      BY <2>1, <2>2 DEF ListingsInv, TypeOK, Exists
  <2>4. Written(q, jobs[q.id].budget) \in Range
      BY <2>1, <2>3 DEF Written, Range, Handling
  <2>5. row \in [status : LiveJob \cup {"DELETED"}, budget : Range] /\ row.status \in LiveJob
      BY <2>3, <2>4
  <2>6. jobs' = [jobs EXCEPT ![q.id] = row]
      BY <2>2
  <2> HIDE DEF row
  <2>7. /\ jobs' \in [Job -> [status : LiveJob \cup {"NONE", "DELETED"}, budget : Range]]
        /\ Exists(q.id)' /\ \A m \in Listing \ {q.id} : Exists(m)' <=> Exists(m)
      BY <2>1, <2>2, <2>5, <2>6, JobTables
  <2>8. CASE q.replaces
    <3>1. q.wants \subseteq Existing /\ Kept(r) \in SUBSET links[q.id]
        BY <2>1, <2>2, <2>8 DEF CanLink, Kept
    <3>2. links' \in [Listing -> SUBSET Skill] /\ LinksAreGrounded'
        BY <2>1, <2>2, <2>7, <2>8, <3>1, LinksStep DEF Listing
    <3>3. QED  BY <2>2, <2>7, <3>2 DEF ListingsInv, TypeOK
  <2>9. CASE ~q.replaces
    <3>1. \A m \in Listing : Exists(m) => Exists(m)'
        BY <2>7
    <3>2. QED  BY <2>2, <2>7, <2>9, <3>1 DEF ListingsInv, TypeOK, LinksAreGrounded, Existing
  <2>10. QED  BY <2>8, <2>9
<1>4. ASSUME NEW r \in Request, InsertProfile(r)  PROVE Good
  <2>1. CASE UNCHANGED tables
      BY <1>1, <2>1
  <2>2. CASE ~UNCHANGED tables
    <3>1. profiles' = profiles \cup {reqs[r].id} /\ UNCHANGED <<jobs, skills, links>>
        BY <1>4, <2>2 DEF InsertProfile, RolledBack
    <3>2. reqs[r].id \in Profile
        BY <1>4 DEF InsertProfile, Running, ListingsInv, ReqsChecked, CheckedRow
    <3>3. \A m \in Listing : Exists(m) => Exists(m)'
        BY <3>1 DEF Exists
    <3>4. QED  BY <3>1, <3>2, <3>3 DEF ListingsInv, TypeOK, LinksAreGrounded, Existing
  <2>3. QED  BY <2>1, <2>2
<1>5. ASSUME NEW r \in Request, ReplaceSkills(r), ~UNCHANGED tables  PROVE Good
  <2>1. PICK q \in Handling : q = reqs[r] /\ q.id \in Listing
      BY <1>5 DEF ReplaceSkills, ListingsInv, TypeOK, ReqsChecked, CheckedRow
  <2>2. /\ Exists(q.id) /\ q.wants \subseteq Existing
        /\ links' = [links EXCEPT ![q.id] = Kept(r) \cup q.wants]
        /\ UNCHANGED <<jobs, profiles, skills>>
      BY <1>5, <2>1 DEF ReplaceSkills, RolledBack, CanLink, CanLinkAny
  <2>3. \A m \in Listing : Exists(m)' <=> Exists(m)
      BY <2>2 DEF Exists
  <2>4. Kept(r) \in SUBSET links[q.id]
      BY <2>1 DEF Kept
  <2>5. links' \in [Listing -> SUBSET Skill] /\ LinksAreGrounded'
      BY <2>1, <2>2, <2>3, <2>4, LinksStep
  <2>6. QED  BY <2>2, <2>5 DEF ListingsInv, TypeOK
<1>6. ASSUME NEW r \in Request, NameSkill(r), ~UNCHANGED tables  PROVE Good
  <2>1. reqs[r].id \in Skill /\ reqs[r].name \in Name
      BY <1>6 DEF NameSkill, Running, ListingsInv, ReqsChecked, CheckedRow
  <2>2. skills' = [skills EXCEPT ![reqs[r].id] = reqs[r].name] /\ UNCHANGED <<jobs, profiles, links>>
      BY <1>6 DEF NameSkill, RolledBack
  <2>3. skills' \in [Skill -> Name \cup {"NONE", "DELETED"}] /\ Existing \subseteq Existing'
      BY <2>1, <2>2 DEF ListingsInv, TypeOK, Existing
  <2>4. \A m \in Listing : Exists(m)' <=> Exists(m)
      BY <2>2 DEF Exists
  <2>5. QED  BY <2>2, <2>3, <2>4 DEF ListingsInv, TypeOK, LinksAreGrounded
<1>7. ASSUME NEW j \in Job, CloseJob(j) \/ DeleteJob(j)  PROVE Good
  <2>1. CASE CloseJob(j)
    <3> DEFINE row == [jobs[j] EXCEPT !.status = "CLOSED"]
    <3>1. row \in [status : LiveJob \cup {"DELETED"}, budget : Range] /\ row.status \in LiveJob
        BY DEF ListingsInv, TypeOK, LiveJob
    <3>2. jobs' = [jobs EXCEPT ![j] = row] /\ UNCHANGED <<profiles, skills, links>>
        BY <2>1 DEF CloseJob
    <3> HIDE DEF row
    <3>3. /\ jobs' \in [Job -> [status : LiveJob \cup {"NONE", "DELETED"}, budget : Range]]
          /\ \A m \in Listing : Exists(m) => Exists(m)'
        BY <3>1, <3>2, JobTables
    <3>4. QED  BY <3>2, <3>3 DEF ListingsInv, TypeOK, LinksAreGrounded, Existing
  <2>2. CASE DeleteJob(j)
    <3> DEFINE row == [status |-> "DELETED", budget |-> NoRange]
    <3>1. row \in [status : LiveJob \cup {"DELETED"}, budget : Range]
        BY NoRangeFacts
    <3>2. /\ jobs' = [jobs EXCEPT ![j] = row] /\ links' = [links EXCEPT ![j] = {}]
          /\ UNCHANGED <<profiles, skills>>
        BY <2>2 DEF DeleteJob
    <3> HIDE DEF row
    <3>3. /\ jobs' \in [Job -> [status : LiveJob \cup {"NONE", "DELETED"}, budget : Range]]
          /\ \A m \in Listing \ {j} : Exists(m) => Exists(m)'
        BY <3>1, <3>2, JobTables
    <3>4. QED  BY <3>2, <3>3 DEF ListingsInv, TypeOK, LinksAreGrounded, Existing, Listing
  <2>3. QED  BY <1>7, <2>1, <2>2
<1>8. ASSUME NEW p \in Profile, DeleteProfile(p)  PROVE Good
  <2>1. \A m \in Listing \ {p} : Exists(m) => Exists(m)'
      BY <1>8 DEF DeleteProfile, Exists
  <2>2. QED  BY <1>8, <2>1 DEF DeleteProfile, ListingsInv, TypeOK, LinksAreGrounded, Existing
<1>9. ASSUME NEW s \in Skill, DeleteSkill(s)  PROVE Good
  <2>1. \A m \in Listing : Exists(m)' <=> Exists(m)
      BY <1>9 DEF DeleteSkill, Exists
  <2>2. Existing' = Existing \ {s}
      BY <1>9, ListingConstants DEF DeleteSkill, Existing, ListingsInv, TypeOK
  <2>3. QED  BY <1>9, <2>1, <2>2 DEF DeleteSkill, ListingsInv, TypeOK, LinksAreGrounded
<1>10. QED
    BY <1>1, <1>2, <1>3, <1>4, <1>5, <1>6, <1>7, <1>8, <1>9, TableCases

-----------------------------------------------------------------------------
\* The invariant: what checks have established, types, and links that are grounded.
THEOREM ListingsConsistent == Spec => []ListingsInv
<1>1. Init => ListingsInv
  <2> SUFFICES ASSUME Init  PROVE ListingsInv
      OBVIOUS
  <2>1. TypeOK
      BY NoRangeFacts, IdleFacts DEF Init, TypeOK, Listing
  <2>2. ReqsChecked
      BY IdleFacts DEF Init, ReqsChecked
  <2>3. LinksAreGrounded
      BY DEF Init, LinksAreGrounded
  <2>4. QED  BY <2>1, <2>2, <2>3 DEF ListingsInv
<1>2. ListingsInv /\ [Next]_vars => ListingsInv'
  <2> SUFFICES ASSUME ListingsInv, [Next]_vars  PROVE ListingsInv'
      OBVIOUS
  <2>1. ReqsChecked' /\ reqs' \in [Request -> Handling]
      BY ReqsStayChecked DEF ListingsInv
  <2>2. QED  BY <2>1, TablesStay DEF ListingsInv, TypeOK
<1>3. QED  BY <1>1, <1>2, PTL DEF Spec

\* Every variable of the listings keeps its type, for any number of jobs, profiles,
\* skills and handlers.
THEOREM ListingsTyped == Spec => []TypeOK
<1>1. ListingsInv => TypeOK
    BY DEF ListingsInv
<1>2. QED  BY <1>1, ListingsConsistent, PTL

\* However edits, renames and deletions overlap, a job or profile is linked only to skills
\* that exist, and only while it exists.
THEOREM LinksStayGrounded == Spec => []LinksAreGrounded
<1>1. ListingsInv => LinksAreGrounded
    BY DEF ListingsInv
<1>2. QED  BY <1>1, ListingsConsistent, PTL

-----------------------------------------------------------------------------
(* What a check was told, and what its commit meets *)

LEMMA BudgetStep ==
    ASSUME ListingsInv, [Next]_vars  PROVE BudgetsCrossWhenStale
<1> SUFFICES ASSUME NEW j \in Job, InOrder(jobs[j].budget), ~InOrder(jobs'[j].budget)
             PROVE  \E r \in Request : /\ reqs[r].id = j
                        /\ \E c \in Column \ reqs[r].sets : reqs[r].range[c] # jobs[j].budget[c]
    BY DEF BudgetsCrossWhenStale
<1>1. jobs # jobs' /\ jobs[j] \in [status : LiveJob \cup {"NONE", "DELETED"}, budget : Range]
    BY DEF ListingsInv, TypeOK
<1>2. ASSUME NEW r \in Request, CreateJobCommit(r)  PROVE FALSE
  <2>1. reqs[r].id \in Job /\ InOrder(reqs[r].range)
      BY <1>2 DEF CreateJobCommit, Running, ListingsInv, ReqsChecked, CheckedRow
  <2>2. jobs' = [jobs EXCEPT ![reqs[r].id] = [status |-> "OPEN", budget |-> reqs[r].range]]
      BY <1>1, <1>2 DEF CreateJobCommit, RolledBack, tables
  <2>3. jobs'[j].budget = jobs[j].budget \/ jobs'[j].budget = reqs[r].range
      BY <2>1, <2>2 DEF ListingsInv, TypeOK
  <2>4. QED  BY <2>1, <2>3 DEF InOrder
<1>3. ASSUME NEW r \in Request, EditJobCommit(r),
             \A c \in Column \ reqs[r].sets : reqs[r].range[c] = jobs[j].budget[c]
      PROVE  reqs[r].id # j
  <2> SUFFICES ASSUME reqs[r].id = j  PROVE FALSE
      OBVIOUS
  <2>1. PICK q \in Handling : q = reqs[r] /\ q.op = "editJob" /\ CheckedRow(q)
      BY <1>3 DEF EditJobCommit, Running, ListingsInv, TypeOK, ReqsChecked
  <2>2. jobs' = [jobs EXCEPT ![j].budget = Written(q, @)]
      BY <1>1, <1>3, <2>1 DEF EditJobCommit, RolledBack, tables
  <2>3. jobs'[j].budget = Written(q, jobs[j].budget)
      BY <1>1, <2>2 DEF ListingsInv, TypeOK
  <2>4. \A c \in Column : Written(q, jobs[j].budget)[c] = q.range[c]
      BY <1>3, <2>1 DEF Written
  <2>5. q.sets # {}
      BY <1>1, <2>1, <2>3 DEF Written, InOrder, Column
  <2>6. InOrder(q.range)
      BY <2>1, <2>5 DEF CheckedRow
  <2>7. QED  BY <2>3, <2>4, <2>6 DEF InOrder, Column
<1>4. ASSUME NEW r \in Request, EditJobCommit(r)  PROVE reqs[r].id = j
  <2>1. \E q \in Handling : q = reqs[r] /\ q.id \in Job
      BY <1>4 DEF EditJobCommit, Running, ListingsInv, TypeOK, ReqsChecked, CheckedRow
  <2>2. jobs' = [jobs EXCEPT ![reqs[r].id].budget = Written(reqs[r], @)]
      BY <1>1, <1>4 DEF EditJobCommit, RolledBack, tables
  <2>3. QED  BY <2>1, <2>2 DEF ListingsInv, TypeOK
<1>5. ASSUME NEW i \in Job, CloseJob(i) \/ DeleteJob(i)  PROVE FALSE
  <2>1. jobs'[j].budget = jobs[j].budget \/ jobs'[j].budget = NoRange
      BY <1>5 DEF CloseJob, DeleteJob, ListingsInv, TypeOK
  <2>2. QED  BY <2>1, NoRangeFacts DEF InOrder
<1>6. \E r \in Request : EditJobCommit(r)
    BY <1>1, <1>2, <1>5, TableCases
    DEF tables, InsertProfile, ReplaceSkills, NameSkill, RolledBack, DeleteProfile, DeleteSkill
<1>7. QED  BY <1>3, <1>4, <1>6

LEMMA NamesStep ==
    ASSUME ListingsInv, [Next]_vars  PROVE NamesClashWhenStaleOrMisread
<1> SUFFICES ASSUME NEW s \in Skill, NEW t \in Skill, s # t, {s, t} \subseteq Existing',
                    Fold[skills'[s]] = Fold[skills'[t]],
                    ~({s, t} \subseteq Existing /\ Fold[skills[s]] = Fold[skills[t]])
             PROVE  \E r \in Request : /\ reqs[r].id \in {s, t}
                                    /\ (reqs[r].names # Names \/ Misread(reqs[r]))
    BY DEF NamesClashWhenStaleOrMisread
<1>1. skills # skills'
    BY DEF Existing
<1>2. ASSUME NEW r \in Request, NameSkill(r)
      PROVE  reqs[r].id \in {s, t} /\ (reqs[r].names # Names \/ Misread(reqs[r]))
  <2>1. PICK q \in Handling : /\ q = reqs[r] /\ q.id \in Skill /\ q.name \in Name
                              /\ q.op \in {"createSkill", "renameSkill"} /\ CheckedRow(q)
      BY <1>2 DEF NameSkill, Running, ListingsInv, TypeOK, ReqsChecked, CheckedRow
  <2>2. skills' = [skills EXCEPT ![q.id] = q.name]
      BY <1>1, <1>2, <2>1 DEF NameSkill, RolledBack, tables
  <2>3. /\ skills \in [Skill -> Name \cup {"NONE", "DELETED"}] /\ skills'[q.id] = q.name
        /\ \A u \in Skill \ {q.id} : skills'[u] = skills[u] /\ (u \in Existing' => u \in Existing)
      BY <2>1, <2>2 DEF ListingsInv, TypeOK, Existing
  <2>4. q.id \in {s, t}
      BY <2>3
  <2>5. PICK u \in {s, t} : u # q.id /\ u \in Existing /\ Fold[skills[u]] = Fold[q.name]
      BY <2>3, <2>4
  <2>6. q.names # Names \/ Misread(q)
    <3> SUFFICES ASSUME q.names = Names, ~Misread(q)  PROVE FALSE
        OBVIOUS
    \* The pattern finds the other skill, so the check passed by finding the skill itself.
    <3>1. skills[u] \in Name /\ skills[u] \in Likes[q.name]
        BY <2>5 DEF Misread, Existing
    <3>2. <<u, skills[u]>> \in q.names /\ (<<u, skills[u]>>)[2] \in Likes[q.name]
        BY <2>5, <3>1 DEF Names
    <3>3. PICK x \in Names : q.op = "renameSkill" /\ x[1] = q.id /\ x[2] \in Likes[q.name]
        BY <2>1, <3>2 DEF CheckedRow
    <3>4. PICK v \in Existing : x = <<v, skills[v]>>
        BY DEF Names
    \* What found itself was of this name already, and so clashed before.
    <3>5. q.id \in Existing /\ Fold[skills[q.id]] = Fold[q.name]
        BY <3>3, <3>4 DEF Misread
    <3>6. QED  BY <2>4, <2>5, <3>5
  <2>7. QED  BY <2>1, <2>4, <2>6
<1>3. ASSUME NEW u \in Skill, DeleteSkill(u)  PROVE FALSE
    BY <1>3, ListingConstants DEF DeleteSkill, Existing, ListingsInv, TypeOK
<1>4. \E r \in Request : NameSkill(r)
    BY <1>1, <1>3, TableCases
    DEF tables, CreateJobCommit, EditJobCommit, InsertProfile, ReplaceSkills, RolledBack,
        CloseJob, DeleteJob, DeleteProfile
<1>5. QED  BY <1>2, <1>4

\* An edit crosses a budget only through a check that has gone stale before its commit, and
\* two skills get one name but for its case only through a stale check or one whose name
\* ILIKE did not take literally: what a check decides is right when nothing changes under
\* it and the name is no pattern.
THEOREM ChecksAreSound == Spec => OnlyStaleOrMisreadChecksLetThrough
<1>1. ListingsInv /\ [Next]_vars => [BudgetsCrossWhenStale /\ NamesClashWhenStaleOrMisread]_vars
    BY BudgetStep, NamesStep
<1>2. QED  BY <1>1, ListingsConsistent, PTL DEF Spec, OnlyStaleOrMisreadChecksLetThrough
=============================================================================
