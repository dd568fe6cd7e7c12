------------------------------ MODULE Listings ------------------------------
(***************************************************************************)
(* What users list: jobs with a budget (job_service.py), freelancer        *)
(* profiles (profile_service.py) and the skills that both refer to         *)
(* (skill_service.py), through the tables job_skills and freelancer_skills. *)
(*                                                                         *)
(* A handler reads and checks first and commits later.  To replace the     *)
(* skills of a listing is DELETE and then INSERT in one transaction, at    *)
(* READ COMMITTED: the DELETE sees, and locks, the rows that are committed *)
(* when it runs, and none that a concurrent transaction adds.              *)
(***************************************************************************)
EXTENDS Naturals

CONSTANTS
    Job, Profile,    \* ids; a profile goes by its user, for user_id is unique
    Skill,           \* ids: each names one row, once
    Name, Fold,      \* names of skills, and each without its case
    Likes,           \* the names that each matches as a pattern of ILIKE (PostgreSQL's)
    Amount,          \* budgets
    Wanted,          \* bound: the sets of skills that a request may ask for
    Request, NoId

ASSUME ListingConstants ==
    /\ Job \cap Profile = {} /\ NoId \notin Job \cup Profile \cup Skill
    /\ Name \cap {"NONE", "DELETED"} = {} /\ DOMAIN Fold = Name
    /\ Likes \in [Name -> SUBSET Name]
    /\ Amount \subseteq Nat /\ Amount # {} /\ Wanted \subseteq SUBSET Skill

VARIABLES
    jobs,        \* job -> [status, budget]
    profiles,    \* the users that have a profile
    skills,      \* skill -> its name
    links,       \* job or profile -> the skills it is linked to
    reqs         \* request -> what its handler is doing

tables == <<jobs, profiles, skills, links>>
vars == <<jobs, profiles, skills, links, reqs>>

-----------------------------------------------------------------------------
Listing == Job \cup Profile
Column == {"min", "max"}                 \* budget_min, budget_max
Range == [Column -> Amount]
NoRange == [c \in Column |-> CHOOSE a \in Amount : TRUE]
InOrder(range) == range["min"] <= range["max"]

\* OPEN: DRAFT or PUBLISHED, and without a contract.
LiveJob == {"OPEN", "CLOSED"}
Exists(l) == IF l \in Job THEN jobs[l].status \in LiveJob ELSE l \in profiles
Existing == {s \in Skill : skills[s] \in Name}
Names == {<<s, skills[s]>> : s \in Existing}

\* range, sets: the budget as it was checked, and the columns of it to write.
\* replaces, wants: whether the skills are replaced, and by which.  cleared: the links
\* that the open transaction has deleted.  name, names: a skill's new name, and the
\* names that the skills had when it was checked.
IdleReq ==
    [pc |-> "idle", op |-> "none", id |-> NoId,
     range |-> NoRange, sets |-> {},
     replaces |-> FALSE, wants |-> {}, cleared |-> {}, name |-> "NONE", names |-> {}]

Init ==
    /\ jobs = [j \in Job |-> [status |-> "NONE", budget |-> NoRange]]
    /\ profiles = {}
    /\ skills = [s \in Skill |-> "NONE"]
    /\ links = [l \in Listing |-> {}]
    /\ reqs = [r \in Request |-> IdleReq]

-----------------------------------------------------------------------------
(* The steps every handler is made of. *)

Starts(r, op, id, req) ==
    /\ reqs[r].pc = "idle"
    /\ reqs' = [reqs EXCEPT ![r] = [req EXCEPT !.pc = "checked", !.op = op, !.id = id]]
    /\ UNCHANGED tables

Running(r, pc, op) == reqs[r].pc = pc /\ reqs[r].op = op
Goes(r, pc) == reqs' = [reqs EXCEPT ![r].pc = pc]
Done(r) == reqs' = [reqs EXCEPT ![r] = IdleReq]
RolledBack(r) == Done(r) /\ UNCHANGED tables

\* The DELETE of replace_skills and of job_repository.update.
ClearLinks(r) ==
    /\ reqs[r].pc = "validated"
    /\ reqs' = [reqs EXCEPT ![r].pc = "cleared", ![r].cleared = links[reqs[r].id]]
    /\ UNCHANGED tables
\* The links that the transaction did not delete: others have added them since.
Kept(r) == links[reqs[r].id] \ reqs[r].cleared

\* A mutant: nothing refers to skills with a foreign key.
CanLinkAny(l, wants, kept) == wants \cap kept = {} /\ Exists(l)
\* The INSERT: the unique key and the foreign keys of the two link tables.
CanLink(l, wants, kept) == CanLinkAny(l, wants, kept) /\ wants \subseteq Existing

\* A row that an open transaction has deleted cannot be deleted before it ends.
Locked(l) == {s \in Skill : \E r \in Request : reqs[r].id = l /\ s \in reqs[r].cleared}

-----------------------------------------------------------------------------
(* Jobs. *)

\* JobCreateRequest has checked the range.
CreateJobCheck(r, j, range, wants) ==
    /\ jobs[j].status = "NONE" /\ InOrder(range)
    /\ wants \subseteq Existing
    /\ Starts(r, "createJob", j, [IdleReq EXCEPT !.range = range, !.wants = wants])

CreateJobCommit(r) ==
    /\ Running(r, "checked", "createJob")
    /\ LET q == reqs[r] IN
       IF jobs[q.id].status = "NONE" /\ q.wants \subseteq Existing
         THEN /\ jobs' = [jobs EXCEPT ![q.id] = [status |-> "OPEN", budget |-> q.range]]
              /\ links' = [links EXCEPT ![q.id] = q.wants]
              /\ Done(r) /\ UNCHANGED <<profiles, skills>>
         ELSE RolledBack(r)

\* A mutant: the range is looked at only if both ends of it are given.
AcceptedWhenBoth(given, range) == given = Column => InOrder(range)
\* update_job compares as soon as one end is given, with the other as it was read.
AcceptedRange(given, range) == given # {} => InOrder(range)

\* The ends that are not given stay as they were read, and only what differs from it
\* is written.  An edit of neither budget nor skills changes nothing that is modelled.
EditJobCheck(r, j, range, given, replaces, wants) ==
    /\ reqs[r].pc = "idle" /\ jobs[j].status = "OPEN"
    /\ wants \subseteq Existing
    /\ AcceptedRange(given, range)
    /\ LET sets == {c \in Column : range[c] # jobs[j].budget[c]} IN
       /\ sets \subseteq given /\ (sets # {} \/ replaces)
       /\ reqs' = [reqs EXCEPT ![r] =
             [IdleReq EXCEPT !.pc = IF replaces THEN "validated" ELSE "checked",
                             !.op = "editJob", !.id = j, !.range = range, !.sets = sets,
                             !.replaces = replaces, !.wants = wants]]
    /\ UNCHANGED tables

\* A mutant: a column that is not given is written as zero.
WrittenWithZeros(q, old) == [c \in Column |-> IF c \in q.sets THEN q.range[c] ELSE 0]
Written(q, old) == [c \in Column |-> IF c \in q.sets THEN q.range[c] ELSE old[c]]

\* One transaction for the columns and the links; neither the status nor the budget is
\* looked at again.
EditJobCommit(r) ==
    /\ Running(r, IF reqs[r].replaces THEN "cleared" ELSE "checked", "editJob")
    /\ LET q == reqs[r] IN
       IF Exists(q.id) /\ (q.replaces => CanLink(q.id, q.wants, Kept(r)))
         THEN /\ jobs' = [jobs EXCEPT ![q.id].budget = Written(q, @)]
              /\ links' = IF q.replaces THEN [links EXCEPT ![q.id] = Kept(r) \cup q.wants]
                          ELSE links
              /\ Done(r) /\ UNCHANGED <<profiles, skills>>
         ELSE RolledBack(r)

\* change_status, and the acceptance of a proposal.
CloseJob(j) ==
    /\ jobs[j].status = "OPEN"
    /\ jobs' = [jobs EXCEPT ![j].status = "CLOSED"]
    /\ UNCHANGED <<profiles, skills, links, reqs>>

\* delete_job: the cascade of the ORM and ON DELETE CASCADE take the links along.
DeleteJob(j) ==
    /\ Exists(j) /\ Locked(j) = {}
    /\ jobs' = [jobs EXCEPT ![j] = [status |-> "DELETED", budget |-> NoRange]]
    /\ links' = [links EXCEPT ![j] = {}]
    /\ UNCHANGED <<profiles, skills, reqs>>

-----------------------------------------------------------------------------
(* Profiles: the row is committed first, then the skills in a transaction of their own. *)

CreateProfileCheck(r, p, wants) ==
    /\ p \notin profiles /\ wants \subseteq Existing
    /\ Starts(r, "createProfile", p, [IdleReq EXCEPT !.replaces = TRUE, !.wants = wants])

\* user_id is unique.
InsertProfile(r) ==
    /\ Running(r, "checked", "createProfile")
    /\ IF reqs[r].id \notin profiles
         THEN /\ profiles' = profiles \cup {reqs[r].id}
              /\ Goes(r, "validated") /\ UNCHANGED <<jobs, skills, links>>
         ELSE RolledBack(r)

\* An update that has skills: the fields alone are not modelled.  The skills are not
\* validated here.
EditProfileCheck(r, p, wants) ==
    /\ p \in profiles
    /\ Starts(r, "editProfile", p, [IdleReq EXCEPT !.replaces = TRUE, !.wants = wants])

\* The fields are committed, and only then are the skills validated: when they are
\* refused, the fields stay.
EditProfileSave(r) ==
    /\ Running(r, "checked", "editProfile")
    /\ LET q == reqs[r] IN
       IF q.id \in profiles /\ q.wants \subseteq Existing
         THEN Goes(r, "validated") /\ UNCHANGED tables
         ELSE RolledBack(r)

ReplaceSkills(r) ==
    /\ reqs[r].pc = "cleared" /\ reqs[r].op \in {"createProfile", "editProfile"}
    /\ LET q == reqs[r] IN
       IF CanLink(q.id, q.wants, Kept(r))
         THEN /\ links' = [links EXCEPT ![q.id] = Kept(r) \cup q.wants]
              /\ Done(r) /\ UNCHANGED <<jobs, profiles, skills>>
         ELSE RolledBack(r)

DeleteProfile(p) ==
    /\ p \in profiles /\ Locked(p) = {}
    /\ profiles' = profiles \ {p}
    /\ links' = [links EXCEPT ![p] = {}]
    /\ UNCHANGED <<jobs, skills, reqs>>

-----------------------------------------------------------------------------
(* Skills. *)

\* get_by_name gives the name to ILIKE as it is: `_` and `%` stand for other characters
\* and `\` for none.
NamedLike(name) == {s \in Existing : skills[s] \in Likes[name]}

CreateSkillCheck(r, s, name) ==
    /\ skills[s] = "NONE" /\ NamedLike(name) = {}
    /\ Starts(r, "createSkill", s, [IdleReq EXCEPT !.name = name, !.names = Names])

\* A mutant: a skill found under the name is taken for the one that is renamed.
RenameSkillAnyCheck(r, s, name) ==
    /\ s \in Existing
    /\ Starts(r, "renameSkill", s, [IdleReq EXCEPT !.name = name, !.names = Names])

\* first() has no order: of several skills found it may be any, the renamed one as well.
\* If that one is found and has the name already, nothing is written.
RenameSkillCheck(r, s, name) ==
    /\ s \in Existing
    /\ NamedLike(name) = {} \/ (s \in NamedLike(name) /\ skills[s] # name)
    /\ Starts(r, "renameSkill", s, [IdleReq EXCEPT !.name = name, !.names = Names])

\* The unique key on the name knows its case.
NameSkill(r) ==
    /\ Running(r, "checked", "createSkill") \/ Running(r, "checked", "renameSkill")
    /\ LET q == reqs[r] IN
       IF /\ \A s \in Skill \ {q.id} : skills[s] # q.name
          /\ skills[q.id] \in IF q.op = "createSkill" THEN {"NONE"} ELSE Name
         THEN /\ skills' = [skills EXCEPT ![q.id] = q.name]
              /\ Done(r) /\ UNCHANGED <<jobs, profiles, links>>
         ELSE RolledBack(r)

\* The links go with it, by the cascade of the ORM and ON DELETE CASCADE.
DeleteSkill(s) ==
    /\ s \in Existing /\ \A l \in Listing : s \notin Locked(l)
    /\ skills' = [skills EXCEPT ![s] = "DELETED"]
    /\ links' = [l \in Listing |-> links[l] \ {s}]
    /\ UNCHANGED <<jobs, profiles, reqs>>

-----------------------------------------------------------------------------
\* The process dies or the database fails: what is committed stays.
Die(r) == reqs[r].pc # "idle" /\ RolledBack(r)

\* Replacements: the skills of a request, or none.
Replacement == {<<TRUE, wants>> : wants \in Wanted} \cup {<<FALSE, {}>>}

JobStep(r) ==
    \/ \E j \in Job, range \in Range :
        \/ \E wants \in Wanted : CreateJobCheck(r, j, range, wants)
        \/ \E given \in SUBSET Column, new \in Replacement :
              EditJobCheck(r, j, range, given, new[1], new[2])
    \/ CreateJobCommit(r) \/ EditJobCommit(r)
ProfileStep(r) ==
    \/ \E p \in Profile, wants \in Wanted : CreateProfileCheck(r, p, wants) \/ EditProfileCheck(r, p, wants)
    \/ InsertProfile(r) \/ EditProfileSave(r) \/ ReplaceSkills(r)
SkillStep(r) ==
    \/ \E s \in Skill, name \in Name : CreateSkillCheck(r, s, name) \/ RenameSkillCheck(r, s, name)
    \/ NameSkill(r)

Next ==
    \/ \E r \in Request : JobStep(r) \/ ProfileStep(r) \/ SkillStep(r) \/ ClearLinks(r) \/ Die(r)
    \/ \E j \in Job : CloseJob(j) \/ DeleteJob(j)
    \/ \E p \in Profile : DeleteProfile(p)
    \/ \E s \in Skill : DeleteSkill(s)

Spec == Init /\ [][Next]_vars

-----------------------------------------------------------------------------
Handling ==
    [pc : {"idle", "checked", "validated", "cleared"},
     op : {"none", "createJob", "editJob", "createProfile", "editProfile",
           "createSkill", "renameSkill"},
     id : Listing \cup Skill \cup {NoId},
     range : Range, sets : SUBSET Column,
     replaces : BOOLEAN, wants : SUBSET Skill, cleared : SUBSET Skill,
     name : Name \cup {"NONE"}, names : SUBSET (Skill \X Name)]

TypeOK ==
    /\ jobs \in [Job -> [status : LiveJob \cup {"NONE", "DELETED"}, budget : Range]]
    /\ profiles \subseteq Profile
    /\ skills \in [Skill -> Name \cup {"NONE", "DELETED"}]
    /\ links \in [Listing -> SUBSET Skill]
    /\ reqs \in [Request -> Handling]

\* Whatever is deleted, renamed or replaced meanwhile, a job or a profile is linked only
\* to skills that exist, and only while it exists itself.
LinksAreGrounded ==
    \A l \in Listing : links[l] \subseteq Existing /\ (links[l] # {} => Exists(l))

\* An edit brings budget_max below budget_min only if the end it left alone is not the
\* one it was checked with any more.
BudgetsCrossWhenStale ==
    \A j \in Job : InOrder(jobs[j].budget) /\ ~InOrder(jobs'[j].budget) =>
        \E r \in Request : /\ reqs[r].id = j
                          /\ \E c \in Column \ reqs[r].sets : reqs[r].range[c] # jobs[j].budget[c]

\* The check took the name for a pattern and went wrong: the pattern misses a name that
\* is the same but for its case, or finds the renamed skill under a name that is not.
Misread(q) ==
    \/ \E n \in Name : Fold[n] = Fold[q.name] /\ n \notin Likes[q.name]
    \/ /\ q.op = "renameSkill" /\ q.id \in Existing
       /\ Fold[skills[q.id]] # Fold[q.name] /\ skills[q.id] \in Likes[q.name]

\* Two skills get one name but for its case only when the names were others at the check,
\* or when the check misread the new one.
NamesClashWhenStaleOrMisread ==
    \A s, t \in Skill :
        s # t /\ {s, t} \subseteq Existing' /\ Fold[skills'[s]] = Fold[skills'[t]] =>
           \/ {s, t} \subseteq Existing /\ Fold[skills[s]] = Fold[skills[t]]
           \/ \E r \in Request : /\ reqs[r].id \in {s, t}
                               /\ (reqs[r].names # Names \/ Misread(reqs[r]))

\* Neither the budget check of update_job nor the name checks of the skills let through
\* what they are to refuse, unless what they read has changed before the commit, or the
\* name is one that ILIKE does not take literally.
OnlyStaleOrMisreadChecksLetThrough ==
    [][BudgetsCrossWhenStale /\ NamesClashWhenStaleOrMisread]_vars
=============================================================================
