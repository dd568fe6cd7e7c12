------------------------------ MODULE Accounts ------------------------------
(***************************************************************************)
(* An account is two things: an account at the auth provider, Supabase,    *)
(* and a row of users with the provider's id and the same email            *)
(* (app/services/auth_service.py, app/routers/auth.py and users.py).       *)
(*                                                                         *)
(* Registration makes the first and then the second, with an await and no  *)
(* transaction around both; deletion removes the second only.  Posts stand *)
(* for the rows of jobs and proposals, which refer to their author.        *)
(***************************************************************************)
CONSTANTS
    Account,     \* ids, given by the provider: each names one account, once
    Email, EmailOf,
    Post, AuthorOf,    \* jobs.client_id and proposals.freelancer_id
    Request, NoId

ASSUME AccountConstants ==
    /\ EmailOf \in [Account -> Email] /\ AuthorOf \in [Post -> Account]
    /\ NoId \notin Account \cup Post

VARIABLES
    accounts,     \* the accounts at the provider
    users,        \* account -> status of its row of users
    signedIn,     \* the accounts that were given a token
    posts,        \* post -> status of its row
    reqs,         \* request -> what its handler is doing
    abandoned     \* accounts whose registration failed after the provider had made them

vars == <<accounts, users, signedIn, posts, reqs, abandoned>>

-----------------------------------------------------------------------------
RowStatus == {"NONE", "EXISTS", "DELETED"}
UserExists(a) == users[a] = "EXISTS"
PostsOf(a) == {x \in Post : AuthorOf[x] = a /\ posts[x] = "EXISTS"}
UsersWith(email) == {a \in Account : EmailOf[a] = email /\ UserExists(a)}

\* known: the posts that were there when the deletion of their author was asked for.
IdleReq == [pc |-> "idle", id |-> NoId, known |-> {}]

Init ==
    /\ accounts = {} /\ signedIn = {} /\ abandoned = {}
    /\ users = [a \in Account |-> "NONE"]
    /\ posts = [x \in Post |-> "NONE"]
    /\ reqs = [r \in Request |-> IdleReq]

At(r, pc) == reqs[r].pc = pc
Goes(r, pc) == reqs' = [reqs EXCEPT ![r].pc = pc]
Ends(r) == reqs' = [reqs EXCEPT ![r] = IdleReq]

\* get_current_user: the token is good, and its subject has a row.
Authenticated(a) == a \in signedIn /\ UserExists(a)

-----------------------------------------------------------------------------
(* register, of the account that will have id a *)

RegisterCheck(r, a) ==
    /\ At(r, "idle") /\ a \notin accounts /\ users[a] = "NONE"
    /\ \A q \in Request : reqs[q].id # a
    /\ UsersWith(EmailOf[a]) = {}
    /\ reqs' = [reqs EXCEPT ![r] = [IdleReq EXCEPT !.pc = "checked", !.id = a]]
    /\ UNCHANGED <<accounts, users, signedIn, posts, abandoned>>

Taken(email) == \E a \in accounts : EmailOf[a] = email

\* A mutant: a refusal by the provider is no error.
SignUpUnchecked(r, made, raised) ==
    /\ At(r, "checked")
    /\ made => ~Taken(EmailOf[reqs[r].id])
    /\ accounts' = IF made THEN accounts \cup {reqs[r].id} ELSE accounts
    /\ IF raised THEN Ends(r) ELSE Goes(r, "signedUp")
    /\ abandoned' = IF made /\ raised THEN abandoned \cup {reqs[r].id} ELSE abandoned
    /\ UNCHANGED <<users, signedIn, posts>>

\* supabase_client.sign_up: the provider is taken to refuse an email that it has.  The call raises
\* on a refusal, and on a timeout whether the account was made or not.
SignUp(r, made, raised) ==
    /\ made \/ raised
    /\ SignUpUnchecked(r, made, raised)

\* users.id and users.email are unique.
InsertUser(r) ==
    /\ At(r, "signedUp")
    /\ LET a == reqs[r].id IN
       IF ~UserExists(a) /\ UsersWith(EmailOf[a]) = {}
         THEN /\ users' = [users EXCEPT ![a] = "EXISTS"]
              /\ Goes(r, "registered") /\ UNCHANGED abandoned
         ELSE /\ abandoned' = abandoned \cup {a}
              /\ Ends(r) /\ UNCHANGED users
    /\ UNCHANGED <<accounts, signedIn, posts>>

\* emit(), and the response.  Without a session from the provider, which waits for the
\* email to be confirmed, the response raises; the user is registered all the same.
RespondRegistered(r, session) ==
    /\ At(r, "registered")
    /\ signedIn' = IF session THEN signedIn \cup {reqs[r].id} ELSE signedIn
    /\ Ends(r)
    /\ UNCHANGED <<accounts, users, posts, abandoned>>

\* login: the provider signs in, and then the row must be there.
Login(a) ==
    /\ a \in accounts /\ UserExists(a)
    /\ signedIn' = signedIn \cup {a}
    /\ UNCHANGED <<accounts, users, posts, reqs, abandoned>>

-----------------------------------------------------------------------------
(* Posts: create_job and submit_proposal, delete_job and delete_proposal *)

PostCheck(r, x) ==
    /\ At(r, "idle") /\ posts[x] = "NONE" /\ Authenticated(AuthorOf[x])
    /\ \A q \in Request : reqs[q].id # x
    /\ reqs' = [reqs EXCEPT ![r] = [IdleReq EXCEPT !.pc = "posting", !.id = x]]
    /\ UNCHANGED <<accounts, users, signedIn, posts, abandoned>>

\* The foreign key.
PostCommit(r) ==
    /\ At(r, "posting")
    /\ LET x == reqs[r].id IN
       posts' = IF UserExists(AuthorOf[x]) THEN [posts EXCEPT ![x] = "EXISTS"] ELSE posts
    /\ Ends(r)
    /\ UNCHANGED <<accounts, users, signedIn, abandoned>>

RemovePost(x) ==
    /\ posts[x] = "EXISTS"
    /\ posts' = [posts EXCEPT ![x] = "DELETED"]
    /\ UNCHANGED <<accounts, users, signedIn, reqs, abandoned>>

-----------------------------------------------------------------------------
(* delete_me *)

DeleteCheck(r, a) ==
    /\ At(r, "idle") /\ Authenticated(a)
    /\ reqs' = [reqs EXCEPT ![r] = [pc |-> "deleting", id |-> a, known |-> PostsOf(a)]]
    /\ UNCHANGED <<accounts, users, signedIn, posts, abandoned>>

\* A mutant: the database is left to cascade.
LoadNothing(r) ==
    /\ At(r, "deleting")
    /\ Goes(r, "loaded")
    /\ UNCHANGED <<accounts, users, signedIn, posts, abandoned>>

\* User.jobs_posted and User.proposals have no delete cascade: the ORM loads them and
\* sets their author to NULL, which the columns refuse.
LoadPosts(r) ==
    /\ At(r, "deleting")
    /\ IF PostsOf(reqs[r].id) = {} THEN Goes(r, "loaded") ELSE Ends(r)
    /\ UNCHANGED <<accounts, users, signedIn, posts, abandoned>>

\* A mutant: the author of a post may be null.
DeleteUserOrphaning(r) ==
    /\ At(r, "loaded")
    /\ users' = [users EXCEPT ![reqs[r].id] = "DELETED"]
    /\ posts' = [x \in Post |-> IF x \in PostsOf(reqs[r].id) THEN "ORPHAN" ELSE posts[x]]
    /\ Ends(r)
    /\ UNCHANGED <<accounts, signedIn, abandoned>>

\* ON DELETE CASCADE takes along what was posted since.  Nothing tells the provider.
DeleteUser(r) ==
    /\ At(r, "loaded")
    /\ LET a == reqs[r].id IN
       IF UserExists(a)
         THEN /\ users' = [users EXCEPT ![a] = "DELETED"]
              /\ posts' = [x \in Post |-> IF x \in PostsOf(a) THEN "DELETED" ELSE posts[x]]
         ELSE UNCHANGED <<users, posts>>
    /\ Ends(r)
    /\ UNCHANGED <<accounts, signedIn, abandoned>>

-----------------------------------------------------------------------------
\* The process dies or the database fails.
Die(r) ==
    /\ ~At(r, "idle")
    /\ abandoned' = IF At(r, "signedUp") THEN abandoned \cup {reqs[r].id} ELSE abandoned
    /\ Ends(r)
    /\ UNCHANGED <<accounts, users, signedIn, posts>>

Next ==
    \/ \E r \in Request :
        \/ \E a \in Account : RegisterCheck(r, a) \/ DeleteCheck(r, a)
        \/ \E x \in Post : PostCheck(r, x)
        \/ \E made, raised \in BOOLEAN : SignUp(r, made, raised)
        \/ \E session \in BOOLEAN : RespondRegistered(r, session)
        \/ InsertUser(r) \/ PostCommit(r) \/ LoadPosts(r) \/ DeleteUser(r) \/ Die(r)
    \/ \E a \in Account : Login(a)
    \/ \E x \in Post : RemovePost(x)

Spec == Init /\ [][Next]_vars

-----------------------------------------------------------------------------
Handling ==
    [pc : {"idle", "checked", "signedUp", "registered", "posting", "deleting", "loaded"},
     id : Account \cup Post \cup {NoId}, known : SUBSET Post]

TypeOK ==
    /\ accounts \subseteq Account /\ signedIn \subseteq Account /\ abandoned \subseteq Account
    /\ users \in [Account -> RowStatus] /\ posts \in [Post -> RowStatus]
    /\ reqs \in [Request -> Handling]

\* However registrations of one email overlap, it has at most one user, who can log in.
\* And an email is lost, known to the provider and to nobody here, so that neither
\* registering nor logging in works, only through a registration that failed between the
\* two, or by deleting the user.
LostEmailsAreExplained ==
    /\ \A a \in Account : UserExists(a) => a \in accounts /\ UsersWith(EmailOf[a]) = {a}
    /\ \A a \in accounts :
          \/ users[a] \in {"EXISTS", "DELETED"} \/ a \in abandoned
          \/ \E r \in Request : reqs[r].id = a /\ At(r, "signedUp")

\* The jobs and proposals that an account takes along when it is deleted were posted after
\* its deletion was asked for, whatever else is posted and removed meanwhile.
DeletionTakesNoWork ==
    [][\A x \in Post, r \in Request :
          /\ posts[x] = "EXISTS" /\ posts'[x] # "EXISTS"
          /\ At(r, "loaded") /\ reqs'[r] # reqs[r]
          => x \notin reqs[r].known]_vars
=============================================================================
