--------------------------- MODULE AccountsProofs ---------------------------
(* Proofs about accounts, for any accounts, emails, posts and requests.      *)
EXTENDS Accounts, TLAPS

\* What a request may rely on while it runs: the account it has made is there, a post is
\* new until the only request that posts it commits, and an account that a deletion found
\* without posts keeps none of those that were there before.
Relies(r) ==
    LET q == reqs[r] IN
    /\ q.pc \in {"checked", "signedUp", "registered", "deleting", "loaded"} => q.id \in Account
    /\ q.pc \in {"signedUp", "registered"} => q.id \in accounts
    /\ q.pc = "posting" =>
          /\ q.id \in Post /\ posts[q.id] = "NONE"
          /\ \A t \in Request : reqs[t].pc = "posting" /\ reqs[t].id = q.id => t = r
    /\ q.pc \in {"deleting", "loaded"} =>
          \A x \in q.known : posts[x] # "NONE" /\ AuthorOf[x] = q.id
    /\ q.pc = "loaded" => \A x \in q.known : posts[x] = "DELETED"

RequestsOK == \A r \in Request : Relies(r)
AccountsInv == TypeOK /\ RequestsOK /\ LostEmailsAreExplained

-----------------------------------------------------------------------------
\* Each step of a request, by name.
LEMMA StepCases ==
    ASSUME [Next]_vars
    PROVE  \/ UNCHANGED vars
           \/ \E r \in Request, a \in Account : RegisterCheck(r, a) \/ DeleteCheck(r, a)
           \/ \E r \in Request, x \in Post : PostCheck(r, x)
           \/ \E r \in Request, made, raised \in BOOLEAN : SignUp(r, made, raised)
           \/ \E r \in Request, session \in BOOLEAN : RespondRegistered(r, session)
           \/ \E r \in Request : InsertUser(r) \/ PostCommit(r) \/ LoadPosts(r) \/ DeleteUser(r) \/ Die(r)
           \/ \E a \in Account : Login(a)
           \/ \E x \in Post : RemovePost(x)
    BY DEF Next

LEMMA IdleTyped == IdleReq \in Handling
    BY DEF IdleReq, Handling

LEMMA TypeStep ==
    ASSUME TypeOK, RequestsOK, [Next]_vars  PROVE TypeOK'
<1> USE IdleTyped
<1>1. ASSUME NEW r \in Request, NEW a \in Account, RegisterCheck(r, a) \/ DeleteCheck(r, a)
      PROVE  TypeOK'
  <2>1. PostsOf(a) \in SUBSET Post
      BY DEF PostsOf
  <2>2. reqs' \in [Request -> Handling]
    <3>1. CASE RegisterCheck(r, a)
        BY <3>1 DEF RegisterCheck, TypeOK, Handling, IdleReq
    <3>2. CASE DeleteCheck(r, a)
      <4> DEFINE q == [pc |-> "deleting", id |-> a, known |-> PostsOf(a)]
      <4>1. q \in Handling
          BY <2>1 DEF Handling
      <4>2. reqs' = [reqs EXCEPT ![r] = q]
          BY <3>2 DEF DeleteCheck
      <4> HIDE DEF q
      <4>3. QED  BY <4>1, <4>2 DEF TypeOK
    <3>3. QED  BY <1>1, <3>1, <3>2
  <2>3. QED  BY <1>1, <2>2 DEF RegisterCheck, DeleteCheck, TypeOK
<1>2. ASSUME NEW r \in Request, NEW x \in Post, PostCheck(r, x)  PROVE TypeOK'
    BY <1>2 DEF PostCheck, TypeOK, Handling, IdleReq
<1>3. ASSUME NEW r \in Request, NEW made \in BOOLEAN, NEW raised \in BOOLEAN, SignUp(r, made, raised)
      PROVE  TypeOK'
  <2>1. reqs[r] \in Handling /\ reqs[r].id \in Account
      BY <1>3 DEF SignUp, SignUpUnchecked, TypeOK, RequestsOK, Relies, At
  <2>2. accounts' \subseteq Account /\ abandoned' \subseteq Account
      BY <1>3, <2>1 DEF SignUp, SignUpUnchecked, TypeOK
  <2>3. reqs' \in [Request -> Handling]
      BY <1>3, <2>1 DEF SignUp, SignUpUnchecked, TypeOK, Goes, Ends, Handling
  <2>4. QED  BY <1>3, <2>2, <2>3 DEF SignUp, SignUpUnchecked, TypeOK
<1>4. ASSUME NEW r \in Request, NEW session \in BOOLEAN, RespondRegistered(r, session)
      PROVE  TypeOK'
    BY <1>4 DEF RespondRegistered, TypeOK, Ends, RequestsOK, Relies, At
<1>5. ASSUME NEW r \in Request, InsertUser(r) \/ DeleteUser(r)  PROVE TypeOK'
  <2>1. reqs[r] \in Handling /\ reqs[r].id \in Account
      BY <1>5 DEF InsertUser, DeleteUser, TypeOK, RequestsOK, Relies, At
  <2>2. reqs' \in [Request -> Handling]
      BY <1>5, <2>1 DEF InsertUser, DeleteUser, TypeOK, Goes, Ends, Handling
  <2>3. QED  BY <1>5, <2>1, <2>2 DEF InsertUser, DeleteUser, TypeOK, RowStatus, PostsOf
<1>6. ASSUME NEW r \in Request, PostCommit(r)  PROVE TypeOK'
    BY <1>6 DEF PostCommit, TypeOK, Ends, RowStatus
<1>7. ASSUME NEW r \in Request, LoadPosts(r)  PROVE TypeOK'
    BY <1>7 DEF LoadPosts, TypeOK, Goes, Ends, Handling
<1>8. ASSUME NEW r \in Request, Die(r)  PROVE TypeOK'
    BY <1>8 DEF Die, TypeOK, Ends, RequestsOK, Relies, At
<1>9. ASSUME NEW a \in Account, Login(a)  PROVE TypeOK'
    BY <1>9 DEF Login, TypeOK
<1>10. ASSUME NEW x \in Post, RemovePost(x)  PROVE TypeOK'
    BY <1>10 DEF RemovePost, TypeOK, RowStatus
<1>11. CASE UNCHANGED vars
    BY <1>11 DEF vars, TypeOK
<1>12. QED
    BY <1>1, <1>2, <1>3, <1>4, <1>5, <1>6, <1>7, <1>8, <1>9, <1>10, <1>11, StepCases

-----------------------------------------------------------------------------
\* Requests stay right when the others only end, accounts are only added, and posts
\* only come from requests of their own and go for good.
LEMMA OthersKeep ==
    ASSUME TypeOK, RequestsOK, NEW s \in Request,
           reqs'[s] = reqs[s], accounts \subseteq accounts',
           \A x \in Post : posts[x] # "NONE" => posts'[x] # "NONE",
           \A x \in Post : posts[x] = "DELETED" => posts'[x] = "DELETED",
           At(s, "posting") => posts'[reqs[s].id] = "NONE",
           At(s, "posting") =>
              \A t \in Request : reqs'[t].pc = "posting" /\ reqs'[t].id = reqs[s].id => t = s
    PROVE  Relies(s)'
    BY DEF TypeOK, RequestsOK, Relies, Handling, At

LEMMA RequestsStep ==
    ASSUME TypeOK, RequestsOK, [Next]_vars  PROVE RequestsOK'
<1> USE DEF RequestsOK
<1>1. ASSUME NEW r \in Request, NEW a \in Account, RegisterCheck(r, a) \/ DeleteCheck(r, a)
      PROVE  RequestsOK'
  <2>1. /\ reqs'[r].id = a /\ reqs'[r].pc \in {"checked", "deleting"} /\ UNCHANGED <<accounts, posts>>
        /\ reqs'[r].pc = "deleting" => reqs'[r].known = PostsOf(a)
        /\ \A t \in Request \ {r} : reqs'[t] = reqs[t]
    <3>1. CASE RegisterCheck(r, a)
        BY <3>1 DEF RegisterCheck, TypeOK, IdleReq
    <3>2. CASE DeleteCheck(r, a)
        BY <3>2 DEF DeleteCheck, TypeOK
    <3>3. QED  BY <1>1, <3>1, <3>2
  <2>2. Relies(r)'
      BY <2>1 DEF Relies, PostsOf
  <2>3. ASSUME NEW s \in Request \ {r}  PROVE Relies(s)'
    <3>1. \A t \in Request : reqs'[t].pc = "posting" => reqs'[t] = reqs[t]
        BY <2>1
    <3>2. QED  BY <2>1, <3>1 DEF Relies
  <2>4. QED  BY <2>2, <2>3
<1>2. ASSUME NEW r \in Request, NEW x \in Post, PostCheck(r, x)  PROVE RequestsOK'
  <2>1. /\ reqs'[r].id = x /\ reqs'[r].pc = "posting" /\ UNCHANGED <<accounts, posts>>
        /\ posts[x] = "NONE" /\ \A t \in Request \ {r} : reqs'[t] = reqs[t] /\ reqs[t].id # x
      BY <1>2 DEF PostCheck, TypeOK, IdleReq
  <2>2. Relies(r)'
      BY <2>1 DEF Relies
  <2>3. ASSUME NEW s \in Request \ {r}  PROVE Relies(s)'
      BY <2>1 DEF Relies
  <2>4. QED  BY <2>2, <2>3
\* One request goes on or ends, and posts change at most as its own one does.
<1>3. ASSUME NEW r \in Request, reqs'[r].pc # "posting", Relies(r)',
             \A t \in Request \ {r} : reqs'[t] = reqs[t],
             accounts \subseteq accounts',
             \A x \in Post : posts'[x] # posts[x] =>
                \/ posts[x] = "NONE" /\ At(r, "posting") /\ reqs[r].id = x
                \/ posts[x] = "EXISTS" /\ posts'[x] = "DELETED"
      PROVE  RequestsOK'
  <2>1. ASSUME NEW s \in Request \ {r}  PROVE Relies(s)'
    <3>1. \A x \in Post : /\ posts[x] # "NONE" => posts'[x] # "NONE"
                          /\ posts[x] = "DELETED" => posts'[x] = "DELETED"
        BY <1>3
    <3>2. ASSUME At(s, "posting")
          PROVE  /\ posts'[reqs[s].id] = "NONE"
                 /\ \A t \in Request : reqs'[t].pc = "posting" /\ reqs'[t].id = reqs[s].id => t = s
        BY <1>3, <3>2 DEF Relies, At
    <3>3. QED  BY <1>3, <3>1, <3>2, OthersKeep
  <2>2. QED  BY <1>3, <2>1
<1>4. ASSUME NEW r \in Request, NEW made \in BOOLEAN, NEW raised \in BOOLEAN, SignUp(r, made, raised)
      PROVE  RequestsOK'
  <2>1. /\ accounts \subseteq accounts' /\ UNCHANGED posts /\ reqs[r].id \in Account
        /\ \A t \in Request \ {r} : reqs'[t] = reqs[t]
      BY <1>4 DEF SignUp, SignUpUnchecked, Goes, Ends, TypeOK, Relies, At
  <2>2. CASE raised
    <3>1. reqs'[r] = IdleReq
        BY <1>4, <2>2 DEF SignUp, SignUpUnchecked, Ends, TypeOK
    <3>2. Relies(r)'
        BY <3>1 DEF Relies, IdleReq
    <3>3. QED  BY <1>3, <2>1, <3>1, <3>2 DEF IdleReq
  <2>3. CASE ~raised
    <3>1. reqs'[r] = [reqs[r] EXCEPT !.pc = "signedUp"] /\ reqs[r].id \in accounts'
        BY <1>4, <2>3 DEF SignUp, SignUpUnchecked, Goes, TypeOK
    <3>2. reqs'[r].pc = "signedUp" /\ reqs'[r].id = reqs[r].id
        BY <3>1 DEF TypeOK, Handling
    <3>3. Relies(r)'
        BY <2>1, <3>1, <3>2 DEF Relies
    <3>4. QED  BY <1>3, <2>1, <3>2, <3>3
  <2>4. QED  BY <2>2, <2>3
<1>5. ASSUME NEW r \in Request, Ends(r), UNCHANGED posts, accounts \subseteq accounts'
      PROVE  RequestsOK'
  <2>1. reqs'[r] = IdleReq /\ \A t \in Request \ {r} : reqs'[t] = reqs[t]
      BY <1>5 DEF Ends, TypeOK
  <2>2. Relies(r)'
      BY <2>1 DEF Relies, IdleReq
  <2>3. QED  BY <1>3, <1>5, <2>1, <2>2 DEF IdleReq
<1>6. ASSUME NEW r \in Request, InsertUser(r)  PROVE RequestsOK'
  <2>1. CASE Ends(r)
      BY <1>5, <1>6, <2>1 DEF InsertUser
  <2>2. CASE ~Ends(r)
    <3>1. /\ Goes(r, "registered") /\ UNCHANGED <<accounts, posts>>
          /\ reqs[r].id \in Account /\ reqs[r].id \in accounts
        BY <1>6, <2>2 DEF InsertUser, At, Relies
    <3>2. /\ reqs'[r].pc = "registered" /\ reqs'[r].id = reqs[r].id
          /\ \A t \in Request \ {r} : reqs'[t] = reqs[t]
        BY <3>1 DEF Goes, TypeOK, Handling
    <3>3. Relies(r)'
        BY <3>1, <3>2 DEF Relies
    <3>4. QED  BY <1>3, <3>1, <3>2, <3>3
  <2>3. QED  BY <2>1, <2>2
<1>7. ASSUME NEW r \in Request, PostCommit(r) \/ DeleteUser(r)  PROVE RequestsOK'
  <2>1. /\ reqs'[r] = IdleReq /\ \A t \in Request \ {r} : reqs'[t] = reqs[t]
        /\ UNCHANGED accounts
      BY <1>7 DEF PostCommit, DeleteUser, Ends, TypeOK
  <2>2. Relies(r)'
      BY <2>1 DEF Relies, IdleReq
  <2>3. ASSUME NEW x \in Post, posts'[x] # posts[x]
        PROVE  \/ posts[x] = "NONE" /\ At(r, "posting") /\ reqs[r].id = x
               \/ posts[x] = "EXISTS" /\ posts'[x] = "DELETED"
    <3>1. CASE PostCommit(r)
        BY <2>3, <3>1 DEF PostCommit, TypeOK, Relies, At
    <3>2. CASE DeleteUser(r)
        BY <2>3, <3>2 DEF DeleteUser, PostsOf
    <3>3. QED  BY <1>7, <3>1, <3>2
  <2>4. QED  BY <1>3, <2>1, <2>2, <2>3 DEF IdleReq
<1>8. ASSUME NEW r \in Request, LoadPosts(r)  PROVE RequestsOK'
  <2>1. CASE Ends(r)
      BY <1>5, <1>8, <2>1 DEF LoadPosts
  <2>2. CASE ~Ends(r)
    <3>1. /\ Goes(r, "loaded") /\ UNCHANGED <<accounts, posts>>
          /\ reqs[r].pc = "deleting" /\ PostsOf(reqs[r].id) = {}
        BY <1>8, <2>2 DEF LoadPosts, At
    <3>2. /\ reqs'[r].pc = "loaded" /\ reqs'[r].id = reqs[r].id /\ reqs'[r].known = reqs[r].known
          /\ \A t \in Request \ {r} : reqs'[t] = reqs[t]
        BY <3>1 DEF Goes, TypeOK, Handling
    <3>3. \A x \in reqs[r].known : /\ x \in Post /\ posts[x] \in RowStatus /\ posts[x] # "NONE"
                                  /\ AuthorOf[x] = reqs[r].id
        BY <3>1 DEF Relies, TypeOK, Handling
    <3>4. \A x \in reqs[r].known : posts[x] = "DELETED"
        BY <3>1, <3>3 DEF PostsOf, RowStatus
    <3>5. reqs[r].id \in Account
        BY <3>1 DEF Relies
    <3>6. Relies(r)'
        BY <3>1, <3>2, <3>3, <3>4, <3>5 DEF Relies
    <3>7. QED  BY <1>3, <3>1, <3>2, <3>6
  <2>3. QED  BY <2>1, <2>2
<1>9. ASSUME NEW x \in Post, RemovePost(x)  PROVE RequestsOK'
  <2>1. /\ posts[x] = "EXISTS" /\ posts' = [posts EXCEPT ![x] = "DELETED"]
        /\ UNCHANGED <<accounts, reqs>>
      BY <1>9 DEF RemovePost
  <2>2. ASSUME NEW s \in Request  PROVE Relies(s)'
      BY <2>1, OthersKeep DEF TypeOK, Relies, At
  <2>3. QED  BY <2>2
<1>10. CASE UNCHANGED <<reqs, accounts, posts>>
    BY <1>10 DEF Relies
<1>11. QED
    BY <1>1, <1>2, <1>4, <1>5, <1>6, <1>7, <1>8, <1>9, <1>10, StepCases
    DEF vars, RespondRegistered, Die, Login

-----------------------------------------------------------------------------
(* The emails *)

\* Registrations and deletions of users, the only steps that touch them.
LEMMA EmailsStep ==
    ASSUME AccountsInv, [Next]_vars  PROVE LostEmailsAreExplained'
<1> USE DEF AccountsInv
<1>1. CASE UNCHANGED users /\ accounts' = accounts /\ abandoned \subseteq abandoned'
           /\ \A r \in Request : At(r, "signedUp") /\ reqs'[r] # reqs[r]
                 => reqs[r].id \in abandoned'
    BY <1>1 DEF LostEmailsAreExplained, UserExists, UsersWith, At
<1>2. ASSUME NEW r \in Request, NEW made \in BOOLEAN, NEW raised \in BOOLEAN, SignUp(r, made, raised)
      PROVE  LostEmailsAreExplained'
  <2>1. /\ accounts' = IF made THEN accounts \cup {reqs[r].id} ELSE accounts
        /\ abandoned' = IF made /\ raised THEN abandoned \cup {reqs[r].id} ELSE abandoned
        /\ UNCHANGED users /\ reqs[r].pc = "checked"
        /\ ~raised => reqs'[r].pc = "signedUp" /\ reqs'[r].id = reqs[r].id
        /\ \A t \in Request \ {r} : reqs'[t] = reqs[t]
    <3>1. reqs[r] \in Handling
        BY DEF TypeOK
    <3>2. QED  BY <1>2, <3>1 DEF SignUp, SignUpUnchecked, At, Goes, Ends, TypeOK, Handling
  <2>2. ASSUME NEW a \in Account, UserExists(a)'
        PROVE  a \in accounts' /\ UsersWith(EmailOf[a])' = {a}
      BY <2>1, <2>2 DEF LostEmailsAreExplained, UserExists, UsersWith
  <2>3. ASSUME NEW a \in accounts'
        PROVE  \/ users'[a] \in {"EXISTS", "DELETED"} \/ a \in abandoned'
               \/ \E s \in Request : reqs'[s].id = a /\ reqs'[s].pc = "signedUp"
      BY <2>1, <2>3 DEF LostEmailsAreExplained, At
  <2>4. QED  BY <2>2, <2>3 DEF LostEmailsAreExplained, At
<1>3. ASSUME NEW r \in Request, InsertUser(r)  PROVE LostEmailsAreExplained'
  <2>1. PICK b \in Account : b = reqs[r].id /\ b \in accounts /\ reqs[r].pc = "signedUp"
      BY <1>3 DEF InsertUser, At, RequestsOK, Relies
  <2>2. CASE UNCHANGED users
    <3>1. /\ UNCHANGED accounts /\ b \in abandoned' /\ abandoned \subseteq abandoned'
          /\ \A t \in Request \ {r} : reqs'[t] = reqs[t]
      <4>1. ~UserExists(b) => users # [users EXCEPT ![b] = "EXISTS"]
          BY DEF UserExists, TypeOK
      <4>2. /\ UNCHANGED accounts /\ abandoned' = abandoned \cup {b} /\ Ends(r)
          BY <1>3, <2>1, <2>2, <4>1 DEF InsertUser
      <4>3. QED  BY <4>2 DEF Ends, TypeOK
    <3>2. \A t \in Request : At(t, "signedUp") /\ reqs'[t] # reqs[t] => reqs[t].id \in abandoned'
        BY <2>1, <3>1
    <3>3. QED  BY <1>1, <2>2, <3>1, <3>2
  <2>3. CASE ~UNCHANGED users
    <3>1. /\ users' = [users EXCEPT ![b] = "EXISTS"] /\ UsersWith(EmailOf[b]) = {}
          /\ UNCHANGED <<accounts, abandoned>>
          /\ \A t \in Request \ {r} : reqs'[t] = reqs[t]
        BY <1>3, <2>1, <2>3 DEF InsertUser, Goes, TypeOK
    <3>2. \A c \in Account : users'[c] = IF c = b THEN "EXISTS" ELSE users[c]
        BY <3>1 DEF TypeOK
    <3>3. ASSUME NEW a \in Account, UserExists(a)'
          PROVE  a \in accounts' /\ UsersWith(EmailOf[a])' = {a}
      <4>1. CASE a = b
          BY <2>1, <3>1, <3>2, <4>1 DEF UserExists, UsersWith
      <4>2. CASE a # b
        <5>1. UserExists(a) /\ EmailOf[a] # EmailOf[b]
            BY <3>1, <3>2, <3>3, <4>2 DEF UserExists, UsersWith
        <5>2. a \in accounts /\ UsersWith(EmailOf[a]) = {a}
            BY <5>1 DEF LostEmailsAreExplained
        <5>3. UsersWith(EmailOf[a])' = UsersWith(EmailOf[a])
            BY <3>2, <5>1 DEF UsersWith, UserExists
        <5>4. QED  BY <3>1, <5>2, <5>3
      <4>3. QED  BY <4>1, <4>2
    <3>4. ASSUME NEW a \in accounts'
          PROVE  \/ users'[a] \in {"EXISTS", "DELETED"} \/ a \in abandoned'
                 \/ \E s \in Request : reqs'[s].id = a /\ reqs'[s].pc = "signedUp"
        BY <2>1, <3>1, <3>2 DEF LostEmailsAreExplained, At, TypeOK
    <3>5. QED  BY <3>3, <3>4 DEF LostEmailsAreExplained, At
  <2>4. QED  BY <2>2, <2>3
<1>4. ASSUME NEW r \in Request, DeleteUser(r)  PROVE LostEmailsAreExplained'
  <2>1. PICK b \in Account : b = reqs[r].id /\ reqs[r].pc = "loaded"
      BY <1>4 DEF DeleteUser, At, RequestsOK, Relies
  <2>2. /\ UNCHANGED <<accounts, abandoned>>
        /\ \A c \in Account : users'[c] = users[c] \/ (c = b /\ users'[c] = "DELETED")
        /\ \A t \in Request \ {r} : reqs'[t] = reqs[t]
      BY <1>4, <2>1 DEF DeleteUser, Ends, TypeOK
  <2>3. ASSUME NEW a \in Account, UserExists(a)'
        PROVE  a \in accounts' /\ UsersWith(EmailOf[a])' = {a}
    <3>1. UserExists(a) /\ \A c \in Account : UserExists(c)' => UserExists(c)
        BY <2>2, <2>3 DEF UserExists
    <3>2. a \in accounts /\ UsersWith(EmailOf[a]) = {a}
        BY <3>1 DEF LostEmailsAreExplained
    <3>3. QED  BY <2>2, <2>3, <3>1, <3>2 DEF UsersWith
  <2>4. ASSUME NEW a \in accounts'
        PROVE  \/ users'[a] \in {"EXISTS", "DELETED"} \/ a \in abandoned'
               \/ \E s \in Request : reqs'[s].id = a /\ reqs'[s].pc = "signedUp"
      BY <2>1, <2>2 DEF LostEmailsAreExplained, At, TypeOK
  <2>5. QED  BY <2>3, <2>4 DEF LostEmailsAreExplained, At
\* The steps of one request that was not registering, or gives up.
<1>5. ASSUME NEW r \in Request, UNCHANGED <<users, accounts>>, abandoned \subseteq abandoned',
             \A t \in Request \ {r} : reqs'[t] = reqs[t],
             At(r, "signedUp") => reqs[r].id \in abandoned'
      PROVE  LostEmailsAreExplained'
    BY <1>1, <1>5
<1>6. ASSUME NEW r \in Request, NEW a \in Account, RegisterCheck(r, a) \/ DeleteCheck(r, a)
      PROVE  LostEmailsAreExplained'
    BY <1>5, <1>6 DEF RegisterCheck, DeleteCheck, TypeOK, At
<1>7. ASSUME NEW r \in Request, NEW x \in Post, PostCheck(r, x)  PROVE LostEmailsAreExplained'
    BY <1>5, <1>7 DEF PostCheck, TypeOK, At
<1>8. ASSUME NEW r \in Request, NEW session \in BOOLEAN, RespondRegistered(r, session)
      PROVE  LostEmailsAreExplained'
    BY <1>5, <1>8 DEF RespondRegistered, TypeOK, At, Ends
<1>9. ASSUME NEW r \in Request, PostCommit(r) \/ LoadPosts(r)  PROVE LostEmailsAreExplained'
    BY <1>5, <1>9 DEF PostCommit, LoadPosts, TypeOK, At, Ends, Goes
<1>10. ASSUME NEW r \in Request, Die(r)  PROVE LostEmailsAreExplained'
    BY <1>5, <1>10 DEF Die, TypeOK, At, Ends
<1>11. ASSUME UNCHANGED <<reqs, users, accounts, abandoned>>  PROVE LostEmailsAreExplained'
    BY <1>1, <1>11
<1>12. QED
    BY <1>2, <1>3, <1>4, <1>6, <1>7, <1>8, <1>9, <1>10, <1>11, StepCases DEF Login, RemovePost, vars

-----------------------------------------------------------------------------
\* The invariant: types, what the running requests rely on, and the emails.
THEOREM AccountsConsistent == Spec => []AccountsInv
<1>1. Init => AccountsInv
  <2> SUFFICES ASSUME Init  PROVE AccountsInv
      OBVIOUS
  <2>1. TypeOK
      BY IdleTyped DEF Init, TypeOK, RowStatus
  <2>2. RequestsOK
      BY DEF Init, RequestsOK, Relies, IdleReq
  <2>3. LostEmailsAreExplained
      BY DEF Init, LostEmailsAreExplained, UserExists
  <2>4. QED  BY <2>1, <2>2, <2>3 DEF AccountsInv
<1>2. AccountsInv /\ [Next]_vars => AccountsInv'
    BY TypeStep, RequestsStep, EmailsStep DEF AccountsInv
<1>3. QED  BY <1>1, <1>2, PTL DEF Spec

\* Every variable of the accounts keeps its type, for any number of accounts, posts and
\* handlers.
THEOREM AccountsTyped == Spec => []TypeOK
<1>1. AccountsInv => TypeOK
    BY DEF AccountsInv
<1>2. QED  BY <1>1, AccountsConsistent, PTL

\* However registrations overlap and fail, an email has at most one user, its account is
\* there to log in with, and an account without a user is one whose registration failed
\* or whose user was deleted.
THEOREM EmailsAreExplained == Spec => []LostEmailsAreExplained
<1>1. AccountsInv => LostEmailsAreExplained
    BY DEF AccountsInv
<1>2. QED  BY <1>1, AccountsConsistent, PTL

\* Deleting an account takes along only what was posted after the deletion was asked for.
THEOREM DeletionSparesWork == Spec => DeletionTakesNoWork
<1> DEFINE Spares == \A x \in Post, r \in Request :
                        /\ posts[x] = "EXISTS" /\ posts'[x] # "EXISTS"
                        /\ At(r, "loaded") /\ reqs'[r] # reqs[r]
                        => x \notin reqs[r].known
<1>1. AccountsInv => Spares
    BY DEF AccountsInv, RequestsOK, Relies, At
<1>2. AccountsInv => [Spares]_vars
    BY <1>1
<1> HIDE DEF Spares
<1>3. QED  BY <1>2, AccountsConsistent, PTL DEF DeletionTakesNoWork, Spares
=============================================================================
