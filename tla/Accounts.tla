------------------------------ MODULE Accounts ------------------------------
(***************************************************************************)
(* AuthenticationService.register and login over the users table: the      *)
(* email is looked up, the password is hashed or verified on a thread, and *)
(* only the unique index decides between concurrent registrations.         *)
(* Each SQL statement and each thread is a step.                           *)
(***************************************************************************)
EXTENDS Integers

CONSTANTS
  Workers,     \* requests that may be in progress at once
  Emails,      \* emails as clients write them
  Normal,      \* [Emails -> Emails]: strip().lower()
  Passwords,
  Blank        \* the email and password of no request

ASSUME EmailsAssumption ==
  Normal \in [Emails -> Emails] /\ \A e \in Emails : Normal[Normal[e]] = Normal[e]
ASSUME BlankAssumption == Blank \notin Emails /\ Blank \notin Passwords

VARIABLES
  users,    \* committed rows: [email, password], the latter as its hash
  req,      \* the request in progress on each worker
  welcomed  \* credentials whose 201 has reached a client

vars == <<users, req, welcomed>>

User == [email : Emails, password : Passwords]
Request ==
  [at : {"idle", "get", "hash", "insert", "commit", "verify", "close"},
   op : {"none", "register", "login"},
   email : Emails \cup {Blank}, password : Passwords \cup {Blank},
   found : SUBSET User, known : BOOLEAN,
   answer : {"none", "registered", "taken", "token", "denied"}]

(* found: the row login has read; known: these credentials were already    *)
(* welcomed when the request began.                                        *)
Idle == [at |-> "idle", op |-> "none", email |-> Blank, password |-> Blank,
         found |-> {}, known |-> FALSE, answer |-> "none"]

Init ==
  /\ users = {}
  /\ req = [w \in Workers |-> Idle]
  /\ welcomed = {}

At(w, op, step) == req[w].op = op /\ req[w].at = step
Goto(w, step) == req' = [req EXCEPT ![w].at = step]
Decide(w, verdict) == req' = [req EXCEPT ![w].at = "close", ![w].answer = verdict]
Named(email) == {u \in users : u.email = email}

(* A client posts, for the first time or again; the email is normalized.   *)
Call(w, op, email, password) ==
  /\ req[w].at = "idle"
  /\ req' = [req EXCEPT ![w] =
       [at |-> "get", op |-> op, email |-> Normal[email], password |-> password, found |-> {},
        known |-> [email |-> Normal[email], password |-> password] \in welcomed,
        answer |-> "none"]]
  /\ UNCHANGED <<users, welcomed>>

(* register: get_by_email, which sees committed rows only.                 *)
LookUp(w) ==
  /\ At(w, "register", "get")
  /\ IF Named(req[w].email) # {} THEN Decide(w, "taken") ELSE Goto(w, "hash")
  /\ UNCHANGED <<users, welcomed>>

(* asyncio.to_thread(hash): the session waits, other requests run.         *)
Hash(w) ==
  /\ At(w, "register", "hash")
  /\ Goto(w, "insert")
  /\ UNCHANGED <<users, welcomed>>

(* Mutant: only the lookup guards the email.                               *)
InsertUnguarded(w) ==
  /\ At(w, "register", "insert")
  /\ Goto(w, "commit")
  /\ UNCHANGED <<users, welcomed>>

(* Mutant: an INSERT that overwrites the row of the email.                 *)
InsertOrUpdate(w) ==
  /\ At(w, "register", "insert")
  /\ users' = users \ Named(req[w].email)
  /\ Goto(w, "commit")
  /\ welcomed' = welcomed

(* Mutant: whatever fails in flush is reported as a duplicate.             *)
InsertCatchingAll(w) ==
  /\ At(w, "register", "insert")
  /\ \/ Decide(w, "taken")
     \/ Named(req[w].email) = {} /\ Goto(w, "commit")
  /\ UNCHANGED <<users, welcomed>>

(* flush(): the unique index makes the INSERT wait for a session that has  *)
(* inserted the email, and refuses it if the row is then committed; the    *)
(* repository translates the IntegrityError.                               *)
Insert(w) ==
  /\ At(w, "register", "insert")
  /\ \A v \in Workers \ {w} :
       At(v, "register", "commit") => req[v].email # req[w].email
  /\ IF Named(req[w].email) # {} THEN Decide(w, "taken") ELSE Goto(w, "commit")
  /\ UNCHANGED <<users, welcomed>>

Commit(w) ==
  /\ At(w, "register", "commit")
  /\ users' = users \cup {[email |-> req[w].email, password |-> req[w].password]}
  /\ Decide(w, "registered")
  /\ welcomed' = welcomed

(* login: get_by_email in a unit of work that ends before the password is  *)
(* verified.                                                               *)
Find(w) ==
  /\ At(w, "login", "get")
  /\ IF Named(req[w].email) = {}
     THEN Decide(w, "denied")
     ELSE req' = [req EXCEPT ![w].at = "verify", ![w].found = Named(req[w].email)]
  /\ UNCHANGED <<users, welcomed>>

(* asyncio.to_thread(verify), and the token or InvalidCredentialsError.    *)
Verify(w) ==
  /\ At(w, "login", "verify")
  /\ IF \E u \in req[w].found : u.password = req[w].password
     THEN Decide(w, "token") ELSE Decide(w, "denied")
  /\ UNCHANGED <<users, welcomed>>

(* The unit of work is closed and the response reaches the client.         *)
Close(w) ==
  /\ req[w].at = "close"
  /\ welcomed' = IF req[w].answer = "registered"
                 THEN welcomed \cup {[email |-> req[w].email, password |-> req[w].password]}
                 ELSE welcomed
  /\ req' = [req EXCEPT ![w] = Idle]
  /\ users' = users

(* A crash, a cancelled request or a lost connection: what is not committed*)
(* is rolled back; after Commit only the response is lost.                 *)
Abort(w) ==
  /\ req[w].at # "idle"
  /\ req' = [req EXCEPT ![w] = Idle]
  /\ UNCHANGED <<users, welcomed>>

Register(w) == LookUp(w) \/ Hash(w) \/ Insert(w) \/ Commit(w)
Login(w) == Find(w) \/ Verify(w)

Next == \E w \in Workers :
  \/ \E op \in {"register", "login"}, e \in Emails, p \in Passwords : Call(w, op, e, p)
  \/ Register(w) \/ Login(w) \/ Close(w) \/ Abort(w)

Spec == Init /\ [][Next]_vars

-----------------------------------------------------------------------------
(* Type invariant of the users table and of the requests' locals.          *)
TypeOK ==
  /\ users \subseteq User /\ welcomed \subseteq User
  /\ req \in [Workers -> Request]
  /\ \A u \in users : Normal[u.email] = u.email

(* One account an email, however many registrations of it passed the       *)
(* lookup while others were hashing their password.                        *)
AccountsUnique == \A u, v \in users : u.email = v.email => u = v

(* An answer is true when it is given: 201 names the caller's own row, 409 *)
(* an account that exists, and a token was earned with its password, also  *)
(* when the registration it raced with was rolled back.                    *)
AnswersTruthful == \A w \in Workers :
  LET mine == [email |-> req[w].email, password |-> req[w].password]
  IN  /\ req[w].answer \in {"registered", "token"} => mine \in users
      /\ req[w].answer = "taken" => Named(req[w].email) # {}

(* A registration that was acknowledged is for good: no login with its     *)
(* credentials is denied, whatever is registered under that email later.   *)
WelcomedCanLogin == \A w \in Workers : req[w].known => req[w].answer # "denied"
=============================================================================
