--------------------------- MODULE GatewayProofs ---------------------------
(***************************************************************************)
(* Proofs that accounts are unique, that register and login answer the     *)
(* truth, and that an acknowledged registration can always log in, for any *)
(* number of concurrent requests, emails and passwords; that the HTTP      *)
(* surface adds nothing to the accounts it serves: every step of it is a   *)
(* step of Accounts or leaves the accounts alone; and that no answer of a  *)
(* route tells a foreign portfolio from a missing one, for any requests,   *)
(* portfolios, accounts and troubles of the market.                        *)
(***************************************************************************)
EXTENDS Gateway, FiniteSetTheorems, TLAPS

Mine(w) == [email |-> req[w].email, password |-> req[w].password]

(* A request that is not idle carries normalized credentials.              *)
BusyInv == \A w \in Workers : req[w].at # "idle" =>
  /\ Mine(w) \in User /\ Normal[req[w].email] = req[w].email
  /\ req[w].answer # "none" <=> req[w].at = "close"

(* A row that is about to be committed still has its email for itself.     *)
FreeInv == \A w \in Workers : At(w, "register", "commit") =>
  /\ Named(req[w].email) = {}
  /\ \A v \in Workers \ {w} : At(v, "register", "commit") => req[v].email # req[w].email

(* What login has read is still what the table holds under the email.      *)
FoundInv == \A w \in Workers : req[w].at = "verify" =>
  req[w].found = Named(req[w].email) /\ req[w].found # {}

(* Acknowledged credentials are a row's, and those login knows of are too. *)
WelcomeInv ==
  /\ welcomed \subseteq users
  /\ \A w \in Workers : req[w].known => Mine(w) \in users

IInv ==
  /\ TypeOK /\ BusyInv /\ FreeInv /\ FoundInv /\ WelcomeInv
  /\ AccountsUnique /\ AnswersTruthful /\ WelcomedCanLogin

(* Every step but a call, a commit and the end of a request leaves the     *)
(* tables and the credentials of every request as they are.                *)
Inner(w) == LookUp(w) \/ Hash(w) \/ Insert(w) \/ Find(w) \/ Verify(w)

-----------------------------------------------------------------------------
(* The invariant holds before the first request.                           *)
LEMMA InitIInv == Init => IInv
  BY BlankAssumption DEF Init, IInv, TypeOK, Request, BusyInv, FreeInv, FoundInv, WelcomeInv,
     AccountsUnique, AnswersTruthful, WelcomedCanLogin, Idle, At, User, Mine, Named

(* A new request has its normalized credentials and nothing else.          *)
LEMMA CallStep ==
  ASSUME IInv, NEW w \in Workers, NEW op \in {"register", "login"},
         NEW e \in Emails, NEW p \in Passwords, Call(w, op, e, p)
  PROVE  IInv'
<1> USE DEF IInv, Call, TypeOK, Request, Idle, Mine, At, Named
<1>1. Normal[e] \in Emails /\ Normal[Normal[e]] = Normal[e]
  BY EmailsAssumption
<1>2. TypeOK'
  BY <1>1
<1>3. BusyInv'
  BY <1>1 DEF BusyInv, User
<1>4. FreeInv' /\ FoundInv'
  BY <1>1 DEF FreeInv, FoundInv
<1>5. WelcomeInv'
  BY <1>1 DEF WelcomeInv
<1>6. AccountsUnique' /\ AnswersTruthful' /\ WelcomedCanLogin'
  BY DEF AccountsUnique, AnswersTruthful, WelcomedCanLogin
<1> QED
  BY <1>2, <1>3, <1>4, <1>5, <1>6

(* The end of a request, acknowledged or not.                              *)
LEMMA EndStep ==
  ASSUME IInv, NEW w \in Workers, Close(w) \/ Abort(w)
  PROVE  IInv'
<1> USE DEF IInv, Close, Abort, TypeOK, Request, Idle, Mine, At, Named
<1>1. users' = users /\ req' = [req EXCEPT ![w] = Idle]
  OBVIOUS
<1>2. welcomed' \subseteq users
  BY DEF WelcomeInv, AnswersTruthful
<1>3. TypeOK'
  BY <1>1, <1>2
<1>4. BusyInv' /\ FreeInv' /\ FoundInv'
  BY <1>1 DEF BusyInv, FreeInv, FoundInv, User
<1>5. WelcomeInv'
  BY <1>1, <1>2 DEF WelcomeInv
<1>6. AccountsUnique' /\ AnswersTruthful' /\ WelcomedCanLogin'
  BY <1>1 DEF AccountsUnique, AnswersTruthful, WelcomedCanLogin
<1> QED
  BY <1>3, <1>4, <1>5, <1>6

(* The steps between: only at Insert does the email become the worker's.   *)
LEMMA InnerStep ==
  ASSUME IInv, NEW w \in Workers, Inner(w)
  PROVE  IInv'
<1> USE DEF IInv, Inner, LookUp, Hash, Insert, Find, Verify, Goto, Decide, At
<1>1. /\ users' = users /\ welcomed' = welcomed
      /\ \A v \in Workers \ {w} : req'[v] = req[v]
      /\ Mine(w)' = Mine(w) /\ req'[w].known = req[w].known /\ req'[w].op = req[w].op
      /\ req[w].at # "idle" /\ req'[w].at # "idle" /\ req[w].at # "close"
      /\ \A email : Named(email)' = Named(email)
  BY DEF TypeOK, Request, Mine, Named
<1>2. TypeOK'
  BY DEF TypeOK, Request, Named, User
<1>3. BusyInv'
  BY <1>1 DEF BusyInv, TypeOK, Request, Mine
<1>4. FreeInv'
  <2>1. ASSUME At(w, "register", "commit")'
        PROVE  /\ Named(req[w].email) = {}
               /\ \A v \in Workers \ {w} :
                    At(v, "register", "commit") => req[v].email # req[w].email
    BY <2>1, <1>1 DEF TypeOK, Request
  <2> QED
    BY <1>1, <2>1 DEF FreeInv, Mine
<1>5. FoundInv'
  BY <1>1 DEF FoundInv, TypeOK, Request, Mine
<1>6. WelcomeInv' /\ AccountsUnique'
  BY <1>1 DEF WelcomeInv, AccountsUnique, Mine
<1>7. AnswersTruthful'
  <2>1. req'[w].answer = "taken" => Named(req[w].email) # {}
    BY <1>1 DEF TypeOK, Request, BusyInv
  <2>2. req'[w].answer \in {"registered", "token"} => Mine(w) \in users
    BY <1>1 DEF TypeOK, Request, BusyInv, FoundInv, Named, Mine, User
  <2> QED
    BY <1>1, <2>1, <2>2 DEF AnswersTruthful, Mine
<1>8. WelcomedCanLogin'
  <2>1. req[w].known => req'[w].answer # "denied"
    BY <1>1 DEF TypeOK, Request, BusyInv, FoundInv, WelcomeInv, Named, Mine
  <2> QED
    BY <1>1, <2>1 DEF WelcomedCanLogin
<1> QED
  BY <1>2, <1>3, <1>4, <1>5, <1>6, <1>7, <1>8

(* A commit adds a row under an email that has none.                       *)
LEMMA CommitStep ==
  ASSUME IInv, NEW w \in Workers, Commit(w)
  PROVE  IInv'
<1> USE DEF IInv, Commit, Decide, At
<1>1. /\ users' = users \cup {Mine(w)} /\ welcomed' = welcomed
      /\ \A v \in Workers \ {w} : req'[v] = req[v]
      /\ Mine(w)' = Mine(w) /\ req'[w].known = req[w].known
      /\ req'[w].at = "close" /\ req'[w].answer = "registered"
      /\ req[w].at = "commit" /\ req[w].op = "register"
  BY DEF TypeOK, Request, Mine
<1>2. Mine(w) \in User /\ Normal[req[w].email] = req[w].email
  BY <1>1 DEF BusyInv
<1>3. Named(req[w].email) = {}
  BY <1>1 DEF FreeInv
<1>4. \A email : email # req[w].email => Named(email)' = Named(email)
  BY <1>1 DEF Named, Mine
<1>5. TypeOK'
  <2>1. req' \in [Workers -> Request]
    <3> DEFINE decided == [req[w] EXCEPT !.at = "close", !.answer = "registered"]
    <3>1. req \in [Workers -> Request] /\ req' = [req EXCEPT ![w] = decided]
      BY DEF TypeOK
    <3>2. decided \in Request
      BY <3>1 DEF Request
    <3> HIDE DEF decided
    <3> QED
      BY <3>1, <3>2
  <2>2. users' \subseteq User /\ \A u \in users' : Normal[u.email] = u.email
    BY <1>1, <1>2 DEF TypeOK, Mine
  <2> QED
    BY <1>1, <2>1, <2>2 DEF TypeOK
<1>6. BusyInv'
  BY <1>1, <1>2 DEF BusyInv, Mine
<1>7. FreeInv'
  <2> SUFFICES ASSUME NEW v \in Workers, At(v, "register", "commit")'
               PROVE  /\ Named(req[v].email)' = {}
                      /\ \A x \in Workers \ {v} :
                           At(x, "register", "commit")' => req'[x].email # req'[v].email
    BY DEF FreeInv
  <2>1. v # w /\ req'[v] = req[v]
    BY <1>1
  <2>2. req[v].email # req[w].email /\ Named(req[v].email) = {}
    BY <1>1, <2>1 DEF FreeInv
  <2>3. \A x \in Workers \ {v} :
          At(x, "register", "commit")' => req'[x].email # req'[v].email
    BY <1>1, <2>1 DEF FreeInv
  <2>4. Named(req[v].email)' = {}
    <3>1. \A u \in users' : u.email # req[v].email
      BY <1>1, <2>2 DEF Named, Mine
    <3> QED
      BY <2>1, <3>1 DEF Named
  <2> QED
    BY <2>3, <2>4
<1>8. FoundInv'
  <2>1. ASSUME NEW v \in Workers, req[v].at = "verify"
        PROVE  req[v].email # req[w].email
    BY <2>1, <1>3 DEF FoundInv
  <2> QED
    BY <1>1, <1>4, <2>1 DEF FoundInv
<1>9. WelcomeInv'
  BY <1>1 DEF WelcomeInv, Mine
<1>10. AccountsUnique'
  BY <1>1, <1>3 DEF AccountsUnique, Named, Mine
<1>11. AnswersTruthful'
  <2>1. \A v \in Workers \ {w} : req'[v].answer = req[v].answer /\ Mine(v)' = Mine(v)
    BY <1>1 DEF Mine
  <2>2. \A email : Named(email) \subseteq Named(email)'
    BY <1>1 DEF Named
  <2> QED
    BY <1>1, <2>1, <2>2 DEF AnswersTruthful, Mine
<1>12. WelcomedCanLogin'
  BY <1>1 DEF WelcomedCanLogin
<1> QED
  BY <1>5, <1>6, <1>7, <1>8, <1>9, <1>10, <1>11, <1>12

-----------------------------------------------------------------------------
(* No step of registration or login leaves the invariant.                  *)
LEMMA CoreStep ==
  ASSUME IInv, [Next]_vars
  PROVE  IInv'
<1>1. CASE UNCHANGED vars
  BY <1>1 DEF vars, IInv, TypeOK, BusyInv, FreeInv, FoundInv, WelcomeInv, AccountsUnique,
     AnswersTruthful, WelcomedCanLogin, Mine, At, Named
<1> QED
  BY <1>1, CallStep, EndStep, InnerStep, CommitStep DEF Next, Register, Login, Inner

(* The inductive invariant of registration and login.                      *)
THEOREM Invariance == Spec => []IInv
  BY InitIInv, CoreStep, PTL DEF Spec

(* Types of the table and of the requests, and normalized emails.          *)
THEOREM TypeCorrect == Spec => []TypeOK
  BY Invariance, PTL DEF IInv

(* No email gets a second account, whichever registrations race for it.    *)
THEOREM AccountsAreUnique == Spec => []AccountsUnique
  BY Invariance, PTL DEF IInv

(* 201, 409 and the token of a login each tell the truth about the table.  *)
THEOREM AnswersAreTruthful == Spec => []AnswersTruthful
  BY Invariance, PTL DEF IInv

(* Credentials a client was told are registered are never denied again.    *)
THEOREM WelcomedAlwaysLogIn == Spec => []WelcomedCanLogin
  BY Invariance, PTL DEF IInv

-----------------------------------------------------------------------------
(* Every step of the surface is one of Accounts, or none.                  *)
LEMMA GatewayStep ==
  ASSUME GatewayNext
  PROVE  [Next]_vars
<1>1. ASSUME NEW i \in Instances, NEW weather \in Weathers, NEW narrator \in Narrators,
             Play(i, weather, narrator)
      PROVE  UNCHANGED vars
  BY <1>1 DEF Play, vars
<1>2. ASSUME NEW i \in Instances, NEW weather \in Weathers, NEW p \in Portfolios,
             PlayCreate(i, weather, p)
      PROVE  UNCHANGED vars
  BY <1>2 DEF PlayCreate, vars
<1>3. ASSUME NEW weather \in Weathers, PlayAuth(weather)
      PROVE  [Next]_vars
  <2>1. CASE UNCHANGED vars
    BY <2>1
  <2>2. CASE Call(Driver, Line.op, Cast[Line.as].email, Cast[Line.as].password)
    <3>1. Driver \in Workers /\ Line.op \in {"register", "login"}
      BY <1>3, GatewayAssumption DEF PlayAuth
    <3>2. Line.as \in 1 .. 2
      BY <1>3 DEF PlayAuth, Playing, Line, Script, Cue
    <3>3. Cast[Line.as].email \in Emails /\ Cast[Line.as].password \in Passwords
      BY <3>2, GatewayAssumption
    <3> QED
      BY <2>2, <3>1, <3>3 DEF Next
  <2> QED
    BY <1>3, <2>1, <2>2 DEF PlayAuth
<1>4. ASSUME NEW w \in Workers,
             \/ \E op \in {"register", "login"}, e \in Emails, p \in Passwords :
                  Enter(w, op, e, p)
             \/ Work(w) \/ Curtain(w) \/ Drop(w) \/ \E i \in Instances : Enough(w, i)
      PROVE  Next
  BY <1>4 DEF Enter, Work, Curtain, Drop, Enough, Next, Login
<1>5. ASSUME NEW sub \in Holders, NEW i \in Instances, NEW p \in Portfolios,
             \/ \E op \in {"create_transaction", "commit"}, author \in Authors,
                   row \in {"buy", "sell"} : Visit(sub, i, p, op, row, author)
             \/ VisitCreate(sub, i, p)
      PROVE  UNCHANGED vars
  BY <1>5 DEF Visit, VisitCreate, vars
<1>6. CASE Tick
  BY <1>6 DEF Tick, vars
<1> QED
  BY <1>1, <1>2, <1>3, <1>4, <1>5, <1>6 DEF GatewayNext

(* Behind the routes, the demo and the tokens, the users table and the     *)
(* requests to /auth behave as Accounts says.                              *)
THEOREM GatewayRefinesAccounts == GatewaySpec => Spec
<1>1. GatewayInit => Init
  BY DEF GatewayInit
<1>2. [GatewayNext]_<<vars, doors>> => [Next]_vars
  BY GatewayStep DEF vars
<1> QED
  BY <1>1, <1>2, PTL DEF GatewaySpec, Spec

(* Accounts stay unique, answers true and registrations for good, behind   *)
(* the gateway too.                                                        *)
COROLLARY AccountsBehindTheGateway ==
  GatewaySpec => [](AccountsUnique /\ AnswersTruthful /\ WelcomedCanLogin)
  BY GatewayRefinesAccounts, AccountsAreUnique, AnswersAreTruthful, WelcomedAlwaysLogIn, PTL

(* No account can tell a portfolio of another from one that does not       *)
(* exist: whichever service a route calls finds neither, and nothing before*)
(* it has looked at the portfolio.                                         *)
THEOREM ForeignIsAlwaysMissing == GatewaySpec => []ForeignIsMissing
<1>1. ForeignIsMissing
  <2> SUFFICES ASSUME NEW p \in Portfolios, NEW sub \in Holders,
                      shelf[p].owner \notin {Blank, sub},
                      NEW q \in Asks(p), NEW weather \in {"clear"} \cup Troubles
               PROVE  Admitted(sub, q, weather) =
                      Admitted(sub, [q EXCEPT !.p = Nowhere], weather)
    BY DEF ForeignIsMissing
  <2> DEFINE r == [q EXCEPT !.p = Nowhere]
  <2>1. q.p = p /\ r.p = Nowhere /\ r.content = q.content
    BY DEF Asks, Ask
  <2>2. ~Owned(sub, q.p) /\ ~Owned(sub, r.p)
    BY <2>1 DEF Owned
  <2>3. q.op \in PortfolioOps /\ r.op = q.op
    BY DEF Asks, Ask, PortfolioOps
  <2>4. Served(sub, q, weather) = "portfolio_not_found"
    BY <2>2, <2>3 DEF Served, PortfolioOps, Created, Imported, Analysed, Shown
  <2>5. Served(sub, r, weather) = "portfolio_not_found"
    BY <2>2, <2>3 DEF Served, PortfolioOps, Created, Imported, Analysed, Shown
  <2> QED
    BY <2>1, <2>4, <2>5 DEF Admitted
<1> QED
  BY <1>1, PTL

-----------------------------------------------------------------------------
Entry == [owner : Holders \cup {Blank}, rows : [RowIds -> {"absent"} \cup Authors],
          snapshots : SUBSET {"deterministic_rules", "model"}]

Stand == [step : 0 .. 18, phase : {"ready", "waiting", "failed"},
          portfolio : Portfolios \cup {Nowhere},
          excuses : SUBSET (Weathers \cup {"model", "clock", "taken"})]

GatewayTypeOK ==
  /\ now \in Nat /\ tokens \in [Holders -> [iat : Int, born : Int]]
  /\ shelf \in [Portfolios -> Entry]
  /\ demo \in Stand

(* A token says when and by which clock it was issued.                     *)
TokenInv == \A sub \in Holders : tokens[sub] # NoToken =>
  /\ tokens[sub].born \in 0 .. now
  /\ \E i \in Instances : tokens[sub].iat = tokens[sub].born + Skew[i]

VacantInv == \A p \in Portfolios : shelf[p].owner = Blank => shelf[p] = Vacant

(* Nobody else has a password of the demo.                                 *)
GuestInv == \A w \in Workers \ {Driver} : req[w].at # "idle" => Secret(req[w].password)

(* The Driver serves the line of the script that is being played.          *)
DriverInv ==
  /\ req[Driver].at # "idle" <=> demo.phase = "waiting"
  /\ demo.phase # "waiting" => req[Driver].answer = "none"
  /\ demo.phase = "waiting" =>
       /\ demo.step \in 1 .. 17 /\ Line.op \in {"register", "login"}
       /\ req[Driver].op = Line.op
       /\ req[Driver].email = Player(Line.as) /\ req[Driver].password = Cast[Line.as].password
       /\ req[Driver].answer \in
            {"none"} \cup (IF Line.op = "register" THEN {"registered", "taken"} ELSE {"token"})
       /\ req[Driver].answer = "token" => tokens[req[Driver].email] # NoToken

(* The lines that register the accounts of the demo and log them in.       *)
RegisterLine == <<2, 14>>
LoginLine == <<3, 15>>
Star(k) == [email |-> Player(k), password |-> Cast[k].password]

(* An account of the demo is there from the line that registers it, by the *)
(* demo alone, and has a token from the line that logs it in.              *)
CastInv == \A k \in 1 .. 2 :
  /\ Star(k) \in users => demo.step > RegisterLine[k]
                           \/ (demo.step = RegisterLine[k] /\ req[Driver].answer = "registered")
  /\ demo.step > RegisterLine[k] => Star(k) \in users
  /\ demo.step > LoginLine[k] => tokens[Player(k)] # NoToken

(* What the demo has in its portfolio when it comes to a line.             *)
StageInv == demo.step > 4 =>
  /\ demo.portfolio \in Portfolios /\ shelf[demo.portfolio].owner = Player(1)
  /\ shelf[demo.portfolio].rows["deposit"] = (IF demo.step > 7 THEN "demo" ELSE "absent")
  /\ shelf[demo.portfolio].rows["buy"] = (IF demo.step > 8 THEN "demo" ELSE "absent")
  /\ demo.step > 12 => "deterministic_rules" \in shelf[demo.portfolio].snapshots

DemoInv ==
  /\ demo.phase = "failed" => demo.excuses # {}
  /\ demo.phase # "failed" => demo.step \in 1 .. 18 /\ CastInv /\ StageInv

GatewayInv ==
  /\ IInv /\ GatewayTypeOK /\ TokenInv /\ VacantInv /\ GuestInv /\ DriverInv /\ DemoInv

-----------------------------------------------------------------------------
(* Of a set of numbers, the least.                                         *)
LEMMA Least ==
  ASSUME NEW T \in SUBSET Nat, T # {}
  PROVE  \E x \in T : \A y \in T : x <= y
<1>1. PICK x \in T : \A y \in T : <<y, x>> \notin OpToRel(<, Nat)
  BY WFMin, NatLessThanWellFounded
<1>2. \A y \in T : ~(y < x)
  BY <1>1 DEF OpToRel
<1> QED
  BY <1>2

(* Finitely many clocks have one that is ahead of all.                     *)
LEMMA LeadingClock ==
  ASSUME NEW S \in SUBSET Instances, S # {}
  PROVE  \E i \in S : \A j \in S : Skew[j] <= Skew[i]
<1> DEFINE Leads(T) == \E i \in T : \A j \in T : Skew[j] <= Skew[i]
           Bad == {n \in Nat : \E T \in SUBSET Instances :
                     T # {} /\ Cardinality(T) = n /\ ~Leads(T)}
<1>1. \A T \in SUBSET Instances : IsFiniteSet(T) /\ Cardinality(T) \in Nat
  BY GatewayAssumption, FS_Subset, FS_CardinalityType
<1>2. SUFFICES ASSUME Bad # {} PROVE FALSE
  BY <1>1
<1>3. PICK n \in Bad : \A k \in Bad : n <= k
  BY <1>2, Least
<1>4. PICK T \in SUBSET Instances : T # {} /\ Cardinality(T) = n /\ ~Leads(T)
  BY <1>3
<1>5. PICK i \in T : TRUE
  BY <1>4
<1>6. IsFiniteSet(T \ {i}) /\ Cardinality(T \ {i}) = n - 1 /\ n \in Nat /\ n # 0
  BY <1>1, <1>4, <1>5, FS_RemoveElement, FS_EmptySet
<1>7. n - 1 \notin Bad
  <2> HIDE DEF Bad
  <2> QED
    BY <1>3, <1>6
<1>8. T \ {i} = {} \/ Leads(T \ {i})
  <2>1. T \ {i} \in SUBSET Instances /\ n - 1 \in Nat
    BY <1>6
  <2> HIDE DEF Leads
  <2> QED
    BY <2>1, <1>6, <1>7
<1>9. \A j \in Instances : Skew[j] \in Nat
  BY GatewayAssumption
<1> QED
  BY <1>4, <1>5, <1>8, <1>9

(* Spread is the most by which one clock is ahead of another.              *)
LEMMA SpreadFacts ==
  ASSUME NEW i \in Instances, NEW j \in Instances
  PROVE  Spread \in Int /\ Skew[i] - Skew[j] <= Spread
<1> DEFINE D == {Skew[a] - Skew[b] : a, b \in Instances}
<1>1. \A a \in Instances : Skew[a] \in Nat
  BY GatewayAssumption
<1>2. PICK a \in Instances : \A k \in Instances : Skew[k] <= Skew[a]
  BY LeadingClock
<1>3. {Skew[k] : k \in Instances} \in SUBSET Nat /\ {Skew[k] : k \in Instances} # {}
  BY <1>1
<1>4. PICK b \in Instances : \A k \in Instances : Skew[b] <= Skew[k]
  <2>1. PICK x \in {Skew[k] : k \in Instances} : \A y \in {Skew[k] : k \in Instances} : x <= y
    BY <1>3, Least
  <2> QED
    BY <2>1
<1>5. \A k, l \in Instances : Skew[k] - Skew[l] <= Skew[a] - Skew[b]
  BY <1>1, <1>2, <1>4
<1>6. \E d \in D : \A k, l \in Instances : Skew[k] - Skew[l] <= d
  BY <1>5
<1>7. Spread \in D /\ \A k, l \in Instances : Skew[k] - Skew[l] <= Spread
  BY <1>6 DEF Spread
<1> QED
  BY <1>1, <1>7

(* A token of the demo that has not aged is honoured by every instance.    *)
LEMMA YoungIsHonoured ==
  ASSUME TokenInv, GatewayTypeOK, NEW k \in 1 .. 2, NEW i \in Instances,
         Player(k) \in Holders, tokens[Player(k)] # NoToken, Star(k) \in users, ~Aged(k)
  PROVE  Honoured(Player(k), i)
<1> DEFINE t == tokens[Player(k)]
<1>1. PICK j \in Instances : t.born \in 0 .. now /\ t.iat = t.born + Skew[j]
  BY DEF TokenInv
<1>2. now \in Nat /\ Skew[i] \in Nat /\ Skew[j] \in Nat /\ Lifetime \in Nat
  BY GatewayAssumption DEF GatewayTypeOK
<1>3. Spread \in Int /\ Skew[j] - Skew[i] <= Spread /\ Skew[i] - Skew[j] <= Spread
  BY SpreadFacts
<1>4. ~(now - t.born < Spread) /\ ~(now - t.born >= Lifetime - Spread)
  BY DEF Aged
<1>5. t.iat <= Clock(i) /\ Clock(i) < t.iat + Lifetime
  <2> HIDE DEF t
  <2> QED
    BY <1>1, <1>2, <1>3, <1>4 DEF Clock
<1>6. Named(Player(k)) # {}
  BY DEF Named, Star
<1> QED
  BY <1>5, <1>6 DEF Honoured, Verified

-----------------------------------------------------------------------------
(* What every step of the gateway preserves of registration and login.     *)
LEMMA IInvStep ==
  ASSUME IInv, GatewayNext
  PROVE  IInv'
  BY GatewayStep, CoreStep

(* A route that answers ok or created has found the caller's portfolio.    *)
LEMMA AnswerFacts ==
  ASSUME NEW sub, NEW i, NEW q, NEW weather \in Weathers, q.op \in PortfolioOps,
         Answer(sub, i, q, weather) \in {"ok", "created"}
  PROVE  Owned(sub, q.p) /\ Answer(sub, i, q, weather) = Served(sub, q, weather)
<1>1. weather \notin {"ok", "created"}
  BY GatewayAssumption DEF Weathers
<1>2. Answer(sub, i, q, weather) = Served(sub, q, weather)
  BY DEF Answer, Admitted
<1>3. Served(sub, q, weather) \in {"ok", "created"} => Owned(sub, q.p)
  BY <1>1 DEF Served, PortfolioOps, Created, Imported, Analysed, Shown
<1> QED
  BY <1>2, <1>3

(* In fair weather, an honoured request is answered by its service.        *)
LEMMA FairAnswer ==
  ASSUME NEW sub, NEW i, NEW q, q.content = "fit", Honoured(sub, i)
  PROVE  Answer(sub, i, q, "clear") = Served(sub, q, "clear")
  BY DEF Answer, Admitted

(* A portfolio with one row or one snapshot more.                          *)
LEMMA EntryFacts ==
  ASSUME NEW e \in Entry, NEW q, q.row \in RowIds, q.author \in Authors,
         NEW narrator \in Narrators
  PROVE  /\ Written(e, q) \in Entry /\ Recorded(e, narrator) \in Entry
         /\ Written(e, q).owner = e.owner /\ Recorded(e, narrator).owner = e.owner
         /\ Written(e, q).rows = [e.rows EXCEPT ![q.row] = q.author]
         /\ Recorded(e, narrator).rows = e.rows
         /\ Written(e, q).snapshots = e.snapshots
         /\ Recorded(e, narrator).snapshots = e.snapshots \cup {narrator}
<1>1. narrator \in {"deterministic_rules", "model"}
  BY DEF Narrators
<1>2. e.rows \in [RowIds -> {"absent"} \cup Authors]
      /\ e.snapshots \in SUBSET {"deterministic_rules", "model"}
  BY DEF Entry
<1> DEFINE rows == [e.rows EXCEPT ![q.row] = q.author]
<1>3. rows \in [RowIds -> {"absent"} \cup Authors]
  BY <1>2
<1> HIDE DEF rows
<1>4. [e EXCEPT !.rows = rows] \in Entry /\ [e EXCEPT !.rows = rows].owner = e.owner
      /\ [e EXCEPT !.rows = rows].rows = rows /\ [e EXCEPT !.rows = rows].snapshots = e.snapshots
  BY <1>3 DEF Entry
<1>5. /\ Recorded(e, narrator) \in Entry /\ Recorded(e, narrator).owner = e.owner
      /\ Recorded(e, narrator).rows = e.rows
      /\ Recorded(e, narrator).snapshots = e.snapshots \cup {narrator}
  BY <1>1 DEF Recorded, Entry
<1>6. Written(e, q) = [e EXCEPT !.rows = rows]
  BY DEF Written, rows
<1> QED
  BY <1>4, <1>5, <1>6 DEF rows

(* What a request does to the shelf: one row or one snapshot of a portfolio*)
(* that has an owner, or nothing.                                          *)
LEMMA EffectFacts ==
  ASSUME shelf \in [Portfolios -> Entry], VacantInv,
         NEW q, q.p \in Portfolios, q.row \in RowIds, q.author \in Authors,
         NEW answer, NEW narrator \in Narrators,
         answer \in {"ok", "created"} => shelf[q.p].owner # Blank,
         shelf' = Effect(q, answer, narrator)
  PROVE  /\ shelf' \in [Portfolios -> Entry] /\ VacantInv'
         /\ \A p \in Portfolios :
              /\ shelf'[p].owner = shelf[p].owner
              /\ shelf[p].snapshots \subseteq shelf'[p].snapshots
              /\ p # q.p => shelf'[p] = shelf[p]
         /\ shelf'[q.p].rows =
              IF \/ q.op = "create_transaction" /\ answer = "created"
                 \/ q.op = "commit" /\ answer = "ok" /\ Posted(q) = "created"
              THEN [shelf[q.p].rows EXCEPT ![q.row] = q.author] ELSE shelf[q.p].rows
         /\ q.op = "insight" /\ answer = "ok" => narrator \in shelf'[q.p].snapshots
<1> DEFINE e == shelf[q.p]
           stores == \/ q.op = "create_transaction" /\ answer = "created"
                     \/ q.op = "commit" /\ answer = "ok" /\ Posted(q) = "created"
           records == q.op = "insight" /\ answer = "ok"
<1>1. e \in Entry
  OBVIOUS
<1>2. shelf' = IF stores THEN [shelf EXCEPT ![q.p] = Written(e, q)]
               ELSE IF records THEN [shelf EXCEPT ![q.p] = Recorded(e, narrator)] ELSE shelf
  BY DEF Effect, Stored, Snapped
<1>3. stores => answer \in {"ok", "created"} /\ ~records
  OBVIOUS
<1>4. records => answer \in {"ok", "created"}
  OBVIOUS
<1> DEFINE w == Written(e, q)
           r == Recorded(e, narrator)
<1>5. /\ w \in Entry /\ r \in Entry /\ w.owner = e.owner /\ r.owner = e.owner
      /\ w.rows = [e.rows EXCEPT ![q.row] = q.author] /\ r.rows = e.rows
      /\ w.snapshots = e.snapshots /\ r.snapshots = e.snapshots \cup {narrator}
  BY <1>1, EntryFacts
<1> HIDE DEF stores, records, w, r
<1>6. \E x \in {e, w, r} :
        /\ shelf' = [shelf EXCEPT ![q.p] = x]
        /\ x = (IF stores THEN w ELSE IF records THEN r ELSE e)
  BY <1>2 DEF w, r
<1>7. PICK x \in {e, w, r} : /\ shelf' = [shelf EXCEPT ![q.p] = x]
                             /\ x = (IF stores THEN w ELSE IF records THEN r ELSE e)
  BY <1>6
<1>8. shelf' \in [Portfolios -> Entry] /\ shelf'[q.p] = x
      /\ \A p \in Portfolios : p # q.p => shelf'[p] = shelf[p]
  BY <1>1, <1>5, <1>7
<1>9. x.owner = e.owner /\ e.snapshots \subseteq x.snapshots
      /\ x.rows = (IF stores THEN [e.rows EXCEPT ![q.row] = q.author] ELSE e.rows)
      /\ (records => narrator \in x.snapshots)
  BY <1>3, <1>5, <1>7
<1>10. e.owner = Blank => x = e
  BY <1>3, <1>4, <1>7
<1>11. VacantInv'
  BY <1>8, <1>9, <1>10 DEF VacantInv
<1> QED
  BY <1>8, <1>9, <1>11 DEF stores, records

-----------------------------------------------------------------------------
(* The accounts of the demo are two holders with passwords of their own.   *)
LEMMA CastFacts ==
  /\ Player(1) # Player(2)
  /\ \A k \in 1 .. 2 : /\ Player(k) \in Holders /\ Player(k) \in Emails /\ Player(k) # Blank
                       /\ Star(k) \in User /\ Star(k).email = Player(k)
                       /\ Star(k).password = Cast[k].password
<1>1. \A k \in 1 .. 2 : Cast[k].email \in Emails /\ Cast[k].password \in Passwords
  BY GatewayAssumption
<1> QED
  BY <1>1, GatewayAssumption, EmailsAssumption, BlankAssumption DEF Player, Holders, Star, User

(* A line of the script that Play plays, its request and its answer.       *)
PlaySub == IF Line.as = 0 THEN Blank ELSE Player(Line.as)
PlayAnswer(i, weather) ==
  IF Line.op \in {"health", "list_portfolios"}
  THEN Unowned(Line.op, PlaySub, i, weather) ELSE Answer(PlaySub, i, Scripted(Line), weather)

(* Play without its LET: the answer, its effect, and on or to a stop.      *)
LEMMA PlayFacts ==
  ASSUME NEW i \in Instances, NEW weather \in Weathers, NEW narrator \in Narrators,
         Play(i, weather, narrator)
  PROVE  /\ demo.phase = "ready" /\ demo.step \in {1, 5, 6, 7, 8, 9, 10, 11, 12, 13, 16, 17}
         /\ shelf' = IF Line.op \in {"health", "list_portfolios"} THEN shelf
                     ELSE Effect(Scripted(Line), PlayAnswer(i, weather), narrator)
         /\ \/ Passes(Line, PlaySub, PlayAnswer(i, weather), narrator) /\ Advance
            \/ /\ ~Passes(Line, PlaySub, PlayAnswer(i, weather), narrator)
               /\ Stop(Excuses(Line.as, weather, narrator))
         /\ users' = users /\ req' = req /\ welcomed' = welcomed
         /\ now' = now /\ tokens' = tokens
<1>1. demo.phase = "ready" /\ demo.step \in DOMAIN Script
      /\ Line.op \notin {"register", "login", "create_portfolio"}
  BY DEF Play, Playing
<1>2. demo.step \in 1 .. 17
  BY <1>1 DEF Script
<1>3. demo.step \in {1, 5, 6, 7, 8, 9, 10, 11, 12, 13, 16, 17}
  BY <1>1, <1>2 DEF Line, Script, Cue
<1> QED
  BY <1>1, <1>3 DEF Play, Proceed, PlaySub, PlayAnswer, vars

(* The lines that Play plays.                                              *)
Says(line, op, as, expect) == line.op = op /\ line.as = as /\ line.expect = expect
(* The lines of the script.                                                *)
LEMMA Lines ==
  /\ demo.step = 1  => Says(Line, "health", 0, 200)
  /\ demo.step = 2  => Says(Line, "register", 1, 201)
  /\ demo.step = 3  => Says(Line, "login", 1, 200)
  /\ demo.step = 4  => Says(Line, "create_portfolio", 1, 201)
  /\ demo.step = 6  => Says(Line, "list_portfolios", 1, 200)
  /\ demo.step = 7  => Says(Line, "deposit", 1, 201)
  /\ demo.step = 8  => Says(Line, "buy", 1, 201)
  /\ demo.step = 9  => Says(Line, "buy", 1, 200)
  /\ demo.step = 11 => Says(Line, "analytics", 1, 200)
  /\ demo.step = 12 => Says(Line, "insight", 1, 200)
  /\ demo.step \in {5, 10, 13} =>
       /\ \E op \in {"get", "list_transactions", "list_snapshots"} : Says(Line, op, 1, 200)
       /\ Line.op = "list_snapshots" => demo.step = 13
  /\ demo.step = 14 => Says(Line, "register", 2, 201)
  /\ demo.step = 15 => Says(Line, "login", 2, 200)
  /\ demo.step = 16 => Says(Line, "get", 2, 404)
  /\ demo.step = 17 => Says(Line, "get_missing", 2, 404)
  BY DEF Line, Script, Cue, Says

(* A line without an excuse passes.                                        *)
LEMMA PlayPasses ==
  ASSUME GatewayInv, NEW i \in Instances, NEW weather \in Weathers, NEW narrator \in Narrators,
         Play(i, weather, narrator), Excuses(Line.as, weather, narrator) = {}
  PROVE  Passes(Line, PlaySub, PlayAnswer(i, weather), narrator)
<1> DEFINE q == Scripted(Line)
           p == demo.portfolio
           answer == PlayAnswer(i, weather)
<1>1. weather = "clear" /\ narrator = "deterministic_rules" /\ ~(Line.as > 0 /\ Aged(Line.as))
  BY DEF Excuses, Narrators
<1>2. demo.phase = "ready" /\ demo.step \in {1, 5, 6, 7, 8, 9, 10, 11, 12, 13, 16, 17}
      /\ CastInv /\ StageInv
  BY PlayFacts DEF GatewayInv, DemoInv
<1>3. \A k \in 1 .. 2 : (k = 1 /\ demo.step > 4) \/ (k = 2 /\ demo.step > 15) =>
        tokens[Player(k)] # NoToken /\ Star(k) \in users
  BY <1>2 DEF CastInv, RegisterLine, LoginLine
<1>4. \A k \in 1 .. 2 : (k = 1 /\ demo.step > 4) \/ (k = 2 /\ demo.step > 15) =>
        (Line.as = k => Honoured(Player(k), i))
  BY <1>1, <1>3, YoungIsHonoured, CastFacts DEF GatewayInv
<1>5. CASE demo.step = 1
  <2>1. Says(Line, "health", 0, 200)
    BY <1>5, Lines
  <2>2. answer = "ok"
    BY <2>1, <1>1 DEF PlayAnswer, Unowned, Says
  <2> QED
    BY <2>1, <2>2 DEF Passes, Status, Says
<1>6. CASE demo.step \in {5, 6, 7, 8, 9, 10, 11, 12, 13}
  <2>1. Line.as = 1 /\ PlaySub = Player(1) /\ Honoured(Player(1), i) /\ p # Nowhere
        /\ Owned(Player(1), p) /\ shelf[p].owner = Player(1)
        /\ shelf[p].rows["deposit"] = (IF demo.step > 7 THEN "demo" ELSE "absent")
        /\ shelf[p].rows["buy"] = (IF demo.step > 8 THEN "demo" ELSE "absent")
        /\ (demo.step > 12 => "deterministic_rules" \in shelf[p].snapshots)
    <3>1. Line.as = 1
      BY <1>6, Lines DEF Says
    <3>2. p \in Portfolios /\ shelf[p].owner = Player(1)
      BY <1>2, <1>6 DEF StageInv
    <3>3. p # Nowhere
      BY <3>2, GatewayAssumption
    <3> QED
      BY <3>1, <3>2, <3>3, <1>2, <1>4, <1>6 DEF PlaySub, StageInv, Owned
  <2>2. CASE demo.step = 6
    <3>1. Says(Line, "list_portfolios", 1, 200)
      BY <2>2, Lines
    <3>2. answer = "ok"
      BY <2>1, <3>1, <1>1 DEF PlayAnswer, Unowned, Says
    <3> QED
      BY <2>1, <3>1, <3>2 DEF Passes, Status, Says
  <2>3. CASE demo.step \in {5, 10, 13}
    <3>1. /\ \E op \in {"get", "list_transactions", "list_snapshots"} : Says(Line, op, 1, 200)
          /\ Line.op = "list_snapshots" => demo.step = 13
      BY <2>3, Lines
    <3>2. q = Ask(Line.op, p, "fit", "buy", "demo")
      BY <3>1 DEF Scripted, RowIds, Says
    <3>3. q.op = Line.op /\ q.p = p /\ q.content = "fit"
      BY <3>2 DEF Ask
    <3>4. answer = Served(Player(1), q, "clear")
      BY <2>1, <3>1, <3>3, <1>1, FairAnswer DEF PlayAnswer, Says
    <3>5. answer = "ok"
      BY <2>1, <3>1, <3>3, <3>4 DEF Served, Shown, Says
    <3> QED
      BY <2>1, <3>1, <3>5, <1>1 DEF Passes, Status, Says
  <2>4. CASE demo.step \in {7, 8, 9}
    <3>1. Says(Line, IF demo.step = 7 THEN "deposit" ELSE "buy", 1, IF demo.step = 9 THEN 200 ELSE 201)
      BY <2>4, Lines
    <3>2. q = Ask("create_transaction", p, "fit", Line.op, "demo")
      BY <3>1 DEF Scripted, RowIds, Says
    <3>3. q.op = "create_transaction" /\ q.p = p /\ q.content = "fit" /\ q.row = Line.op
          /\ q.author = "demo"
      BY <3>2 DEF Ask
    <3>4. answer = Served(Player(1), q, "clear")
      BY <2>1, <3>1, <3>3, <1>1, FairAnswer DEF PlayAnswer, Says
    <3>5. answer = Posted(q)
      BY <2>1, <3>3, <3>4 DEF Served, Created
    <3>6. answer = IF demo.step = 9 THEN "replayed" ELSE "created"
      BY <2>1, <2>4, <3>1, <3>3, <3>5 DEF Posted, Says
    <3> QED
      BY <2>4, <3>1, <3>6 DEF Passes, Status, Says
  <2>5. CASE demo.step \in {11, 12}
    <3>1. Says(Line, IF demo.step = 11 THEN "analytics" ELSE "insight", 1, 200)
      BY <2>5, Lines
    <3>2. q = Ask(Line.op, p, "fit", "buy", "demo")
      BY <3>1 DEF Scripted, RowIds, Says
    <3>3. q.op = Line.op /\ q.p = p /\ q.content = "fit"
      BY <3>2 DEF Ask
    <3>4. answer = Served(Player(1), q, "clear")
      BY <2>1, <3>1, <3>3, <1>1, FairAnswer DEF PlayAnswer, Says
    <3>5. "clear" \notin Troubles
      BY GatewayAssumption
    <3>6. answer = "ok"
      BY <2>1, <2>5, <3>1, <3>3, <3>4, <3>5 DEF Served, Analysed, Says
    <3> QED
      BY <2>1, <3>1, <3>6, <1>1 DEF Passes, Status, Says
  <2> QED
    BY <1>6, <2>2, <2>3, <2>4, <2>5
<1>7. CASE demo.step \in {16, 17}
  <2>1. Says(Line, IF demo.step = 16 THEN "get" ELSE "get_missing", 2, 404)
    BY <1>7, Lines
  <2>2. PlaySub = Player(2) /\ Honoured(Player(2), i)
    BY <2>1, <1>4, <1>7 DEF PlaySub, Says
  <2>3. q = Ask("get", IF demo.step = 16 THEN p ELSE Nowhere, "fit", "buy", "demo")
    BY <2>1, <1>7 DEF Scripted, RowIds, Says
  <2>4. q.op = "get" /\ q.content = "fit" /\ (q.p = Nowhere \/ q.p = p)
    BY <2>3 DEF Ask
  <2>5. ~Owned(Player(2), q.p)
    <3>1. shelf[p].owner = Player(1) /\ Player(1) # Player(2)
      BY <1>2, <1>7, CastFacts DEF StageInv
    <3> QED
      BY <3>1, <2>4 DEF Owned
  <2>6. answer = Served(Player(2), q, "clear")
    BY <2>1, <2>2, <2>4, <1>1, FairAnswer DEF PlayAnswer, Says
  <2>7. answer = "portfolio_not_found"
    BY <2>4, <2>5, <2>6 DEF Served, Shown
  <2> QED
    BY <2>1, <2>7 DEF Passes, Status, Says
<1> QED
  BY <1>2, <1>5, <1>6, <1>7

(* The statuses of a row and of an insight.                                *)
LEMMA StatusFacts ==
  ASSUME NEW sub, NEW i, NEW q, NEW weather \in Weathers
  PROVE  /\ q.op = "create_transaction" =>
              /\ Status[Answer(sub, i, q, weather)] = 201 => Answer(sub, i, q, weather) = "created"
              /\ Status[Answer(sub, i, q, weather)] = 200 => Answer(sub, i, q, weather) # "created"
         /\ q.op = "insight" /\ Status[Answer(sub, i, q, weather)] = 200 =>
              Answer(sub, i, q, weather) = "ok"
<1> DEFINE answer == Answer(sub, i, q, weather)
           early == {"outage", "authentication_failed", "rate_limited", "validation_error",
                     "portfolio_not_found"}
<1>1. answer \in early \/ answer = Served(sub, q, weather)
  BY DEF Answer, Admitted
<1>2. q.op = "create_transaction" => Served(sub, q, weather) \in early \cup
        {"replayed", "transaction_idempotency_conflict", "invalid_transaction", "created"}
  BY DEF Served, Created, Posted
<1>3. q.op = "insight" => Served(sub, q, weather) \in early \cup Troubles \cup {"analytics_unavailable", "ok"}
  BY DEF Served, Analysed
<1>4. Troubles \subseteq {"market_data_not_found", "market_data_invalid_response",
       "market_data_rate_limited", "market_data_unavailable", "market_data_timeout",
       "invalid_price_series"}
  BY GatewayAssumption
<1> HIDE DEF answer
<1>5. q.op = "create_transaction" => (Status[answer] = 201 => answer = "created")
                                     /\ (Status[answer] = 200 => answer # "created")
  BY <1>1, <1>2 DEF Status
<1>6. q.op = "insight" => (Status[answer] = 200 => answer = "ok")
  <2>1. \A a \in early \cup {"analytics_unavailable"} : Status[a] # 200
    BY DEF Status
  <2>2. \A a \in Troubles : Status[a] # 200
    BY <1>4 DEF Status
  <2> QED
    BY <1>1, <1>3, <2>1, <2>2
<1> QED
  BY <1>5, <1>6 DEF answer

(* What a line that passed has done for the lines after it.                *)
LEMMA PlayEffect ==
  ASSUME GatewayInv, NEW i \in Instances, NEW weather \in Weathers, NEW narrator \in Narrators,
         Play(i, weather, narrator)
  PROVE  /\ shelf' \in [Portfolios -> Entry] /\ VacantInv'
         /\ Passes(Line, PlaySub, PlayAnswer(i, weather), narrator) /\ demo.step > 4 =>
              LET e == shelf'[demo.portfolio] IN
              /\ e.owner = Player(1)
              /\ e.rows["deposit"] = (IF demo.step > 6 THEN "demo" ELSE "absent")
              /\ e.rows["buy"] = (IF demo.step > 7 THEN "demo" ELSE "absent")
              /\ demo.step > 11 => "deterministic_rules" \in e.snapshots
<1> DEFINE q == Scripted(Line)
           p == demo.portfolio
           answer == PlayAnswer(i, weather)
           passes == Passes(Line, PlaySub, answer, narrator)
<1>1. demo.phase = "ready" /\ demo.step \in {1, 5, 6, 7, 8, 9, 10, 11, 12, 13, 16, 17} /\ StageInv
      /\ shelf' = (IF Line.op \in {"health", "list_portfolios"} THEN shelf ELSE Effect(q, answer, narrator))
      /\ shelf \in [Portfolios -> Entry] /\ VacantInv
  BY PlayFacts DEF GatewayInv, DemoInv, GatewayTypeOK
<1>2. demo.step > 4 => /\ p \in Portfolios /\ shelf[p].owner = Player(1) /\ Player(1) # Blank
                       /\ shelf[p].rows \in [RowIds -> {"absent"} \cup Authors]
                       /\ shelf[p].rows["deposit"] = (IF demo.step > 7 THEN "demo" ELSE "absent")
                       /\ shelf[p].rows["buy"] = (IF demo.step > 8 THEN "demo" ELSE "absent")
                       /\ demo.step > 12 => "deterministic_rules" \in shelf[p].snapshots
  BY <1>1, CastFacts DEF StageInv, Entry
<1>0. shelf' = shelf => VacantInv'
  BY <1>1 DEF VacantInv
<1>3. CASE demo.step \in {1, 6}
  <2>1. Line.op \in {"health", "list_portfolios"}
    BY <1>3, Lines DEF Says
  <2> QED
    BY <1>0, <1>1, <1>2, <1>3, <2>1
<1>4. CASE demo.step \in {5, 10, 11, 13, 16, 17}
  <2>1. q.op \in {"get", "list_transactions", "list_snapshots", "analytics"}
        /\ Line.op \notin {"health", "list_portfolios"}
    BY <1>4, Lines DEF Says, Scripted, RowIds, Ask
  <2>2. shelf' = shelf
    BY <1>1, <2>1 DEF Effect, Stored
  <2> QED
    BY <1>0, <1>1, <1>2, <1>4, <2>2
<1>5. CASE demo.step \in {7, 8, 9, 12}
  <2>1. /\ Says(Line, IF demo.step = 7 THEN "deposit" ELSE IF demo.step = 12 THEN "insight" ELSE "buy",
                 1, IF demo.step \in {9, 12} THEN 200 ELSE 201)
    BY <1>5, Lines
  <2>2. q = IF demo.step = 12 THEN Ask("insight", p, "fit", "buy", "demo")
            ELSE Ask("create_transaction", p, "fit", Line.op, "demo")
    BY <1>5, <2>1 DEF Scripted, RowIds, Says
  <2>3. /\ q.op = (IF demo.step = 12 THEN "insight" ELSE "create_transaction") /\ q.p = p
        /\ q.row = (IF demo.step = 7 THEN "deposit" ELSE "buy") /\ q.author = "demo"
    BY <1>5, <2>1, <2>2 DEF Ask, Says
  <2>4. q.p \in Portfolios /\ q.row \in RowIds /\ q.author \in Authors /\ shelf[q.p].owner # Blank
        /\ shelf' = Effect(q, answer, narrator)
    BY <1>1, <1>2, <1>5, <2>1, <2>3 DEF RowIds, Authors, Says
  <2>5. /\ shelf' \in [Portfolios -> Entry] /\ VacantInv'
        /\ shelf'[p].owner = shelf[p].owner
        /\ shelf'[p].rows = IF q.op = "create_transaction" /\ answer = "created"
                            THEN [shelf[p].rows EXCEPT ![q.row] = q.author] ELSE shelf[p].rows
        /\ q.op = "insight" /\ answer = "ok" => narrator \in shelf'[p].snapshots
    BY <1>1, <2>3, <2>4, EffectFacts
  <2>6. ASSUME passes
        PROVE  /\ demo.step \in {7, 8} => answer = "created"
               /\ demo.step = 9 => answer # "created"
               /\ demo.step = 12 => answer = "ok" /\ narrator = "deterministic_rules"
    <3>1. Status[answer] = (IF demo.step \in {9, 12} THEN 200 ELSE 201)
          /\ (demo.step = 12 => narrator = "deterministic_rules")
      BY <1>5, <2>1, <2>6 DEF Passes, Says
    <3>2. answer = Answer(PlaySub, i, q, weather)
      BY <1>5, <2>1 DEF PlayAnswer, Says
    <3> QED
      BY <1>5, <2>3, <3>1, <3>2, StatusFacts
  <2> QED
    BY <1>2, <1>5, <2>3, <2>5, <2>6 DEF RowIds
<1> QED
  BY <1>1, <1>3, <1>4, <1>5

(* Where the demo stands when it goes on, waits or stops.                  *)
LEMMA DemoFacts ==
  ASSUME demo \in Stand, demo.step \in 1 .. 17
  PROVE  /\ Advance => /\ demo' \in Stand /\ demo'.step = demo.step + 1 /\ demo'.phase = "ready"
                       /\ demo'.portfolio = demo.portfolio
         /\ \A p \in Portfolios :
              demo' = [demo EXCEPT !.step = @ + 1, !.portfolio = p] =>
                /\ demo' \in Stand /\ demo'.step = demo.step + 1 /\ demo'.phase = demo.phase
                /\ demo'.portfolio = p
         /\ demo' = [demo EXCEPT !.phase = "waiting"] =>
              /\ demo' \in Stand /\ demo'.step = demo.step /\ demo'.phase = "waiting"
              /\ demo'.portfolio = demo.portfolio
         /\ \A excuses \in SUBSET (Weathers \cup {"model", "clock", "taken"}) :
              Stop(excuses) => /\ demo' \in Stand /\ demo'.phase = "failed"
                               /\ demo'.excuses = excuses
<1>1. demo.step + 1 \in 0 .. 18
  OBVIOUS
<1>2. Advance => /\ demo' \in Stand /\ demo'.step = demo.step + 1 /\ demo'.phase = "ready"
                 /\ demo'.portfolio = demo.portfolio
  BY <1>1 DEF Advance, Stand
<1>3. ASSUME NEW p \in Portfolios, demo' = [demo EXCEPT !.step = @ + 1, !.portfolio = p]
      PROVE  /\ demo' \in Stand /\ demo'.step = demo.step + 1 /\ demo'.phase = demo.phase
             /\ demo'.portfolio = p
  BY <1>1, <1>3 DEF Stand
<1>4. ASSUME demo' = [demo EXCEPT !.phase = "waiting"]
      PROVE  /\ demo' \in Stand /\ demo'.step = demo.step /\ demo'.phase = "waiting"
             /\ demo'.portfolio = demo.portfolio
  BY <1>4 DEF Stand
<1>5. ASSUME NEW excuses \in SUBSET (Weathers \cup {"model", "clock", "taken"}), Stop(excuses)
      PROVE  demo' \in Stand /\ demo'.phase = "failed" /\ demo'.excuses = excuses
  BY <1>5 DEF Stop, Stand
<1> QED
  BY <1>2, <1>3, <1>4, <1>5

(* The demo plays a line: it stops with an excuse or goes on to the next.  *)
LEMMA PlayStep ==
  ASSUME GatewayInv, NEW i \in Instances, NEW weather \in Weathers, NEW narrator \in Narrators,
         Play(i, weather, narrator)
  PROVE  GatewayInv'
<1>1. /\ demo.phase = "ready" /\ demo.step \in {1, 5, 6, 7, 8, 9, 10, 11, 12, 13, 16, 17}
      /\ users' = users /\ req' = req /\ welcomed' = welcomed /\ now' = now /\ tokens' = tokens
      /\ GatewayTypeOK /\ CastInv /\ StageInv /\ IInv
  BY PlayFacts DEF GatewayInv, DemoInv
<1>2. IInv'
  BY <1>1, IInvStep DEF GatewayNext
<1>3. TokenInv' /\ GuestInv'
  BY <1>1 DEF GatewayInv, TokenInv, GuestInv
<1>4. shelf' \in [Portfolios -> Entry] /\ VacantInv'
  BY PlayEffect
<1>7. demo \in Stand /\ demo.step \in 1 .. 17
  BY <1>1 DEF GatewayTypeOK
<1> DEFINE excuses == Excuses(Line.as, weather, narrator)
           passes == Passes(Line, PlaySub, PlayAnswer(i, weather), narrator)
<1>5. CASE passes
  <2>1. demo' \in Stand /\ demo'.step = demo.step + 1 /\ demo'.phase = "ready"
        /\ demo'.portfolio = demo.portfolio
    BY <1>5, <1>7, PlayFacts, DemoFacts
  <2>2. demo'.step = demo.step + 1 /\ demo'.phase = "ready" /\ demo'.portfolio = demo.portfolio
    BY <2>1
  <2>3. GatewayTypeOK'
    BY <1>1, <1>4, <2>1 DEF GatewayTypeOK
  <2>4. DriverInv'
    BY <1>1, <2>2 DEF GatewayInv, DriverInv
  <2>5. CastInv'
    BY <1>1, <2>2 DEF CastInv, RegisterLine, LoginLine, Star, Player
  <2>6. StageInv'
    <3>1. demo.step > 4 =>
            /\ demo.portfolio \in Portfolios
            /\ shelf'[demo.portfolio].owner = Player(1)
            /\ shelf'[demo.portfolio].rows["deposit"] = (IF demo.step > 6 THEN "demo" ELSE "absent")
            /\ shelf'[demo.portfolio].rows["buy"] = (IF demo.step > 7 THEN "demo" ELSE "absent")
            /\ demo.step > 11 => "deterministic_rules" \in shelf'[demo.portfolio].snapshots
      BY <1>1, <1>5, PlayEffect DEF StageInv
    <3> QED
      BY <1>1, <2>2, <3>1 DEF StageInv, Player
  <2> QED
    BY <1>1, <1>2, <1>3, <1>4, <2>2, <2>3, <2>4, <2>5, <2>6 DEF GatewayInv, DemoInv
<1>6. CASE ~passes
  <2>1. Stop(excuses) /\ excuses # {}
    BY <1>6, PlayFacts, PlayPasses
  <2>2. excuses \in SUBSET (Weathers \cup {"model", "clock", "taken"})
    BY DEF Excuses, Narrators
  <2>3. demo' \in Stand /\ demo'.phase = "failed" /\ demo'.excuses # {}
    BY <1>7, <2>1, <2>2, DemoFacts
  <2>4. GatewayTypeOK'
    BY <1>1, <1>4, <2>3 DEF GatewayTypeOK
  <2>5. DriverInv'
    BY <1>1, <2>3 DEF GatewayInv, DriverInv
  <2> QED
    BY <1>1, <1>2, <1>3, <1>4, <2>3, <2>4, <2>5 DEF GatewayInv, DemoInv
<1> QED
  BY <1>5, <1>6

(* A portfolio that comes to have an owner is otherwise vacant.            *)
LEMMA OwnerFacts ==
  ASSUME shelf \in [Portfolios -> Entry], VacantInv, NEW p \in Portfolios,
         NEW sub \in Holders, shelf[p].owner = Blank,
         shelf' = [shelf EXCEPT ![p].owner = sub]
  PROVE  /\ shelf' \in [Portfolios -> Entry] /\ VacantInv'
         /\ shelf'[p].owner = sub /\ shelf'[p].rows = [x \in RowIds |-> "absent"]
         /\ \A r \in Portfolios : r # p => shelf'[r] = shelf[r]
<1> DEFINE e == [shelf[p] EXCEPT !.owner = sub]
<1>1. shelf[p] = Vacant /\ shelf[p] \in Entry
  BY DEF VacantInv
<1>2. e \in Entry /\ e.owner = sub /\ e.rows = [x \in RowIds |-> "absent"]
  BY <1>1 DEF Entry, Vacant
<1>3. shelf' = [shelf EXCEPT ![p] = e]
  OBVIOUS
<1>4. sub # Blank
  BY EmailsAssumption, BlankAssumption DEF Holders
<1> HIDE DEF e
<1> QED
  BY <1>2, <1>3, <1>4 DEF VacantInv

(* The demo creates its portfolio, or stops with an excuse.                *)
LEMMA PlayCreateStep ==
  ASSUME GatewayInv, NEW i \in Instances, NEW weather \in Weathers, NEW p \in Portfolios,
         PlayCreate(i, weather, p)
  PROVE  GatewayInv'
<1> DEFINE answer == Unowned("create_portfolio", Player(1), i, weather)
           excuses == Excuses(1, weather, "deterministic_rules")
<1>1. /\ demo.phase = "ready" /\ demo.step = 4
      /\ users' = users /\ req' = req /\ welcomed' = welcomed /\ now' = now /\ tokens' = tokens
      /\ GatewayTypeOK /\ CastInv /\ IInv /\ VacantInv /\ TokenInv
      /\ demo \in Stand
  <2>1. demo.phase = "ready" /\ demo.step \in 1 .. 17 /\ Line.op = "create_portfolio"
    BY DEF PlayCreate, Playing, Script
  <2>2. demo.step = 4
    BY <2>1 DEF Line, Script, Cue
  <2> QED
    BY <2>1, <2>2 DEF PlayCreate, vars, GatewayInv, DemoInv, GatewayTypeOK
<1>2. IInv'
  BY IInvStep DEF GatewayInv, GatewayNext
<1>3. TokenInv' /\ GuestInv'
  BY <1>1 DEF GatewayInv, TokenInv, GuestInv
<1>4. CASE answer = "created"
  <2>1. shelf' = [shelf EXCEPT ![p].owner = Player(1)] /\ shelf[p].owner = Blank
        /\ demo' = [demo EXCEPT !.step = @ + 1, !.portfolio = p]
    BY <1>4 DEF PlayCreate
  <2>2. Player(1) \in Holders /\ shelf \in [Portfolios -> Entry]
    BY <1>1, CastFacts DEF GatewayTypeOK
  <2>3. /\ shelf' \in [Portfolios -> Entry] /\ VacantInv'
        /\ shelf'[p].owner = Player(1) /\ shelf'[p].rows = [x \in RowIds |-> "absent"]
    BY <1>1, <2>1, <2>2, OwnerFacts
  <2>10. demo \in Stand /\ demo.step \in 1 .. 17
    BY <1>1
  <2>11. demo' \in Stand /\ demo'.step = demo.step + 1 /\ demo'.phase = demo.phase
         /\ demo'.portfolio = p
    BY <2>1, <2>10, DemoFacts
  <2>5. demo' \in Stand /\ demo'.step = 5 /\ demo'.phase = "ready" /\ demo'.portfolio = p
    BY <1>1, <2>11
  <2>6. GatewayTypeOK'
    BY <1>1, <2>3, <2>5 DEF GatewayTypeOK
  <2>7. DriverInv'
    BY <1>1, <2>5 DEF GatewayInv, DriverInv
  <2>8. CastInv'
    BY <1>1, <2>5 DEF CastInv, RegisterLine, LoginLine, Star, Player
  <2>9. StageInv'
    BY <2>3, <2>5 DEF StageInv, Player, RowIds
  <2> QED
    BY <1>2, <1>3, <2>3, <2>5, <2>6, <2>7, <2>8, <2>9 DEF GatewayInv, DemoInv
<1>5. CASE answer # "created"
  <2>1. Stop(excuses) /\ shelf' = shelf
    BY <1>5 DEF PlayCreate
  <2>2. excuses # {}
    <3>1. SUFFICES ASSUME excuses = {} PROVE answer = "created"
      BY <1>5
    <3>2. weather = "clear" /\ ~Aged(1)
      BY <3>1 DEF Excuses
    <3>3. tokens[Player(1)] # NoToken /\ Star(1) \in users
      BY <1>1 DEF CastInv, RegisterLine, LoginLine
    <3>4. Honoured(Player(1), i)
      BY <1>1, <3>2, <3>3, CastFacts, YoungIsHonoured
    <3> QED
      BY <3>2, <3>4 DEF Unowned
  <2>3. excuses \in SUBSET (Weathers \cup {"model", "clock", "taken"})
    BY DEF Excuses
  <2>4. demo.step \in 1 .. 17
    BY <1>1
  <2>5. demo' \in Stand /\ demo'.phase = "failed" /\ demo'.excuses # {}
    BY <1>1, <2>1, <2>2, <2>3, <2>4, DemoFacts
  <2>6. GatewayTypeOK' /\ VacantInv'
    BY <1>1, <2>1, <2>5 DEF GatewayTypeOK, VacantInv
  <2>7. DriverInv'
    BY <1>1, <2>5 DEF GatewayInv, DriverInv
  <2> QED
    BY <1>2, <1>3, <2>5, <2>6, <2>7 DEF GatewayInv, DemoInv
<1> QED
  BY <1>4, <1>5

(* The demo posts to /auth, or the limiter turns it away.                  *)
LEMMA PlayAuthStep ==
  ASSUME GatewayInv, NEW weather \in Weathers, PlayAuth(weather)
  PROVE  GatewayInv'
<1>1. /\ demo.phase = "ready" /\ demo.step \in {2, 3, 14, 15}
      /\ Line.op \in {"register", "login"} /\ Line.as \in 1 .. 2
      /\ now' = now /\ tokens' = tokens /\ shelf' = shelf
      /\ GatewayTypeOK /\ CastInv /\ StageInv /\ IInv /\ TypeOK /\ demo \in Stand
      /\ req[Driver].at = "idle" /\ req[Driver].answer = "none"
  <2>1. demo.phase = "ready" /\ demo.step \in 1 .. 17 /\ Line.op \in {"register", "login"}
    BY DEF PlayAuth, Playing, Script
  <2>2. demo.step \in {2, 3, 14, 15} /\ Line.as \in 1 .. 2
    BY <2>1 DEF Line, Script, Cue
  <2>3. req[Driver].at = "idle" /\ req[Driver].answer = "none"
    BY <2>1 DEF GatewayInv, DriverInv
  <2> QED
    BY <2>1, <2>2, <2>3 DEF PlayAuth, GatewayInv, DemoInv, GatewayTypeOK, IInv
<1>2. IInv'
  BY IInvStep DEF GatewayInv, GatewayNext
<1>3. TokenInv' /\ VacantInv'
  BY <1>1 DEF GatewayInv, TokenInv, VacantInv
<1>4. demo.step \in 1 .. 17 /\ Driver \in Workers
  BY <1>1, GatewayAssumption
<1>5. CASE Call(Driver, Line.op, Cast[Line.as].email, Cast[Line.as].password)
           /\ demo' = [demo EXCEPT !.phase = "waiting"]
  <2>1. demo' \in Stand /\ demo'.step = demo.step /\ demo'.phase = "waiting"
        /\ demo'.portfolio = demo.portfolio
    BY <1>1, <1>4, <1>5, DemoFacts
  <2>2. /\ users' = users
        /\ \A w \in Workers \ {Driver} : req'[w] = req[w]
        /\ req'[Driver].at = "get" /\ req'[Driver].op = Line.op
        /\ req'[Driver].email = Player(Line.as) /\ req'[Driver].password = Cast[Line.as].password
        /\ req'[Driver].answer = "none"
    BY <1>1, <1>4, <1>5 DEF Call, TypeOK, Player
  <2>3. GatewayTypeOK' /\ GuestInv'
    BY <1>1, <2>1, <2>2 DEF GatewayTypeOK, GatewayInv, GuestInv
  <2>4. Line' = Line
    BY <2>1 DEF Line, Script
  <2>5. DriverInv'
    BY <1>1, <1>4, <2>1, <2>2, <2>4 DEF DriverInv, Player
  <2>6. CastInv'
    BY <1>1, <2>1, <2>2 DEF CastInv, Star, Player
  <2>7. StageInv'
    BY <1>1, <2>1 DEF StageInv, Player
  <2> QED
    BY <1>1, <1>2, <1>3, <1>4, <2>1, <2>3, <2>5, <2>6, <2>7 DEF GatewayInv, DemoInv
<1>6. CASE weather = "rate_limited" /\ Stop({weather}) /\ UNCHANGED vars
  <2>3. {weather} \in SUBSET (Weathers \cup {"model", "clock", "taken"}) /\ {weather} # {}
        /\ Stop({weather})
    BY <1>6
  <2>1. demo' \in Stand /\ demo'.phase = "failed" /\ demo'.excuses # {}
    BY <1>1, <1>4, <2>3, DemoFacts
  <2>2. GatewayTypeOK' /\ GuestInv' /\ DriverInv'
    BY <1>1, <1>6, <2>1 DEF GatewayTypeOK, GatewayInv, GuestInv, DriverInv, vars
  <2> QED
    BY <1>2, <1>3, <2>1, <2>2 DEF GatewayInv, DemoInv
<1> QED
  BY <1>5, <1>6 DEF PlayAuth

(* A step of the service of /auth at a request: only a commit adds a row,  *)
(* the request's own, and only Verify answers with a token.                *)
LEMMA ServeFacts ==
  ASSUME IInv, NEW w \in Workers, Register(w) \/ Find(w) \/ Verify(w)
  PROVE  /\ \A v \in Workers \ {w} : req'[v] = req[v]
         /\ req[w].at # "idle" /\ req'[w].at # "idle" /\ req[w].answer = "none"
         /\ Mine(w) \in User /\ Normal[req[w].email] = req[w].email
         /\ req'[w].op = req[w].op /\ req'[w].email = req[w].email
         /\ req'[w].password = req[w].password
         /\ \/ users' = users /\ req'[w].answer # "registered"
            \/ /\ users' = users \cup {Mine(w)} /\ req'[w].answer = "registered"
         /\ req'[w].answer \in {"none"} \cup
              (IF req[w].op = "register" THEN {"registered", "taken"} ELSE {"token", "denied"})
         /\ req'[w].answer = "token" => Verify(w)
         /\ req'[w].answer = "denied" => Mine(w) \notin users
<1>1. req[w] \in Request /\ req[w].at \notin {"idle", "close"} /\ TypeOK /\ BusyInv /\ FoundInv
  BY DEF IInv, TypeOK, Register, LookUp, Hash, Insert, Commit, Find, Verify, At
<1>2. Mine(w) \in User /\ Normal[req[w].email] = req[w].email /\ req[w].answer = "none"
  BY <1>1 DEF BusyInv
<1>3. Mine(w).email = req[w].email /\ Mine(w).password = req[w].password
  BY DEF Mine
<1>4. CASE Register(w)
  <2>1. ASSUME NEW r, req' = [req EXCEPT ![w] = r]
        PROVE  req'[w] = r /\ \A v \in Workers \ {w} : req'[v] = req[v]
    BY <1>1, <2>1 DEF TypeOK
  <2>2. CASE LookUp(w) \/ Hash(w) \/ Insert(w)
    BY <1>1, <1>2, <2>2 DEF LookUp, Hash, Insert, Goto, Decide, At, TypeOK, Request
  <2>3. CASE Commit(w)
    BY <1>1, <1>2, <2>3 DEF Commit, Decide, At, TypeOK, Request, Mine
  <2> QED
    BY <1>4, <2>2, <2>3 DEF Register
<1>5. CASE Find(w)
  <2>1. req'[w].answer = "denied" => Named(req[w].email) = {}
    BY <1>1, <1>2, <1>5 DEF Find, Decide, At, TypeOK, Request
  <2>2. req'[w].answer = "denied" => Mine(w) \notin users
    BY <1>3, <2>1 DEF Named
  <2> QED
    BY <1>1, <1>2, <1>5, <2>2 DEF Find, Decide, At, TypeOK, Request
<1>6. CASE Verify(w)
  <2>1. req'[w].answer = "denied" => \A u \in req[w].found : u.password # req[w].password
    BY <1>1, <1>2, <1>6 DEF Verify, Decide, At, TypeOK, Request
  <2>2. req[w].found = Named(req[w].email)
    BY <1>1, <1>6 DEF FoundInv, Verify, At
  <2>3. req'[w].answer = "denied" => Mine(w) \notin users
    BY <1>3, <2>1, <2>2 DEF Named
  <2> QED
    BY <1>1, <1>2, <1>6, <2>3 DEF Verify, Decide, At, TypeOK, Request
<1> QED
  BY <1>4, <1>5, <1>6

(* An instance issues a token to a holder.                                 *)
LEMMA IssueFacts ==
  ASSUME GatewayTypeOK, TokenInv, NEW i \in Instances, NEW sub \in Holders,
         now' = now, tokens' = [tokens EXCEPT ![sub] = Issue(i)]
  PROVE  /\ tokens' \in [Holders -> [iat : Int, born : Int]] /\ TokenInv'
         /\ tokens'[sub] # NoToken
         /\ \A x \in Holders : tokens[x] # NoToken => tokens'[x] # NoToken
<1>1. now \in Nat /\ Skew[i] \in Nat
  BY GatewayAssumption DEF GatewayTypeOK
<1>2. /\ Issue(i) \in [iat : Int, born : Int] /\ Issue(i).born = now
      /\ Issue(i).iat = now + Skew[i]
  BY <1>1 DEF Issue, Clock
<1>3. Issue(i) # NoToken /\ now \in 0 .. now
  BY <1>1, <1>2 DEF NoToken
<1> DEFINE t == Issue(i)
<1> HIDE DEF t
<1>4. tokens' = [tokens EXCEPT ![sub] = t]
  BY DEF t
<1> QED
  BY <1>2, <1>3, <1>4 DEF GatewayTypeOK, TokenInv, t

(* The service works at a request, and a login that succeeds gets a token. *)
LEMMA ServeStep ==
  ASSUME GatewayInv, NEW w \in Workers, Work(w) \/ \E i \in Instances : Enough(w, i)
  PROVE  GatewayInv'
<1>1. /\ Register(w) \/ Find(w) \/ Verify(w)
      /\ now' = now /\ shelf' = shelf /\ demo' = demo
      /\ GatewayTypeOK /\ TokenInv /\ IInv /\ AccountsUnique /\ GuestInv /\ DriverInv
      /\ demo.phase # "failed" => demo.step \in 1 .. 18 /\ CastInv /\ StageInv
      /\ Driver \in Workers
  BY GatewayAssumption DEF Work, Enough, doors, GatewayInv, DemoInv, IInv
<1>2. IInv'
  BY <1>1, IInvStep DEF GatewayInv, GatewayNext
<1>3. /\ \A v \in Workers \ {w} : req'[v] = req[v]
      /\ req[w].at # "idle" /\ req'[w].at # "idle" /\ req[w].answer = "none"
      /\ Mine(w) \in User /\ Normal[req[w].email] = req[w].email
      /\ req'[w].op = req[w].op /\ req'[w].email = req[w].email
      /\ req'[w].password = req[w].password
      /\ \/ users' = users /\ req'[w].answer # "registered"
         \/ /\ users' = users \cup {Mine(w)} /\ req'[w].answer = "registered"
      /\ req'[w].answer \in {"none"} \cup
           (IF req[w].op = "register" THEN {"registered", "taken"} ELSE {"token", "denied"})
      /\ req'[w].answer = "token" => Verify(w)
      /\ req'[w].answer = "denied" => Mine(w) \notin users
  BY <1>1, ServeFacts
<1>4. req[w].email \in Holders /\ Mine(w).email = req[w].email
      /\ Mine(w).password = req[w].password
  BY <1>3 DEF Mine, User, Holders
<1>5. \/ tokens' = tokens /\ req'[w].answer # "token"
      \/ \E i \in Instances : tokens' = [tokens EXCEPT ![req[w].email] = Issue(i)]
  <2>1. CASE Work(w)
    <3>1. tokens' = tokens
      BY <2>1 DEF Work, doors
    <3>2. req'[w].answer # "token"
      <4>1. req[w].at # "verify"
        BY <1>1, <2>1 DEF Work, Register, LookUp, Hash, Insert, Commit, Find, At
      <4> QED
        BY <4>1, <1>3 DEF Verify, At
    <3> QED
      BY <3>1, <3>2
  <2> QED
    BY <1>1, <2>1 DEF Enough
<1>6. /\ tokens' \in [Holders -> [iat : Int, born : Int]] /\ TokenInv'
      /\ req'[w].answer = "token" => tokens'[req[w].email] # NoToken
      /\ \A x \in Holders : tokens[x] # NoToken => tokens'[x] # NoToken
  <2>1. CASE tokens' = tokens /\ req'[w].answer # "token"
    BY <1>1, <2>1 DEF GatewayTypeOK, TokenInv
  <2>2. ASSUME NEW i \in Instances, tokens' = [tokens EXCEPT ![req[w].email] = Issue(i)]
        PROVE  /\ tokens' \in [Holders -> [iat : Int, born : Int]] /\ TokenInv'
               /\ tokens'[req[w].email] # NoToken
               /\ \A x \in Holders : tokens[x] # NoToken => tokens'[x] # NoToken
    <3> DEFINE sub == req[w].email
    <3>1. sub \in Holders /\ tokens' = [tokens EXCEPT ![sub] = Issue(i)]
      BY <1>4, <2>2
    <3> HIDE DEF sub
    <3>2. \A x \in Holders : tokens' = [tokens EXCEPT ![x] = Issue(i)] =>
            /\ tokens' \in [Holders -> [iat : Int, born : Int]] /\ TokenInv'
            /\ tokens'[x] # NoToken
            /\ \A y \in Holders : tokens[y] # NoToken => tokens'[y] # NoToken
      BY <1>1, IssueFacts
    <3> QED
      BY <3>1, <3>2 DEF sub
  <2> QED
    BY <1>5, <2>1, <2>2
<1>7. GatewayTypeOK' /\ VacantInv' /\ GuestInv'
  BY <1>1, <1>3, <1>6 DEF GatewayTypeOK, GatewayInv, VacantInv, GuestInv
<1>8. Line' = Line
  BY <1>1 DEF Line, Script
<1>9. w = Driver => /\ demo.phase = "waiting" /\ Line.op \in {"register", "login"}
                    /\ req[w].op = Line.op /\ Mine(w) = Star(Line.as)
  BY <1>1, <1>3 DEF DriverInv, Mine, Star
<1>10. w = Driver /\ Line.op = "login" => Star(Line.as) \in users
  <2>1. SUFFICES ASSUME w = Driver, Line.op = "login" PROVE Star(Line.as) \in users
    OBVIOUS
  <2>2. demo.phase = "waiting" /\ demo.step \in 1 .. 18 /\ CastInv
    BY <1>1, <1>9, <2>1
  <2>3. demo.step \in {3, 15}
    <3>1. demo.step \in 1 .. 17
      BY <1>1, <2>2 DEF DriverInv
    <3> QED
      BY <2>1, <2>2, <3>1 DEF Line, Script, Cue
  <2>4. Line.as = IF demo.step = 3 THEN 1 ELSE 2
    BY <2>3 DEF Line, Script, Cue
  <2> QED
    BY <2>2, <2>3, <2>4 DEF CastInv, RegisterLine
<1>11. DriverInv'
  <2>1. CASE w # Driver
    <3>1. req'[Driver] = req[Driver]
      BY <1>1, <1>3, <2>1
    <3>2. demo.phase = "waiting" => req[Driver].email \in Holders
      <4>1. req[Driver].at # "idle" => Mine(Driver) \in User /\ Normal[req[Driver].email] = req[Driver].email
        BY <1>1 DEF IInv, BusyInv
      <4>2. req[Driver].at # "idle" => req[Driver].email \in Holders
        BY <4>1 DEF Mine, User, Holders
      <4> QED
        BY <1>1, <4>2 DEF DriverInv
    <3> QED
      BY <1>1, <1>6, <1>8, <3>1, <3>2 DEF DriverInv, Player
  <2>2. CASE w = Driver
    <3>1. req'[w].answer # "denied" \/ Line.op = "register"
      BY <1>3, <1>9, <1>10, <2>2
    <3> QED
      BY <1>1, <1>3, <1>6, <1>8, <1>9, <2>2, <3>1 DEF DriverInv, Player
  <2> QED
    BY <2>1, <2>2
<1>12. demo.phase # "failed" => CastInv'
  <2> SUFFICES ASSUME demo.phase # "failed", NEW k \in 1 .. 2
               PROVE  /\ Star(k) \in users' => demo.step > RegisterLine[k]
                         \/ (demo.step = RegisterLine[k] /\ req'[Driver].answer = "registered")
                      /\ demo.step > RegisterLine[k] => Star(k) \in users'
                      /\ demo.step > LoginLine[k] => tokens'[Player(k)] # NoToken
    BY <1>1 DEF CastInv, Star, Player, RegisterLine, LoginLine
  <2>1. CastInv /\ demo.step \in 1 .. 18 /\ Player(k) \in Holders
    BY <1>1, CastFacts
  <2>2. demo.step > RegisterLine[k] => Star(k) \in users'
    BY <1>3, <2>1 DEF CastInv
  <2>3. demo.step > LoginLine[k] => tokens'[Player(k)] # NoToken
    BY <1>6, <2>1 DEF CastInv
  <2>4. ASSUME Star(k) \in users, ~(demo.step > RegisterLine[k])
        PROVE  demo.step = RegisterLine[k] /\ req'[Driver].answer = "registered"
    <3>1. demo.step = RegisterLine[k] /\ req[Driver].answer = "registered"
      BY <2>1, <2>4 DEF CastInv
    <3>2. w # Driver
      BY <1>3, <3>1
    <3> QED
      BY <1>1, <1>3, <3>1, <3>2
  <2>5. ASSUME Star(k) = Mine(w), users' = users \cup {Mine(w)}, req'[w].answer = "registered"
        PROVE  demo.step = RegisterLine[k] /\ req'[Driver].answer = "registered"
    <3>1. w = Driver
      <4>1. SUFFICES ASSUME w # Driver PROVE FALSE
        OBVIOUS
      <4>2. Secret(req[w].password)
        BY <1>1, <1>3, <4>1 DEF GuestInv
      <4>3. Cast[k].password = req[w].password
        BY <1>4, <2>5 DEF Star
      <4> QED
        BY <4>2, <4>3 DEF Secret
    <3>2. Line.op = "register" /\ Mine(w) = Star(Line.as) /\ demo.phase = "waiting"
      BY <1>3, <1>9, <2>5, <3>1
    <3>3. demo.step \in {2, 14} /\ Line.as = IF demo.step = 2 THEN 1 ELSE 2
      <4>1. demo.step \in 1 .. 17
        BY <1>1, <3>2 DEF DriverInv
      <4> QED
        BY <2>1, <3>2, <4>1 DEF Line, Script, Cue
    <3>4. Player(k) = Player(Line.as)
      BY <2>5, <3>2 DEF Star
    <3>5. k = Line.as
      BY <3>3, <3>4, CastFacts
    <3> QED
      BY <2>5, <3>1, <3>3, <3>5 DEF RegisterLine
  <2> QED
    BY <1>3, <2>2, <2>3, <2>4, <2>5
<1>13. demo.phase # "failed" => StageInv'
  BY <1>1 DEF StageInv, Player
<1> QED
  BY <1>1, <1>2, <1>6, <1>7, <1>11, <1>12, <1>13 DEF GatewayInv, DemoInv

(* A guest posts to /auth, without a password of the demo.                 *)
LEMMA EnterStep ==
  ASSUME GatewayInv, NEW w \in Workers, NEW op \in {"register", "login"},
         NEW e \in Emails, NEW p \in Passwords, Enter(w, op, e, p)
  PROVE  GatewayInv'
<1>1. /\ users' = users /\ UNCHANGED doors /\ w # Driver /\ Driver \in Workers
      /\ \A v \in Workers \ {w} : req'[v] = req[v]
      /\ req'[w].password = p /\ Secret(p)
  BY GatewayAssumption DEF Enter, Call, GatewayInv, IInv, TypeOK
<1>2. IInv'
  BY IInvStep DEF GatewayInv, GatewayNext
<1>3. GatewayTypeOK' /\ TokenInv' /\ VacantInv'
  BY <1>1 DEF GatewayInv, GatewayTypeOK, TokenInv, VacantInv, doors
<1>4. GuestInv'
  BY <1>1 DEF GatewayInv, GuestInv
<1>5. req'[Driver] = req[Driver] /\ demo' = demo /\ Line' = Line
  BY <1>1 DEF doors, Line, Script
<1>6. DriverInv'
  BY <1>1, <1>5 DEF GatewayInv, DriverInv, doors, Player
<1>7. DemoInv'
  BY <1>1, <1>5 DEF GatewayInv, DemoInv, doors, CastInv, StageInv, Star, Player, RegisterLine,
     LoginLine
<1> QED
  BY <1>2, <1>3, <1>4, <1>6, <1>7 DEF GatewayInv

(* A request to /auth ends: a guest's leaves the demo alone, the demo's    *)
(* own takes it to its next line or stops it with an excuse.               *)
LEMMA EndOfCallStep ==
  ASSUME GatewayInv, NEW w \in Workers, Curtain(w) \/ Drop(w)
  PROVE  GatewayInv'
<1>1. /\ users' = users /\ now' = now /\ tokens' = tokens /\ shelf' = shelf
      /\ req' = [req EXCEPT ![w] = Idle] /\ req[w].at # "idle"
      /\ GatewayTypeOK /\ IInv /\ DriverInv /\ DemoInv /\ GuestInv /\ demo \in Stand
      /\ Driver \in Workers /\ TypeOK
  BY GatewayAssumption DEF Curtain, Drop, Close, Abort, GatewayInv, GatewayTypeOK, IInv
<1>2. IInv'
  BY IInvStep DEF GatewayInv, GatewayNext
<1>3. req'[w].at = "idle" /\ req'[w].answer = "none"
      /\ \A v \in Workers \ {w} : req'[v] = req[v]
  BY <1>1 DEF TypeOK, Idle
<1>4. TokenInv' /\ VacantInv' /\ GuestInv'
  BY <1>1, <1>3 DEF GatewayInv, TokenInv, VacantInv, GuestInv
<1>5. CASE w # Driver
  <2>1. demo' = demo /\ req'[Driver] = req[Driver] /\ Line' = Line
    BY <1>1, <1>3, <1>5 DEF Curtain, Drop, Line, Script
  <2>2. GatewayTypeOK'
    BY <1>1, <2>1 DEF GatewayTypeOK
  <2>3. DriverInv'
    BY <1>1, <2>1 DEF DriverInv, Player
  <2>4. DemoInv'
    BY <1>1, <2>1 DEF DemoInv, CastInv, StageInv, Star, Player, RegisterLine, LoginLine
  <2> QED
    BY <1>2, <1>4, <2>2, <2>3, <2>4 DEF GatewayInv
<1>6. CASE w = Driver
  <2> DEFINE k == Line.as
             answer == req[Driver].answer
             passes == AuthStatus[answer] = Line.expect
             excuses == IF \E u \in Named(Player(k)) : u # Star(k) THEN {"taken"} ELSE {}
  <2>1. /\ demo.phase = "waiting" /\ demo.step \in 1 .. 17 /\ Line.op \in {"register", "login"}
        /\ req[Driver].email = Player(k)
        /\ Mine(Driver) = Star(k)
        /\ answer \in {"none"} \cup (IF Line.op = "register" THEN {"registered", "taken"} ELSE {"token"})
        /\ answer = "token" => tokens[Player(k)] # NoToken
        /\ CastInv /\ StageInv
    BY <1>1, <1>6 DEF DriverInv, DemoInv, Mine, Star
  <2>2. demo.step \in {2, 3, 14, 15} /\ k = (IF demo.step < 4 THEN 1 ELSE 2)
    BY <2>1 DEF Line, Script, Cue
  <2>3. /\ demo.step \in {2, 14} => Line.op = "register" /\ Line.expect = 201
        /\ demo.step \in {3, 15} => Line.op = "login" /\ Line.expect = 200
    BY <2>2 DEF Line, Script, Cue
  <2>4. CASE Drop(w) \/ ~passes
    <3>1. ASSUME Drop(w)
          PROVE  demo' \in Stand /\ demo'.phase = "failed" /\ demo'.excuses # {}
      <4>1. {"outage"} \in SUBSET (Weathers \cup {"model", "clock", "taken"}) /\ Stop({"outage"})
        BY <1>6, <3>1 DEF Drop, Weathers
      <4> QED
        BY <4>1, <1>1, <2>1, DemoFacts
    <3>2. ASSUME Curtain(w), ~passes
          PROVE  demo' \in Stand /\ demo'.phase = "failed" /\ demo'.excuses # {}
      <4>1. Stop(excuses) /\ req[Driver].at = "close"
        BY <1>6, <3>2 DEF Curtain, Proceed, Star, Close
      <4>2. answer # "none"
        BY <1>1, <4>1 DEF IInv, BusyInv
      <4>3. answer = "taken"
        BY <2>1, <2>2, <2>3, <3>2, <4>2 DEF AuthStatus
      <4>4. demo.step \in {2, 14} /\ Star(k) \notin users
        BY <2>1, <2>2, <2>3, <4>3 DEF CastInv, RegisterLine
      <4>5. Named(Player(k)) # {}
        BY <1>1, <2>1, <4>3 DEF IInv, AnswersTruthful
      <4>6. \E u \in Named(Player(k)) : u # Star(k)
        BY <4>4, <4>5 DEF Named
      <4>7. excuses \in SUBSET (Weathers \cup {"model", "clock", "taken"}) /\ excuses # {}
        BY <4>6
      <4> HIDE DEF excuses
      <4> QED
        BY <4>1, <4>7, <1>1, <2>1, DemoFacts
    <3>3. demo' \in Stand /\ demo'.phase = "failed" /\ demo'.excuses # {}
      BY <1>1, <2>4, <3>1, <3>2
    <3>4. GatewayTypeOK' /\ DriverInv' /\ DemoInv'
      BY <1>1, <1>3, <1>6, <3>3 DEF GatewayTypeOK, DriverInv, DemoInv
    <3> QED
      BY <1>2, <1>4, <3>4 DEF GatewayInv
  <2>5. CASE Curtain(w) /\ passes
    <3>1. Advance /\ req[Driver].at = "close"
      BY <1>6, <2>5 DEF Curtain, Proceed, Star, Close
    <3>2. demo' \in Stand /\ demo'.step = demo.step + 1 /\ demo'.phase = "ready"
          /\ demo'.portfolio = demo.portfolio
      BY <3>1, <1>1, <2>1, DemoFacts
    <3>3. answer # "none"
      BY <1>1, <3>1 DEF IInv, BusyInv
    <3>4. /\ demo.step \in {2, 14} => answer = "registered"
          /\ demo.step \in {3, 15} => answer = "token"
      BY <2>1, <2>2, <2>3, <2>5, <3>3 DEF AuthStatus
    <3>5. answer = "registered" => Star(k) \in users
      BY <1>1, <2>1 DEF IInv, AnswersTruthful, Mine
    <3>6. CastInv'
      <4> SUFFICES ASSUME NEW j \in 1 .. 2
                   PROVE  /\ Star(j) \in users => demo.step + 1 > RegisterLine[j]
                          /\ demo.step + 1 > RegisterLine[j] => Star(j) \in users
                          /\ demo.step + 1 > LoginLine[j] => tokens[Player(j)] # NoToken
        BY <1>1, <3>2 DEF CastInv, Star, Player, RegisterLine, LoginLine
      <4>1. Star(j) \in users => demo.step + 1 > RegisterLine[j]
        BY <2>1, <2>2 DEF CastInv, RegisterLine
      <4>2. demo.step + 1 > RegisterLine[j] => Star(j) \in users
        BY <2>1, <2>2, <3>4, <3>5 DEF CastInv, RegisterLine
      <4>3. demo.step + 1 > LoginLine[j] => tokens[Player(j)] # NoToken
        BY <2>1, <2>2, <3>4 DEF CastInv, LoginLine
      <4> QED
        BY <4>1, <4>2, <4>3
    <3>7. StageInv'
      BY <1>1, <2>1, <2>2, <3>2 DEF StageInv, Player
    <3>8. GatewayTypeOK' /\ DriverInv'
      BY <1>1, <1>3, <1>6, <3>2 DEF GatewayTypeOK, DriverInv
    <3>9. DemoInv'
      BY <2>1, <3>2, <3>6, <3>7 DEF DemoInv
    <3> QED
      BY <1>2, <1>4, <3>8, <3>9 DEF GatewayInv
  <2> QED
    BY <2>4, <2>5
<1> QED
  BY <1>5, <1>6

(* Nothing of the demo changes when another portfolio does.                *)
LEMMA ShelfStep ==
  ASSUME GatewayInv, GatewayNext, UNCHANGED <<vars, now, tokens, demo>>,
         shelf' \in [Portfolios -> Entry], VacantInv',
         demo.phase # "failed" /\ demo.step > 4 =>
           shelf'[demo.portfolio] = shelf[demo.portfolio]
  PROVE  GatewayInv'
<1>1. IInv'
  BY IInvStep DEF GatewayInv
<1>2. GatewayTypeOK' /\ TokenInv' /\ GuestInv'
  BY DEF GatewayInv, GatewayTypeOK, TokenInv, GuestInv, vars
<1>3. Line' = Line
  BY DEF Line, Script
<1>4. DriverInv'
  BY <1>3 DEF GatewayInv, DriverInv, vars, Player
<1>5. DemoInv'
  BY DEF GatewayInv, DemoInv, vars, CastInv, StageInv, Star, Player, RegisterLine, LoginLine
<1> QED
  BY <1>1, <1>2, <1>4, <1>5 DEF GatewayInv

(* A visitor changes portfolios of its own only: it has no account of the  *)
(* demo, whose passwords are the demo's.                                   *)
LEMMA VisitStep ==
  ASSUME GatewayInv, NEW sub \in Holders, NEW i \in Instances, NEW p \in Portfolios,
         NEW op \in {"create_transaction", "commit"}, NEW author \in Authors,
         NEW row \in {"buy", "sell"}, Visit(sub, i, p, op, row, author)
  PROVE  GatewayInv'
<1> DEFINE q == Ask(op, p, "fit", row, author)
           answer == Answer(sub, i, q, "clear")
<1>1. /\ q.p = p /\ q.op = op
      /\ q.op \in PortfolioOps /\ q.row \in RowIds /\ q.author \in Authors
  BY DEF Ask, PortfolioOps, RowIds, Authors
<1>2. /\ Visitor(sub) /\ UNCHANGED <<vars, now, tokens, demo>>
      /\ shelf' = Effect(q, answer, "deterministic_rules") /\ shelf' # shelf
      /\ shelf \in [Portfolios -> Entry] /\ VacantInv
  BY DEF Visit, GatewayInv, GatewayTypeOK
<1>3. answer \in {"ok", "created"}
  BY <1>1, <1>2 DEF Effect, Stored
<1>4. shelf[p].owner = sub /\ sub # Blank
  BY <1>1, <1>3, AnswerFacts, EmailsAssumption, BlankAssumption DEF Owned, Holders, Weathers
<1>5. "deterministic_rules" \in Narrators /\ q.p \in Portfolios /\ shelf[q.p].owner # Blank
  BY <1>1, <1>4 DEF Narrators
<1> HIDE DEF q, answer
<1>6. /\ shelf' \in [Portfolios -> Entry] /\ VacantInv'
      /\ \A r \in Portfolios : r # q.p => shelf'[r] = shelf[r]
  BY <1>1, <1>2, <1>5, EffectFacts
<1>7. ASSUME demo.phase # "failed", demo.step > 4
      PROVE  shelf'[demo.portfolio] = shelf[demo.portfolio]
  <2>1. /\ demo.portfolio \in Portfolios /\ shelf[demo.portfolio].owner = Player(1)
        /\ demo.step \in 1 .. 18 /\ CastInv /\ AccountsUnique
    BY <1>7 DEF GatewayInv, DemoInv, StageInv, IInv
  <2>2. Star(1) \in users
    BY <1>7, <2>1 DEF CastInv, RegisterLine
  <2>3. sub # Player(1)
    <3>1. PICK u \in users : u.email = sub /\ Secret(u.password)
      BY <1>2 DEF Visitor, Named
    <3>2. u # Star(1)
      BY <3>1, CastFacts DEF Secret
    <3> QED
      BY <2>1, <2>2, <3>1, <3>2, CastFacts DEF AccountsUnique
  <2> QED
    BY <1>1, <1>4, <1>6, <2>1, <2>3
<1>8. GatewayNext
  BY DEF GatewayNext
<1> QED
  BY <1>2, <1>6, <1>7, <1>8, ShelfStep

(* A visitor creates a portfolio, which is not the demo's.                 *)
LEMMA VisitCreateStep ==
  ASSUME GatewayInv, NEW sub \in Holders, NEW i \in Instances, NEW p \in Portfolios,
         VisitCreate(sub, i, p)
  PROVE  GatewayInv'
<1>1. /\ UNCHANGED <<vars, now, tokens, demo>> /\ shelf[p].owner = Blank
      /\ shelf' = [shelf EXCEPT ![p].owner = sub]
      /\ shelf \in [Portfolios -> Entry] /\ VacantInv
  BY DEF VisitCreate, GatewayInv, GatewayTypeOK
<1>2. /\ shelf' \in [Portfolios -> Entry] /\ VacantInv'
      /\ \A r \in Portfolios : r # p => shelf'[r] = shelf[r]
  BY <1>1, OwnerFacts
<1>3. demo.phase # "failed" /\ demo.step > 4 =>
        shelf'[demo.portfolio] = shelf[demo.portfolio]
  BY <1>1, <1>2, CastFacts DEF GatewayInv, DemoInv, StageInv
<1>4. GatewayNext
  BY DEF GatewayNext
<1> QED
  BY <1>1, <1>2, <1>3, <1>4, ShelfStep

(* Time passes.                                                            *)
LEMMA TickStep ==
  ASSUME GatewayInv, Tick
  PROVE  GatewayInv'
<1>1. now \in Nat /\ now' = now + 1 /\ UNCHANGED <<vars, tokens, shelf, demo>>
  BY DEF Tick, GatewayInv, GatewayTypeOK
<1>2. IInv'
  BY IInvStep DEF GatewayInv, GatewayNext
<1>3. GatewayTypeOK' /\ VacantInv' /\ GuestInv'
  BY <1>1 DEF GatewayInv, GatewayTypeOK, VacantInv, GuestInv, vars
<1>4. TokenInv'
  BY <1>1 DEF GatewayInv, TokenInv
<1>5. Line' = Line
  BY <1>1 DEF Line, Script
<1>6. DriverInv'
  BY <1>1, <1>5 DEF GatewayInv, DriverInv, vars, Player
<1>7. DemoInv'
  BY <1>1 DEF GatewayInv, DemoInv, vars, CastInv, StageInv, Star, Player, RegisterLine, LoginLine
<1> QED
  BY <1>2, <1>3, <1>4, <1>6, <1>7 DEF GatewayInv

(* The inductive invariant of the gateway: what is on the stage of the     *)
(* demo at each line of its script, whatever other clients do.             *)
THEOREM GatewayInvariance == GatewaySpec => []GatewayInv
<1>1. ASSUME GatewayInit PROVE GatewayInv
  <2>1. IInv
    BY <1>1, InitIInv DEF GatewayInit
  <2>2. GatewayTypeOK
    <3>1. Vacant \in Entry
      BY DEF Vacant, Entry
    <3>2. NoToken \in [iat : Int, born : Int]
      BY DEF NoToken
    <3>3. demo \in Stand
      BY <1>1 DEF GatewayInit, Stand
    <3> QED
      BY <1>1, <3>1, <3>2, <3>3 DEF GatewayInit, GatewayTypeOK
  <2>3. TokenInv /\ VacantInv
    BY <1>1 DEF GatewayInit, TokenInv, VacantInv
  <2>4. GuestInv /\ DriverInv
    BY <1>1, GatewayAssumption DEF GatewayInit, Init, Idle, GuestInv, DriverInv
  <2>5. DemoInv
    BY <1>1 DEF GatewayInit, Init, DemoInv, CastInv, StageInv, RegisterLine, LoginLine
  <2> QED
    BY <2>1, <2>2, <2>3, <2>4, <2>5 DEF GatewayInv
<1>2. ASSUME GatewayInv, [GatewayNext]_<<vars, doors>> PROVE GatewayInv'
  <2>1. CASE GatewayNext
    BY <1>2, <2>1, PlayStep, PlayCreateStep, PlayAuthStep, EnterStep, ServeStep, EndOfCallStep,
       VisitStep, VisitCreateStep, TickStep DEF GatewayNext
  <2>2. CASE UNCHANGED <<vars, doors>>
    <3>1. IInv'
      BY <1>2, <2>2, CoreStep DEF GatewayInv, vars
    <3>2. GatewayTypeOK' /\ VacantInv' /\ GuestInv' /\ TokenInv'
      BY <1>2, <2>2 DEF GatewayInv, GatewayTypeOK, VacantInv, GuestInv, TokenInv, vars, doors
    <3>3. Line' = Line
      BY <2>2 DEF Line, Script, doors
    <3>4. DriverInv'
      BY <1>2, <2>2, <3>3 DEF GatewayInv, DriverInv, vars, doors, Player
    <3>5. DemoInv'
      BY <1>2, <2>2 DEF GatewayInv, DemoInv, vars, doors, CastInv, StageInv, Star, Player,
         RegisterLine, LoginLine
    <3> QED
      BY <3>1, <3>2, <3>4, <3>5 DEF GatewayInv
  <2> QED
    BY <1>2, <2>1, <2>2
<1> QED
  BY <1>1, <1>2, PTL DEF GatewaySpec

(* The release demo fails only for what the world did to it: no other      *)
(* client, however many there are and whatever they ask, makes it fail.    *)
THEOREM DemoIsExplained == GatewaySpec => []DemoExplained
  BY GatewayInvariance, PTL DEF GatewayInv, DemoInv, DemoExplained
=============================================================================
