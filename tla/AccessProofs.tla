------------------------------ MODULE AccessProofs ------------------------------
(***************************************************************************)
(* Proofs about Access for any number of devices and addresses, and for    *)
(* any spelling of them: first of the sessions and the gate, in which what *)
(* the proxy counts plays no part, then of the proxy's rate limit.         *)
(***************************************************************************)
EXTENDS Access, Sums, SequenceTheorems, TLAPS

Place == {"idle", "hashing", "verifying", "sent", "admitted", "gated"}

(* A device the server holds a session, or a row it has read, for.         *)
InRequest(d) == pc[d] \in {"sent", "admitted", "gated"}
HoldsSession(d) == pc[d] = "verifying" \/ InRequest(d)

(* The rows know an account of this version of the token, or a later one.  *)
Known(rows, token) ==
  \E u \in rows : u.email = token.email /\ u.sessionVersion >= token.sessionVersion
Stale(rows, token) ==
  \E u \in rows : u.email = token.email /\ u.sessionVersion > token.sessionVersion

TypeOK ==
  /\ users \subseteq Session
  /\ pc \in [Device -> Place]
  /\ held \in [Device -> Session \cup Address \cup {NoCookie}]
  /\ cookie \in [Device -> Session \cup {NoCookie}]
  /\ outdated \subseteq Device
  /\ lateWrites \in [Device \X Address -> Nat]

(* The unique index, over addresses that are stored as they are meant.     *)
OneRow ==
  /\ \A u \in users : Normal[u.email] = u.email
  /\ \A u, v \in users : u.email = v.email => u = v

HeldShape ==
  \A d \in Device :
    /\ pc[d] = "idle" => held[d] = NoCookie
    /\ pc[d] = "hashing" => held[d] \in Address
    /\ HoldsSession(d) => held[d] \in Session
    /\ pc[d] = "verifying" => cookie[d] = NoCookie
    /\ InRequest(d) => cookie[d] \in {NoCookie, held[d]}

(* No token is ahead of the database.                                      *)
TokensKnown ==
  \A d \in Device :
    /\ cookie[d] # NoCookie => Known(users, cookie[d])
    /\ HoldsSession(d) => Known(users, held[d])

(* What a sign-out has ended is behind it for good.                        *)
EndedAreStale ==
  \A d \in outdated :
    /\ cookie[d] # NoCookie => Stale(users, cookie[d])
    /\ HoldsSession(d) => Stale(users, held[d])

(* After its late write a device is past no gate of the organization, and  *)
(* no trial of it will run again.                                          *)
LateIsLast ==
  \A d \in Device, email \in Address :
    lateWrites[<<d, email>>] # 0 =>
      /\ lateWrites[<<d, email>>] = 1
      /\ email \notin trial
      /\ Row(email) # {}
      /\ ~(pc[d] = "gated" /\ held[d].email = email)

IInv ==
  /\ TypeOK
  /\ OneRow
  /\ HeldShape
  /\ TokensKnown
  /\ EndedAreStale
  /\ LateIsLast

(***************************************************************************)
(* The actions.  Steps that only count requests or let time pass first.    *)
(***************************************************************************)
LEMMA NothingChanges ==
  ASSUME IInv, UNCHANGED <<users, trial, pc, held, cookie, histories>>
  PROVE  IInv'
BY DEF histories, IInv, TypeOK, OneRow, HeldShape, TokensKnown, EndedAreStale,
   LateIsLast, InRequest, HoldsSession, Known, Stale, Row

(* The device waits with an address; it holds no session. *)
LEMMA SignUpPreserves ==
  ASSUME IInv, NEW d \in Device, NEW address \in Address, SignUp(d, address)
  PROVE  IInv'
<1> USE NoCookieAssumption
    DEF IInv, SignUp, GoTo, Hold, Answer, Pass, InRequest, HoldsSession, histories
<1>1. TypeOK'
  BY DEF TypeOK, Place
<1>2. OneRow'
  BY DEF OneRow
<1>3. HeldShape'
  BY DEF TypeOK, HeldShape
<1>4. TokensKnown'
  BY DEF TokensKnown
<1>5. EndedAreStale'
  BY DEF EndedAreStale
<1>6. LateIsLast'
  BY DEF LateIsLast, Row
<1> QED
  BY <1>1, <1>2, <1>3, <1>4, <1>5, <1>6

(* The new row's address is meant as it is and no other row has it; no token
   names it yet, and no late write was for it, for those have a row. *)
LEMMA CreateAccountPreserves ==
  ASSUME IInv, NEW d \in Device, CreateAccount(d)
  PROVE  IInv'
<1> USE NoCookieAssumption, NormalAssumption
    DEF IInv, CreateAccount, GoTo, Hold, Answer, Pass, InRequest, HoldsSession, histories
<1>1. TypeOK'
  BY DEF TypeOK, Place, HeldShape, Session
<1>2. OneRow'
  <2>1. held[d] \in Address
    BY DEF HeldShape
  <2> QED
    BY <2>1 DEF OneRow, Row
<1>3. HeldShape'
  BY DEF TypeOK, HeldShape
<1>4. TokensKnown'
  BY DEF TypeOK, TokensKnown, Known
<1>5. EndedAreStale'
  BY DEF TypeOK, EndedAreStale, Stale
<1>6. LateIsLast'
  BY DEF LateIsLast, Row
<1> QED
  BY <1>1, <1>2, <1>3, <1>4, <1>5, <1>6

(* The device is idle again. *)
LEMMA RefuseAccountPreserves ==
  ASSUME IInv, NEW d \in Device, RefuseAccount(d)
  PROVE  IInv'
<1> USE NoCookieAssumption
    DEF IInv, RefuseAccount, GoTo, Hold, Answer, Pass, InRequest, HoldsSession, histories
<1>1. TypeOK'
  BY DEF TypeOK, Place
<1>2. OneRow'
  BY DEF OneRow
<1>3. HeldShape'
  BY DEF TypeOK, HeldShape
<1>4. TokensKnown'
  BY DEF TokensKnown
<1>5. EndedAreStale'
  BY DEF EndedAreStale
<1>6. LateIsLast'
  BY DEF LateIsLast, Row
<1> QED
  BY <1>1, <1>2, <1>3, <1>4, <1>5, <1>6

(* The row authorize has read is as new as a row can be, so the device is
   no longer among the outdated. *)
LEMMA SignInPreserves ==
  ASSUME IInv, NEW d \in Device, NEW u \in users, SignIn(d, u)
  PROVE  IInv'
<1> USE NoCookieAssumption
    DEF IInv, SignIn, GoTo, Hold, Answer, Pass, InRequest, HoldsSession, histories
<1>1. TypeOK'
  BY DEF TypeOK, Place
<1>2. OneRow'
  BY DEF OneRow
<1>3. HeldShape'
  BY DEF TypeOK, HeldShape
<1>4. TokensKnown'
  BY DEF TypeOK, HeldShape, TokensKnown, Known, Session
<1>5. EndedAreStale'
  BY DEF EndedAreStale
<1>6. LateIsLast'
  BY DEF LateIsLast, Row
<1> QED
  BY <1>1, <1>2, <1>3, <1>4, <1>5, <1>6

(* The token is the row that was read, or none. *)
LEMMA IssueTokenPreserves ==
  ASSUME IInv, NEW d \in Device, IssueToken(d)
  PROVE  IInv'
<1> USE NoCookieAssumption
    DEF IInv, IssueToken, GoTo, Hold, Answer, Pass, InRequest, HoldsSession, histories
<1>1. TypeOK'
  BY DEF TypeOK, Place, HeldShape
<1>2. OneRow'
  BY DEF OneRow
<1>3. HeldShape'
  BY DEF TypeOK, HeldShape
<1>4. TokensKnown'
  BY DEF TypeOK, TokensKnown
<1>5. EndedAreStale'
  BY DEF TypeOK, EndedAreStale
<1>6. LateIsLast'
  BY DEF LateIsLast, Row
<1> QED
  BY <1>1, <1>2, <1>3, <1>4, <1>5, <1>6

(* Every row stays or is raised: what was known stays known, what was stale
   stays stale, and what bears the user's address becomes stale. *)
LEMMA SignOutPreserves ==
  ASSUME IInv, NEW d \in Device, SignOut(d)
  PROVE  IInv'
<1> USE NoCookieAssumption
    DEF IInv, GoTo, Hold, Answer, Pass, InRequest, HoldsSession, histories
<1> DEFINE Raised(u) == IF u.email = cookie[d].email
                        THEN [u EXCEPT !.sessionVersion = @ + 1] ELSE u
<1>1. users' = {Raised(u) : u \in users}
  BY DEF SignOut
<1>2. \A u \in users : /\ u \in Session
                       /\ Raised(u) \in Session
                       /\ Raised(u) \in users'
                       /\ Raised(u).email = u.email
                       /\ Raised(u).sessionVersion >= u.sessionVersion
                       /\ u.email = cookie[d].email =>
                            Raised(u).sessionVersion > u.sessionVersion
  <2> SUFFICES ASSUME NEW u \in users
               PROVE  /\ u \in Session
                      /\ Raised(u) \in Session
                      /\ Raised(u).email = u.email
                      /\ Raised(u).sessionVersion >= u.sessionVersion
                      /\ u.email = cookie[d].email =>
                           Raised(u).sessionVersion > u.sessionVersion
    BY <1>1
  <2>1. u \in Session /\ u.email \in Address /\ u.sessionVersion \in Nat
    BY DEF TypeOK, Session
  <2>2. CASE u.email = cookie[d].email
    <3>1. Raised(u) = [email |-> u.email, sessionVersion |-> u.sessionVersion + 1]
      BY <2>1, <2>2 DEF Session
    <3> QED
      BY <2>1, <3>1 DEF Session
  <2>3. CASE u.email # cookie[d].email
    BY <2>1, <2>3
  <2> QED
    BY <2>2, <2>3
<1>3. \A v \in users' : \E u \in users : v = Raised(u)
  BY <1>1
<1> HIDE DEF Raised
<1>4. \A token \in Session : Known(users, token) => Known(users', token)
  BY <1>2 DEF Known, Session
<1>5. \A token \in Session : Stale(users, token) => Stale(users', token)
  BY <1>2 DEF Stale, Session
<1>6. \A token \in Session :
        Known(users, token) /\ token.email = cookie[d].email => Stale(users', token)
  BY <1>2 DEF Known, Stale, Session
<1>7. TypeOK'
  BY <1>2, <1>3 DEF SignOut, TypeOK
<1>8. OneRow'
  BY <1>2, <1>3 DEF OneRow
<1>9. HeldShape'
  BY DEF SignOut, TypeOK, HeldShape
<1>10. TokensKnown'
  BY <1>4 DEF SignOut, TypeOK, HeldShape, TokensKnown
<1>11. EndedAreStale'
  <2> SUFFICES ASSUME NEW e \in outdated'
               PROVE  /\ cookie'[e] # NoCookie => Stale(users', cookie'[e])
                      /\ (HoldsSession(e))' => Stale(users', held'[e])
    BY DEF EndedAreStale
  <2>1. e \in Device
    BY DEF SignOut, TypeOK
  <2>2. CASE e \in outdated
    BY <1>5, <2>1, <2>2 DEF SignOut, TypeOK, HeldShape, EndedAreStale
  <2>3. CASE e \notin outdated
    <3>1. /\ e # d
          /\ \/ cookie[e] # NoCookie /\ cookie[e].email = cookie[d].email
             \/ /\ pc[e] # "hashing"
                /\ held[e] # NoCookie /\ held[e].email = cookie[d].email
      BY <2>3 DEF SignOut
    <3>2. cookie[e] # NoCookie => Stale(users', cookie[e])
      BY <1>6, <2>1, <3>1 DEF TypeOK, Place, HeldShape, TokensKnown
    <3>3. HoldsSession(e) => Stale(users', held[e])
      BY <1>6, <2>1, <3>1 DEF TypeOK, Place, HeldShape, TokensKnown
    <3> QED
      BY <2>1, <3>1, <3>2, <3>3 DEF SignOut, TypeOK
  <2> QED
    BY <2>2, <2>3
<1>12. LateIsLast'
  <2>1. \A email : Row(email) # {} => (Row(email))' # {}
    BY <1>2 DEF Row
  <2> QED
    BY <2>1 DEF SignOut, LateIsLast
<1> QED
  BY <1>7, <1>8, <1>9, <1>10, <1>11, <1>12

(* A cookie less. *)
LEMMA ExpirePreserves ==
  ASSUME IInv, NEW d \in Device, Expire(d)
  PROVE  IInv'
<1> USE NoCookieAssumption
    DEF IInv, Expire, GoTo, Hold, Answer, Pass, InRequest, HoldsSession, histories
<1>1. TypeOK'
  BY DEF TypeOK
<1>2. OneRow'
  BY DEF OneRow
<1>3. HeldShape'
  BY DEF HeldShape
<1>4. TokensKnown'
  BY DEF TokensKnown
<1>5. EndedAreStale'
  BY DEF EndedAreStale
<1>6. LateIsLast'
  BY DEF LateIsLast, Row
<1> QED
  BY <1>1, <1>2, <1>3, <1>4, <1>5, <1>6

(* The request takes the cookie of the moment. *)
LEMMA SendPreserves ==
  ASSUME IInv, NEW d \in Device, Send(d)
  PROVE  IInv'
<1> USE NoCookieAssumption
    DEF IInv, Send, GoTo, Hold, Answer, Pass, InRequest, HoldsSession, histories
<1>1. TypeOK'
  BY DEF TypeOK, Place
<1>2. OneRow'
  BY DEF OneRow
<1>3. HeldShape'
  BY DEF TypeOK, HeldShape
<1>4. TokensKnown'
  BY DEF TypeOK, TokensKnown
<1>5. EndedAreStale'
  BY DEF TypeOK, EndedAreStale
<1>6. LateIsLast'
  BY DEF LateIsLast, Row
<1> QED
  BY <1>1, <1>2, <1>3, <1>4, <1>5, <1>6

(* The request goes on as it is, or the device is idle again. *)
LEMMA AdmitPreserves ==
  ASSUME IInv, NEW d \in Device, Admit(d)
  PROVE  IInv'
<1> USE NoCookieAssumption
    DEF IInv, Admit, GoTo, Hold, Answer, Pass, InRequest, HoldsSession, histories
<1>1. TypeOK'
  BY DEF TypeOK, Place
<1>2. OneRow'
  BY DEF OneRow
<1>3. HeldShape'
  BY DEF TypeOK, HeldShape
<1>4. TokensKnown'
  BY DEF TypeOK, TokensKnown
<1>5. EndedAreStale'
  BY DEF TypeOK, EndedAreStale
<1>6. LateIsLast'
  BY DEF TypeOK, LateIsLast, Row
<1> QED
  BY <1>1, <1>2, <1>3, <1>4, <1>5, <1>6

(* Past the gate the trial runs, so no late write came before. *)
LEMMA GatePreserves ==
  ASSUME IInv, NEW d \in Device, Gate(d)
  PROVE  IInv'
<1> USE NoCookieAssumption
    DEF IInv, Gate, GoTo, Hold, Answer, Pass, InRequest, HoldsSession, histories
<1>1. TypeOK'
  BY DEF TypeOK, Place
<1>2. OneRow'
  BY DEF OneRow
<1>3. HeldShape'
  BY DEF TypeOK, HeldShape
<1>4. TokensKnown'
  BY DEF TypeOK, TokensKnown
<1>5. EndedAreStale'
  BY DEF TypeOK, EndedAreStale
<1>6. LateIsLast'
  BY DEF TypeOK, LateIsLast, Row
<1> QED
  BY <1>1, <1>2, <1>3, <1>4, <1>5, <1>6

(* The first late write: the trial has ended, and the device is idle. *)
LEMMA WritePreserves ==
  ASSUME IInv, NEW d \in Device, Write(d)
  PROVE  IInv'
<1> USE NoCookieAssumption
    DEF IInv, Write, GoTo, Hold, Answer, Pass, InRequest, HoldsSession, histories
<1>1. TypeOK'
  BY DEF TypeOK, Place, HeldShape, Session
<1>2. OneRow'
  BY DEF OneRow
<1>3. HeldShape'
  BY DEF TypeOK, HeldShape
<1>4. TokensKnown'
  BY DEF TypeOK, TokensKnown
<1>5. EndedAreStale'
  BY DEF TypeOK, EndedAreStale
<1>6. LateIsLast'
  BY DEF TypeOK, HeldShape, TokensKnown, LateIsLast, Known, Row
<1> QED
  BY <1>1, <1>2, <1>3, <1>4, <1>5, <1>6

(* A trial less. *)
LEMMA EndTrialPreserves ==
  ASSUME IInv, NEW email \in trial, EndTrial(email)
  PROVE  IInv'
<1> USE NoCookieAssumption
    DEF IInv, EndTrial, GoTo, Hold, Answer, Pass, InRequest, HoldsSession, histories
<1>1. TypeOK'
  BY DEF TypeOK
<1>2. OneRow'
  BY DEF OneRow
<1>3. HeldShape'
  BY DEF HeldShape
<1>4. TokensKnown'
  BY DEF TokensKnown
<1>5. EndedAreStale'
  BY DEF EndedAreStale
<1>6. LateIsLast'
  BY DEF LateIsLast, Row
<1> QED
  BY <1>1, <1>2, <1>3, <1>4, <1>5, <1>6

--------------------------------------------------------------------------------
(***************************************************************************)
(* The invariant holds at the start and in every step.                     *)
(***************************************************************************)
LEMMA InvInit == Init => IInv
BY NoCookieAssumption
   DEF Init, IInv, TypeOK, Place, OneRow, HeldShape, TokensKnown, EndedAreStale,
       LateIsLast, InRequest, HoldsSession

(* Every step keeps the invariant.                                         *)
LEMMA InvNext == IInv /\ [Next]_vars => IInv'
<1> SUFFICES ASSUME IInv, [Next]_vars
             PROVE  IInv'
  OBVIOUS
<1>1. ASSUME NEW d \in Device, Refuse(d) \/ Fail(d)
      PROVE  IInv'
  BY <1>1, NothingChanges DEF Refuse, Fail
<1>2. CASE Elapse
  BY <1>2, NothingChanges DEF Elapse
<1>3. CASE UNCHANGED vars
  BY <1>3, NothingChanges DEF vars
<1> QED
  BY <1>1, <1>2, <1>3, SignUpPreserves, CreateAccountPreserves,
     RefuseAccountPreserves, SignInPreserves, IssueTokenPreserves, SignOutPreserves,
     ExpirePreserves, SendPreserves, AdmitPreserves, GatePreserves, WritePreserves,
     EndTrialPreserves
  DEF Next

(***************************************************************************)
(* Tokens, rows and what requests hold are well typed, and what a device   *)
(* holds fits its cookie and its place.                                    *)
(***************************************************************************)
THEOREM Invariance == Spec => []IInv
BY InvInit, InvNext, PTL DEF Spec

(***************************************************************************)
(* However two sign-ups interleave and however the address is typed, one   *)
(* person's address has one account (the signup route).                    *)
(***************************************************************************)
THEOREM AddressHasOneAccount == Spec => []OneAccountPerAddress
<1>1. IInv => OneAccountPerAddress
  BY DEF IInv, OneRow, OneAccountPerAddress
<1> QED
  BY <1>1, Invariance, PTL

(***************************************************************************)
(* Of a device and an organization at most one write comes after the end   *)
(* of the trial (getSubscriptionContext is read before the handler runs).  *)
(***************************************************************************)
THEOREM LateWrites == Spec => []LateWritesBounded
<1>1. IInv => LateWritesBounded
  <2> SUFFICES ASSUME IInv, NEW d \in Device, NEW email \in Address
               PROVE  lateWrites[<<d, email>>] <= 1
    BY DEF LateWritesBounded
  <2>1. lateWrites[<<d, email>>] \in {0, 1}
    BY DEF IInv, LateIsLast
  <2> QED
    BY <2>1
<1> QED
  BY <1>1, Invariance, PTL

(* No step but requireOrgContext's lets a request in.                      *)
LEMMA OnlyAdmitAdmits ==
  ASSUME TypeOK, Next, NEW d \in Device, pc[d] = "sent", pc'[d] = "admitted"
  PROVE  Admit(d)
<1>1. \/ \E x \in Device : Admit(x)
      \/ UNCHANGED pc
      \/ \E x \in Device, place \in Place \ {"admitted"} : GoTo(x, place)
  BY DEF Next, Place, histories, Hold, Answer, Refuse, Fail, SignUp, CreateAccount,
     RefuseAccount, SignIn, IssueToken, SignOut, Expire, Send, Gate, Write, EndTrial,
     Elapse
<1>2. \A x \in Device : Admit(x) => x = d
  BY DEF TypeOK, Admit, GoTo, Hold, Answer
<1> QED
  BY <1>1, <1>2 DEF TypeOK, GoTo

(***************************************************************************)
(* A session ended by a sign-out is never admitted again: the version of   *)
(* its token is behind its row's, and the address has no other row.        *)
(***************************************************************************)
THEOREM EndedStaysOut == Spec => SignedOutStaysOut
<1> DEFINE Step == \A d \in Device : pc[d] = "sent" /\ pc'[d] = "admitted" => d \notin outdated
<1>1. IInv /\ [Next]_vars => [Step]_vars
  <2> SUFFICES ASSUME IInv, Next, NEW d \in Device,
                      pc[d] = "sent", pc'[d] = "admitted"
               PROVE  d \notin outdated
    BY DEF vars
  <2>1. Admit(d)
    BY OnlyAdmitAdmits DEF IInv
  <2>2. Current(held[d]) /\ held[d] \in Session
    BY <2>1 DEF Admit, GoTo, Hold, Answer, IInv, TypeOK, HeldShape, HoldsSession, InRequest
  <2>3. ~Stale(users, held[d])
    BY <2>2 DEF IInv, TypeOK, OneRow, Current, Stale, Session
  <2> QED
    BY <2>3 DEF IInv, EndedAreStale, HoldsSession, InRequest
<1> QED
  BY <1>1, Invariance, PTL DEF Spec, SignedOutStaysOut

--------------------------------------------------------------------------------
(***************************************************************************)
(* The rate limiter.  Of a log l: the requests of an address that passed   *)
(* at a time or later, and those of them before another time.              *)
(***************************************************************************)
WindowRow == [ip : Device, count : Nat \ {0}, resetTime : Nat]
LogRow    == [ip : Device, time : Nat, passed : BOOLEAN, event : BOOLEAN]

Passed(l, ip, from) ==
  {m \in DOMAIN l : l[m].ip = ip /\ l[m].passed /\ l[m].time >= from}
Before(l, ip, from, to) == {m \in Passed(l, ip, from) : l[m].time < to}

(***************************************************************************)
(* At time t: the entry w counts what passed since its window opened, all  *)
(* requests of the address were made before the window ends, and in the    *)
(* time of one window before it no more passed than may.                   *)
(***************************************************************************)
Opened(w) == w.resetTime - Window

Counted(l, t, w) ==
  /\ Opened(w) <= t
  /\ \A m \in DOMAIN l : l[m].ip = w.ip => l[m].time <= w.resetTime
  /\ Cardinality(Passed(l, w.ip, Opened(w))) <= Limit
  /\ Cardinality(Passed(l, w.ip, Opened(w))) <= w.count
  /\ Cardinality(Before(l, w.ip, Opened(w) - Window, Opened(w))) <= Limit

(***************************************************************************)
(* At time t: an address may start a new window, for all its requests were *)
(* made earlier, and in the time of one window no more passed than may.    *)
(***************************************************************************)
Quiet(l, t, ip) ==
  /\ \A m \in DOMAIN l : l[m].ip = ip => l[m].time < t
  /\ Cardinality(Passed(l, ip, t - Window)) <= Limit

(* What NeverTwiceTheLimit says of the n-th request.                       *)
NotTwice(l, n) ==
  l[n].passed =>
    Cardinality({m \in 1 .. n - 1 : /\ l[m].ip = l[n].ip
                                    /\ l[m].time >= l[n].time - Window
                                    /\ l[m].passed}) < 2 * Limit

LimiterTyped ==
  /\ now \in Nat
  /\ windows \in Seq(WindowRow)
  /\ log \in Seq(LogRow)
  /\ \A m \in DOMAIN log : log[m].time <= now

EntriesApart ==
  /\ Len(windows) <= MaxEntries
  /\ \A j, k \in DOMAIN windows : windows[j].ip = windows[k].ip => j = k

EntriesCount ==
  /\ \A k \in DOMAIN windows : windows[k].ip \notin forgotten => Counted(log, now, windows[k])
  /\ \A ip \in Device \ forgotten :
       (\A k \in DOMAIN windows : windows[k].ip # ip) => Quiet(log, now, ip)

RequestsBounded ==
  \A n \in DOMAIN log : log[n].ip \notin forgotten => NotTwice(log, n)

LimiterInv == LimiterTyped /\ EntriesApart /\ EntriesCount /\ RequestsBounded

(* Requests have their times.                                              *)
LEMMA LogTimes ==
  ASSUME NEW l \in Seq(LogRow), NEW m \in DOMAIN l
  PROVE  l[m] \in LogRow /\ l[m].time \in Nat /\ l[m].time \in Int
<1>1. l[m] \in LogRow
  BY SequenceDomain
<1> QED
  BY <1>1 DEF LogRow

(* The requests that passed are finitely many.                             *)
LEMMA PassedFinite ==
  ASSUME NEW l \in Seq(LogRow), NEW ip, NEW from, NEW to
  PROVE  /\ IsFiniteSet(Passed(l, ip, from)) /\ IsFiniteSet(Before(l, ip, from, to))
         /\ Cardinality(Passed(l, ip, from)) \in Nat
         /\ Cardinality(Before(l, ip, from, to)) \in Nat
<1>1. /\ IsFiniteSet(DOMAIN l) /\ Passed(l, ip, from) \in SUBSET DOMAIN l
      /\ Before(l, ip, from, to) \in SUBSET DOMAIN l
  BY SequenceDomain DEF Passed, Before
<1>2. IsFiniteSet(Passed(l, ip, from)) /\ IsFiniteSet(Before(l, ip, from, to))
  BY <1>1, FS_Subset
<1> QED
  BY <1>2, FS_CardinalityType

(* The log after one more request.                                         *)
LEMMA OneMore ==
  ASSUME NEW l \in Seq(LogRow), NEW row \in LogRow
  PROVE  LET k == Append(l, row)
             n == Len(l) + 1
         IN  /\ k \in Seq(LogRow) /\ Len(l) \in Nat /\ Len(k) = n
             /\ DOMAIN k = DOMAIN l \cup {n} /\ n \notin DOMAIN l
             /\ DOMAIN k = 1 .. n /\ DOMAIN l = 1 .. Len(l)
             /\ k[n] = row /\ \A m \in DOMAIN l : k[m] = l[m]
BY AppendProperties, LenProperties

(***************************************************************************)
(* A request of another address changes nothing that is said of this one.  *)
(***************************************************************************)
LEMMA OtherLeaves ==
  ASSUME NEW l \in Seq(LogRow), NEW row \in LogRow, NEW ip, row.ip # ip, NEW from, NEW to
  PROVE  /\ Passed(Append(l, row), ip, from) = Passed(l, ip, from)
         /\ Before(Append(l, row), ip, from, to) = Before(l, ip, from, to)
         /\ \A m \in DOMAIN Append(l, row) : Append(l, row)[m].ip = ip =>
              m \in DOMAIN l /\ Append(l, row)[m] = l[m]
<1>1. PICK k : k = Append(l, row)
  OBVIOUS
<1>2. PICK n : n = Len(l) + 1
  OBVIOUS
<1>3. DOMAIN k = DOMAIN l \cup {n} /\ k[n] = row /\ \A m \in DOMAIN l : k[m] = l[m]
  BY <1>1, <1>2, OneMore
<1>4. Passed(k, ip, from) = Passed(l, ip, from)
  BY <1>3 DEF Passed
<1>5. Before(k, ip, from, to) = Before(l, ip, from, to)
  BY <1>3, <1>4 DEF Before, Passed
<1> QED
  BY <1>1, <1>3, <1>4, <1>5

(* So a request of another address keeps the count of an entry,            *)
LEMMA OtherKeepsCount ==
  ASSUME NEW l \in Seq(LogRow), NEW row \in LogRow, NEW t, NEW w, row.ip # w.ip,
         Counted(l, t, w)
  PROVE  Counted(Append(l, row), t, w)
<1>1. PICK ip, opened : ip = w.ip /\ opened = Opened(w)
  OBVIOUS
<1>2. /\ Passed(Append(l, row), ip, opened) = Passed(l, ip, opened)
      /\ Before(Append(l, row), ip, opened - Window, opened)
           = Before(l, ip, opened - Window, opened)
      /\ \A m \in DOMAIN Append(l, row) : Append(l, row)[m].ip = ip =>
           m \in DOMAIN l /\ Append(l, row)[m] = l[m]
  BY <1>1, OtherLeaves
<1> QED
  BY <1>1, <1>2 DEF Counted

(* and a quiet address quiet.                                              *)
LEMMA OtherKeepsQuiet ==
  ASSUME NEW l \in Seq(LogRow), NEW row \in LogRow, NEW t, NEW ip, row.ip # ip,
         Quiet(l, t, ip)
  PROVE  Quiet(Append(l, row), t, ip)
<1>1. /\ Passed(Append(l, row), ip, t - Window) = Passed(l, ip, t - Window)
      /\ \A m \in DOMAIN Append(l, row) : Append(l, row)[m].ip = ip =>
           m \in DOMAIN l /\ Append(l, row)[m] = l[m]
  BY OtherLeaves
<1> QED
  BY <1>1 DEF Quiet

(***************************************************************************)
(* As time passes, an entry stays right, and a quiet address quiet; and    *)
(* after the end of its window the address of an entry is quiet.           *)
(***************************************************************************)
LEMMA LaterCounted ==
  ASSUME NEW l, NEW t \in Nat, NEW u \in Nat, t <= u, NEW w \in WindowRow, Counted(l, t, w)
  PROVE  Counted(l, u, w)
<1>1. Opened(w) \in Int
  BY WindowAssumption DEF Opened, WindowRow
<1>2. Opened(w) <= u
  BY <1>1 DEF Counted
<1> QED
  BY <1>2 DEF Counted

(* Fewer passed since a later time.                                        *)
LEMMA PassedLater ==
  ASSUME NEW l \in Seq(LogRow), NEW ip, NEW from \in Int, NEW to \in Int, from <= to
  PROVE  Cardinality(Passed(l, ip, to)) <= Cardinality(Passed(l, ip, from))
<1>1. \A m \in DOMAIN l : l[m].time \in Int
  BY LogTimes
<1>2. Passed(l, ip, to) \in SUBSET Passed(l, ip, from)
  BY <1>1 DEF Passed
<1> QED
  BY <1>2, PassedFinite, FS_Subset

(* A quiet address stays quiet as time passes.                             *)
LEMMA LaterQuiet ==
  ASSUME NEW l \in Seq(LogRow), NEW t \in Nat, NEW u \in Nat, t <= u, NEW ip, Quiet(l, t, ip)
  PROVE  Quiet(l, u, ip)
<1>1. \A m \in DOMAIN l : l[m].ip = ip => l[m].time < u
  <2>1. \A m \in DOMAIN l : l[m].time \in Int
    BY LogTimes
  <2> QED
    BY <2>1 DEF Quiet
<1>2. Cardinality(Passed(l, ip, u - Window)) <= Limit
  <2>1. t - Window \in Int /\ u - Window \in Int /\ t - Window <= u - Window
    BY WindowAssumption
  <2>2. Cardinality(Passed(l, ip, u - Window)) <= Cardinality(Passed(l, ip, t - Window))
    BY <2>1, PassedLater
  <2>3. Cardinality(Passed(l, ip, u - Window)) \in Nat
        /\ Cardinality(Passed(l, ip, t - Window)) \in Nat
    BY PassedFinite
  <2> QED
    BY <2>2, <2>3, LimitAssumption DEF Quiet
<1> QED
  BY <1>1, <1>2 DEF Quiet

(* The address of an entry is quiet when its window has ended.             *)
LEMMA ExpiredQuiet ==
  ASSUME NEW l \in Seq(LogRow), NEW t \in Nat, NEW w \in WindowRow, Counted(l, t, w),
         t > w.resetTime
  PROVE  Quiet(l, t, w.ip)
<1>1. w.resetTime \in Nat /\ Opened(w) = w.resetTime - Window /\ Window \in Nat
  BY WindowAssumption DEF WindowRow, Opened
<1>2. \A m \in DOMAIN l : l[m].ip = w.ip => l[m].time < t
  <2>1. \A m \in DOMAIN l : l[m].time \in Int
    BY LogTimes
  <2> QED
    BY <1>1, <2>1 DEF Counted
<1>3. Cardinality(Passed(l, w.ip, t - Window)) <= Limit
  <2>1. t - Window \in Int /\ Opened(w) \in Int /\ Opened(w) <= t - Window
    BY <1>1
  <2>2. Cardinality(Passed(l, w.ip, t - Window)) <= Cardinality(Passed(l, w.ip, Opened(w)))
    BY <2>1, PassedLater
  <2>3. Cardinality(Passed(l, w.ip, t - Window)) \in Nat
        /\ Cardinality(Passed(l, w.ip, Opened(w))) \in Nat
    BY PassedFinite
  <2> QED
    BY <2>2, <2>3, LimitAssumption DEF Counted
<1> QED
  BY <1>2, <1>3 DEF Quiet

(***************************************************************************)
(* A quiet address opens a window: only its request is in it, and what may *)
(* have passed before it did so in the time of one window.                 *)
(***************************************************************************)
LEMMA OpenedCounts ==
  ASSUME NEW l \in Seq(LogRow), NEW t \in Nat, NEW row \in LogRow, row.time = t,
         Quiet(l, t, row.ip),
         NEW w, w = [ip |-> row.ip, count |-> 1, resetTime |-> t + Window]
  PROVE  Counted(Append(l, row), t, w)
<1>1. PICK k, n, ip : k = Append(l, row) /\ n = Len(l) + 1 /\ ip = row.ip
  OBVIOUS
<1>2. /\ k \in Seq(LogRow) /\ DOMAIN k = DOMAIN l \cup {n} /\ n \notin DOMAIN l
      /\ k[n] = row /\ \A m \in DOMAIN l : k[m] = l[m]
  BY <1>1, OneMore
<1>3. /\ w.ip = ip /\ w.count = 1 /\ w.resetTime = t + Window /\ Opened(w) = t
      /\ Window \in Nat /\ t - Window \in Int
  BY <1>1, WindowAssumption DEF Opened
<1>4. \A m \in DOMAIN l : l[m].ip = ip => l[m].time \in Int /\ l[m].time < t
  BY <1>1, LogTimes DEF Quiet
<1>5. \A m \in DOMAIN k : k[m].ip = ip => k[m].time <= t + Window
  <2>1. ASSUME NEW m \in DOMAIN l, k[m].ip = ip
        PROVE  k[m].time <= t + Window
    BY <1>2, <1>3, <1>4, <2>1
  <2>2. k[n].time <= t + Window
    BY <1>2, <1>3
  <2> QED
    BY <1>2, <2>1, <2>2
<1>6. Cardinality(Passed(k, ip, t)) <= 1
  <2>1. Passed(k, ip, t) \in SUBSET {n}
    BY <1>2, <1>4 DEF Passed
  <2>2. IsFiniteSet({n}) /\ Cardinality({n}) = 1
    BY FS_Singleton
  <2> QED
    BY <2>1, <2>2, FS_Subset
<1>7. Cardinality(Before(k, ip, t - Window, t)) <= Limit
  <2>1. Before(k, ip, t - Window, t) \in SUBSET Passed(l, ip, t - Window)
    BY <1>2 DEF Before, Passed
  <2>2. Cardinality(Before(k, ip, t - Window, t)) <= Cardinality(Passed(l, ip, t - Window))
    BY <2>1, PassedFinite, FS_Subset
  <2>3. /\ Cardinality(Before(k, ip, t - Window, t)) \in Nat
        /\ Cardinality(Passed(l, ip, t - Window)) \in Nat
    BY <1>2, PassedFinite
  <2> QED
    BY <1>1, <2>2, <2>3, LimitAssumption DEF Quiet
<1>8. Cardinality(Passed(k, ip, t)) <= Limit
  BY <1>2, <1>6, PassedFinite, LimitAssumption
<1> QED
  BY <1>1, <1>3, <1>5, <1>6, <1>7, <1>8 DEF Counted

(***************************************************************************)
(* A request in a window that runs is counted, and passes up to Limit.     *)
(***************************************************************************)
LEMMA RunningCounts ==
  ASSUME NEW l \in Seq(LogRow), NEW t \in Nat, NEW w \in WindowRow, Counted(l, t, w),
         t <= w.resetTime, NEW row \in LogRow, row.time = t, row.ip = w.ip,
         row.passed => w.count + 1 <= Limit, NEW v, v = [w EXCEPT !.count = @ + 1]
  PROVE  Counted(Append(l, row), t, v)
<1>1. PICK k, n, ip, opened :
        k = Append(l, row) /\ n = Len(l) + 1 /\ ip = w.ip /\ opened = Opened(w)
  OBVIOUS
<1>2. /\ k \in Seq(LogRow) /\ DOMAIN k = DOMAIN l \cup {n} /\ n \notin DOMAIN l
      /\ k[n] = row /\ \A m \in DOMAIN l : k[m] = l[m]
  BY <1>1, OneMore
<1>3. /\ v.ip = ip /\ v.count = w.count + 1 /\ v.resetTime = w.resetTime /\ w.count \in Nat
      /\ Opened(v) = opened /\ opened <= t /\ opened \in Int
  BY <1>1, WindowAssumption DEF Opened, WindowRow, Counted
<1>4. \A m \in DOMAIN k : k[m].ip = ip => k[m].time <= w.resetTime
  BY <1>1, <1>2 DEF Counted
<1>5. Before(k, ip, opened - Window, opened) = Before(l, ip, opened - Window, opened)
  <2>1. n \notin Before(k, ip, opened - Window, opened)
    BY <1>2, <1>3 DEF Before
  <2> QED
    BY <1>2, <2>1 DEF Before, Passed
<1>6. /\ Cardinality(Passed(l, ip, opened)) \in Nat /\ IsFiniteSet(Passed(l, ip, opened))
      /\ Cardinality(Passed(l, ip, opened)) <= w.count
      /\ Cardinality(Passed(l, ip, opened)) <= Limit
  BY <1>1, PassedFinite DEF Counted
<1>7. CASE row.passed
  <2>1. Passed(k, ip, opened) = Passed(l, ip, opened) \cup {n} /\ n \notin Passed(l, ip, opened)
    BY <1>1, <1>2, <1>3, <1>7 DEF Passed
  <2>2. Cardinality(Passed(k, ip, opened)) = Cardinality(Passed(l, ip, opened)) + 1
    BY <1>6, <2>1, FS_AddElement
  <2>3. /\ Cardinality(Passed(k, ip, opened)) <= Limit
        /\ Cardinality(Passed(k, ip, opened)) <= w.count + 1
    BY <1>3, <1>6, <1>7, <2>2, LimitAssumption
  <2> QED
    BY <1>1, <1>3, <1>4, <1>5, <2>3 DEF Counted
<1>8. CASE ~row.passed
  <2>1. Passed(k, ip, opened) = Passed(l, ip, opened)
    BY <1>2, <1>8 DEF Passed
  <2>2. Cardinality(Passed(k, ip, opened)) <= w.count + 1
    BY <1>3, <1>6, <2>1
  <2> QED
    BY <1>1, <1>3, <1>4, <1>5, <1>6, <2>1, <2>2 DEF Counted
<1> QED
  BY <1>7, <1>8

(***************************************************************************)
(* The latest request: what passed within the time of one window before it *)
(* is in its entry's window, or was in the time of one window before that. *)
(***************************************************************************)
LEMMA LatestNotTwice ==
  ASSUME NEW l \in Seq(LogRow), NEW row \in LogRow, NEW t \in Nat, row.time = t,
         NEW w, w.ip = row.ip, w.resetTime \in Nat, Counted(Append(l, row), t, w)
  PROVE  NotTwice(Append(l, row), Len(l) + 1)
<1>1. PICK k, n, ip, opened :
        k = Append(l, row) /\ n = Len(l) + 1 /\ ip = w.ip /\ opened = Opened(w)
  OBVIOUS
<1>2. /\ k \in Seq(LogRow) /\ DOMAIN k = DOMAIN l \cup {n} /\ n \notin DOMAIN l
      /\ k[n] = row /\ DOMAIN l = 1 .. n - 1
  <2>1. Len(l) \in Nat /\ n - 1 = Len(l)
    BY <1>1, LenProperties
  <2> QED
    BY <1>1, <2>1, OneMore
<1>3. opened <= t /\ opened \in Int /\ Window \in Nat /\ Limit \in Nat
  BY <1>1, WindowAssumption, LimitAssumption DEF Opened, Counted
<1>4. \A m \in DOMAIN k : k[m].time \in Int
  BY <1>2, LogTimes
<1> DEFINE within == {m \in 1 .. n - 1 : /\ k[m].ip = k[n].ip
                                         /\ k[m].time >= k[n].time - Window
                                         /\ k[m].passed}
<1> SUFFICES ASSUME row.passed
             PROVE  Cardinality(within) < 2 * Limit
  BY <1>1, <1>2 DEF NotTwice
<1>5. PICK A, B : /\ A = Passed(k, ip, opened)
                  /\ B = Before(k, ip, opened - Window, opened)
  OBVIOUS
<1>6. /\ IsFiniteSet(A) /\ IsFiniteSet(B) /\ IsFiniteSet(A \cap B)
      /\ Cardinality(A) \in Nat /\ Cardinality(B) \in Nat /\ Cardinality(A \cap B) \in Nat
      /\ Cardinality(A) <= Limit /\ Cardinality(B) <= Limit
  <2>1. IsFiniteSet(A) /\ IsFiniteSet(B) /\ Cardinality(A) <= Limit /\ Cardinality(B) <= Limit
    BY <1>1, <1>2, <1>5, PassedFinite DEF Counted
  <2>2. IsFiniteSet(A \cap B)
    BY <2>1, FS_Intersection
  <2> QED
    BY <2>1, <2>2, FS_CardinalityType
<1>7. within \cup {n} \in SUBSET (A \cup B) /\ n \notin within
  <2>1. n \in A
    BY <1>1, <1>2, <1>3, <1>5 DEF Passed
  <2>2. ASSUME NEW m \in within
        PROVE  m \in A \cup B
    <3>1. /\ m \in DOMAIN k /\ k[m].ip = ip /\ k[m].passed
          /\ k[m].time \in Int /\ k[m].time >= t - Window
      BY <1>1, <1>2, <1>4
    <3>2. k[m].time >= opened - Window
      BY <1>3, <3>1
    <3>3. k[m].time >= opened \/ k[m].time < opened
      BY <1>3, <3>1
    <3> QED
      BY <1>5, <3>1, <3>2, <3>3 DEF Passed, Before
  <2>3. n \notin within
    BY <1>2
  <2> QED
    BY <2>1, <2>2, <2>3
<1> HIDE DEF within
<1>8. /\ IsFiniteSet(A \cup B)
      /\ Cardinality(A \cup B) <= 2 * Limit
  <2>1. /\ IsFiniteSet(A \cup B)
        /\ Cardinality(A \cup B) = Cardinality(A) + Cardinality(B) - Cardinality(A \cap B)
    BY <1>6, FS_Union
  <2> QED
    BY <1>3, <1>6, <2>1
<1>9. /\ IsFiniteSet(within) /\ Cardinality(within \cup {n}) <= Cardinality(A \cup B)
  BY <1>7, <1>8, FS_Subset
<1>10. /\ Cardinality(within \cup {n}) = Cardinality(within) + 1
       /\ Cardinality(within) \in Nat /\ Cardinality(A \cup B) \in Nat
  BY <1>7, <1>8, <1>9, FS_AddElement, FS_CardinalityType
<1> QED
  BY <1>3, <1>8, <1>9, <1>10

(* What holds of an earlier request holds after one more.                  *)
LEMMA EarlierNotTwice ==
  ASSUME NEW l \in Seq(LogRow), NEW row \in LogRow, NEW n \in DOMAIN l, NotTwice(l, n)
  PROVE  NotTwice(Append(l, row), n)
<1>1. PICK k : k = Append(l, row)
  OBVIOUS
<1>2. DOMAIN l = 1 .. Len(l) /\ Len(l) \in Nat /\ \A m \in DOMAIN l : k[m] = l[m]
  BY <1>1, OneMore
<1>3. \A m \in 1 .. n - 1 : k[m] = l[m]
  BY <1>2
<1>4. k[n] = l[n]
  BY <1>2
<1> QED
  BY <1>1, <1>3, <1>4 DEF NotTwice

--------------------------------------------------------------------------------
(***************************************************************************)
(* The place of an address in the Map: of an entry it has, or 0.           *)
(***************************************************************************)
LEMMA AtFinds ==
  ASSUME NEW S, NEW entries \in Seq(S), NEW ip
  PROVE  \/ At(entries, ip) = 0 /\ \A k \in DOMAIN entries : entries[k].ip # ip
         \/ At(entries, ip) \in DOMAIN entries /\ entries[At(entries, ip)].ip = ip
<1> DEFINE found == {k \in 1 .. Len(entries) : entries[k].ip = ip}
<1>1. /\ DOMAIN entries = 1 .. Len(entries) /\ Len(entries) \in Nat
      /\ IsFiniteSet(DOMAIN entries)
  BY SequenceDomain
<1>2. At(entries, ip) = IF found # {} THEN Min(found) ELSE 0
  BY DEF At, SelectInSeq
<1>3. CASE found = {}
  BY <1>1, <1>2, <1>3
<1>4. CASE found # {}
  <2>1. IsFiniteSet(found) /\ \A k \in found : k \in Int
    BY <1>1, FS_Subset
  <2>2. Min(found) \in found
    <3> HIDE DEF found
    <3>1. \E k \in found : \A j \in found : k <= j
      BY <1>4, <2>1, LeastOf
    <3> QED
      BY <3>1 DEF Min
  <2> QED
    BY <1>1, <1>2, <1>4, <2>2
<1> QED
  BY <1>3, <1>4

(***************************************************************************)
(* Room is made from the entries that are there: for a new address there   *)
(* is one place at least, and for one that has an entry nothing changes.   *)
(***************************************************************************)
LEMMA RoomIsMade ==
  ASSUME LimiterTyped, EntriesApart, NEW ip
  PROVE  /\ MakeRoom(ip) \in Seq(WindowRow)
         /\ At(windows, ip) # 0 => MakeRoom(ip) = windows
         /\ At(windows, ip) = 0 => Len(MakeRoom(ip)) < MaxEntries
         /\ \A k \in DOMAIN MakeRoom(ip) :
              \E j \in DOMAIN windows : MakeRoom(ip)[k] = windows[j]
         /\ \A j, k \in DOMAIN MakeRoom(ip) :
              MakeRoom(ip)[j].ip = MakeRoom(ip)[k].ip => j = k
<1>1. /\ windows \in Seq(WindowRow) /\ Len(windows) \in Nat /\ Len(windows) <= MaxEntries
      /\ MaxEntries \in Nat \ {0}
  BY LenProperties, LimitAssumption DEF LimiterTyped, EntriesApart
<1>2. CASE Len(windows) < MaxEntries \/ At(windows, ip) # 0
  <2>1. MakeRoom(ip) = windows
    BY <1>2 DEF MakeRoom
  <2> QED
    BY <1>1, <1>2, <2>1 DEF EntriesApart
<1>3. CASE ~(Len(windows) < MaxEntries \/ At(windows, ip) # 0)
  <2> DEFINE K == {k \in DOMAIN windows : Running(windows[k])}
  <2>1. PICK live, a : live = Sublist(windows, K) /\ a = Ascending(K)
    OBVIOUS
  <2>2. /\ live \in Seq(WindowRow) /\ Len(live) <= Len(windows) /\ DOMAIN live = 1 .. Len(live)
        /\ \A n \in DOMAIN live : a[n] \in DOMAIN windows /\ live[n] = windows[a[n]]
        /\ \A m, n \in DOMAIN live : m < n => a[m] < a[n]
    <3>1. K \in SUBSET DOMAIN windows
      OBVIOUS
    <3> HIDE DEF K
    <3> QED
      BY <1>1, <2>1, <3>1, SublistOf
  <2>3. Len(live) \in Nat /\ Len(live) <= MaxEntries
    BY <1>1, <2>2, LenProperties
  <2>4. ASSUME NEW m \in DOMAIN live, NEW n \in DOMAIN live, live[m].ip = live[n].ip
        PROVE  m = n
    <3>1. a[m] = a[n]
      BY <2>2, <2>4 DEF EntriesApart
    <3>2. a[m] \in Int /\ a[n] \in Int
      BY <1>1, <2>2, LenProperties
    <3>3. ~(m < n) /\ ~(n < m)
      BY <2>2, <3>1, <3>2
    <3> QED
      BY <2>2, <2>3, <3>3
  <2>5. MakeRoom(ip) = IF Len(live) >= MaxEntries THEN Tail(live) ELSE live
    BY <1>3, <2>1 DEF MakeRoom
  <2>6. CASE Len(live) >= MaxEntries
    <3>1. PICK rest : rest = Tail(live)
      OBVIOUS
    <3>2. live # <<>>
      BY <1>1, <2>2, <2>6, EmptySeq
    <3>3. /\ rest \in Seq(WindowRow) /\ Len(rest) = Len(live) - 1
          /\ \A n \in 1 .. Len(rest) : rest[n] = live[n + 1]
      BY <2>2, <3>1, <3>2, HeadTailProperties
    <3>4. DOMAIN rest = 1 .. Len(rest) /\ \A n \in DOMAIN rest : n \in Int /\ n + 1 \in DOMAIN live
      BY <2>2, <2>3, <3>3, LenProperties
    <3>5. \A n \in DOMAIN rest : \E j \in DOMAIN windows : rest[n] = windows[j]
      BY <2>2, <3>3, <3>4
    <3>6. ASSUME NEW m \in DOMAIN rest, NEW n \in DOMAIN rest, rest[m].ip = rest[n].ip
          PROVE  m = n
      <4>1. m + 1 = n + 1
        BY <2>4, <3>3, <3>4, <3>6
      <4> QED
        BY <3>4, <4>1
    <3>7. Len(rest) < MaxEntries
      BY <1>1, <2>3, <3>3
    <3> QED
      BY <1>3, <2>5, <2>6, <3>1, <3>3, <3>5, <3>6, <3>7
  <2>7. CASE ~(Len(live) >= MaxEntries)
    <3>1. Len(live) < MaxEntries
      BY <1>1, <2>3, <2>7
    <3>2. \A n \in DOMAIN live : \E j \in DOMAIN windows : live[n] = windows[j]
      BY <2>2
    <3> QED
      BY <1>3, <2>2, <2>4, <2>5, <2>7, <3>1, <3>2
  <2> QED
    BY <2>6, <2>7
<1> QED
  BY <1>2, <1>3

(***************************************************************************)
(* What a request of d does: entry is the entry of d then, row its line in *)
(* the log.                                                                *)
(***************************************************************************)
Fresh(entry, d) ==
  /\ entry = [ip |-> d, count |-> 1, resetTime |-> now + Window]
  /\ \/ \A j \in DOMAIN windows : windows[j].ip # d
     \/ \E j \in DOMAIN windows : windows[j].ip = d /\ now > windows[j].resetTime

CountedUp(entry, d) ==
  \E j \in DOMAIN windows :
    /\ windows[j].ip = d /\ now <= windows[j].resetTime
    /\ entry = [windows[j] EXCEPT !.count = @ + 1]

EntryOf(d, entry) == entry.ip = d /\ (Fresh(entry, d) \/ CountedUp(entry, d))

Logged(d, entry, row) ==
  /\ row.ip = d /\ row.time = now /\ (row.passed => entry.count <= Limit)
  /\ log' = Append(log, row)

(* Each entry afterwards is of d, or was there; and of the others that were *)
(* there none is lost that still runs, but those that are forgotten.        *)
EntriesMoved(d, entry) ==
  /\ windows' \in Seq(WindowRow) /\ EntriesApart'
  /\ \A k \in DOMAIN windows' :
       \/ windows'[k] = entry
       \/ windows'[k].ip # d /\ \E j \in DOMAIN windows : windows'[k] = windows[j]
  /\ \E k \in DOMAIN windows' : windows'[k] = entry
  /\ \A j \in DOMAIN windows : windows[j].ip # d /\ windows[j].ip \notin forgotten' =>
       \/ now > windows[j].resetTime
       \/ \E k \in DOMAIN windows' : windows'[k] = windows[j]

(* isRateLimited starts a window, or counts one more in the one that runs. *)
LEMMA EntryFound ==
  ASSUME LimiterTyped, EntriesApart, NEW d \in Device
  PROVE  LET entry == Entry(MakeRoom(d), d) IN entry \in WindowRow /\ EntryOf(d, entry)
<1>1. PICK entries, entry : entries = MakeRoom(d) /\ entry = Entry(entries, d)
  OBVIOUS
<1>2. /\ entries \in Seq(WindowRow)
      /\ At(windows, d) # 0 => entries = windows
      /\ \A k \in DOMAIN entries : \E j \in DOMAIN windows : entries[k] = windows[j]
  BY <1>1, RoomIsMade
<1>3. now \in Nat /\ Window \in Nat /\ windows \in Seq(WindowRow)
  BY WindowAssumption DEF LimiterTyped
<1>4. \/ At(windows, d) = 0 /\ \A k \in DOMAIN windows : windows[k].ip # d
      \/ At(windows, d) \in DOMAIN windows /\ windows[At(windows, d)].ip = d
  BY <1>3, AtFinds
<1>5. \/ At(entries, d) = 0 /\ \A k \in DOMAIN entries : entries[k].ip # d
      \/ At(entries, d) \in DOMAIN entries /\ entries[At(entries, d)].ip = d
  BY <1>2, AtFinds
<1>6. \A k \in DOMAIN windows : windows[k] \in WindowRow /\ k # 0
  BY <1>3, SequenceDomain
<1>7. \A k \in DOMAIN entries : k # 0
  BY <1>2, LenProperties
<1>8. CASE At(windows, d) = 0
  <2>1. At(entries, d) = 0
    BY <1>2, <1>4, <1>5, <1>6, <1>8
  <2>2. entry = [ip |-> d, count |-> 1, resetTime |-> now + Window]
    BY <1>1, <2>1 DEF Entry
  <2>3. entry \in WindowRow
    BY <1>3, <2>2 DEF WindowRow
  <2>4. \A j \in DOMAIN windows : windows[j].ip # d
    BY <1>4, <1>6, <1>8
  <2> QED
    BY <1>1, <2>2, <2>3, <2>4 DEF EntryOf, Fresh
<1>9. CASE At(windows, d) # 0
  <2>1. PICK i : i = At(windows, d)
    OBVIOUS
  <2>2. /\ entries = windows /\ i \in DOMAIN windows /\ windows[i].ip = d /\ i # 0
        /\ windows[i] \in WindowRow
    BY <1>2, <1>4, <1>6, <1>9, <2>1
  <2>3. CASE now <= windows[i].resetTime
    <3>1. entry = [windows[i] EXCEPT !.count = @ + 1]
      BY <1>1, <2>1, <2>2, <2>3 DEF Entry, Running
    <3>2. entry \in WindowRow /\ entry.ip = d
      BY <2>2, <3>1 DEF WindowRow
    <3>3. CountedUp(entry, d)
      BY <2>2, <2>3, <3>1 DEF CountedUp
    <3> QED
      BY <1>1, <3>2, <3>3 DEF EntryOf
  <2>4. CASE ~(now <= windows[i].resetTime)
    <3>1. entry = [ip |-> d, count |-> 1, resetTime |-> now + Window]
      BY <1>1, <2>1, <2>2, <2>4 DEF Entry, Running
    <3>2. entry \in WindowRow
      BY <1>3, <3>1 DEF WindowRow
    <3>3. now > windows[i].resetTime
      BY <1>3, <2>2, <2>4 DEF WindowRow
    <3> QED
      BY <1>1, <2>2, <3>1, <3>2, <3>3 DEF EntryOf, Fresh
  <2> QED
    BY <2>3, <2>4
<1> QED
  BY <1>8, <1>9

(* The request is logged, and passes only while the count is in the limit. *)
LEMMA KnockLogs ==
  ASSUME LimiterTyped, EntriesApart, NEW d \in Device, Knock(d)
  PROVE  \E row \in LogRow : Logged(d, Entry(MakeRoom(d), d), row)
<1>1. PICK entry : entry = Entry(MakeRoom(d), d)
  OBVIOUS
<1>2. entry \in WindowRow
  BY <1>1, EntryFound
<1>3. PICK row : row = [ip |-> d, time |-> now, passed |-> ~Limited(d),
                        event |-> entry.count = Limit + 1]
  OBVIOUS
<1>4. log' = Append(log, row)
  BY <1>1, <1>3 DEF Knock
<1>5. row.passed => entry.count <= Limit
  <2>1. entry.count \in Nat /\ Limit \in Nat
    BY <1>2, LimitAssumption DEF WindowRow
  <2>2. Limited(d) <=> entry.count > Limit
    BY <1>1 DEF Limited
  <2>3. row.passed <=> ~Limited(d)
    <3>1. row.passed = ~Limited(d)
      BY <1>3
    <3> QED
      BY <3>1
  <2>4. row.passed => ~(entry.count > Limit)
    BY <2>2, <2>3, Zenon
  <2> QED
    BY <2>1, <2>4
<1>6. row \in LogRow
  <2>1. Limited(d) \in BOOLEAN
    BY DEF Limited
  <2> QED
    BY <1>3, <2>1 DEF LogRow, LimiterTyped
<1> QED
  BY <1>1, <1>3, <1>4, <1>5, <1>6 DEF Logged

(* The Map afterwards: no entry is lost but an expired or a forgotten one. *)
LEMMA KnockMoves ==
  ASSUME LimiterTyped, EntriesApart, NEW d \in Device, Knock(d)
  PROVE  EntriesMoved(d, Entry(MakeRoom(d), d))
<1>1. PICK entries, entry, i :
        entries = MakeRoom(d) /\ entry = Entry(entries, d) /\ i = At(windows, d)
  OBVIOUS
<1>2. entry \in WindowRow /\ entry.ip = d
  BY <1>1, EntryFound DEF EntryOf
<1>3. /\ entries \in Seq(WindowRow)
      /\ i # 0 => entries = windows
      /\ i = 0 => Len(entries) < MaxEntries
      /\ \A k \in DOMAIN entries : \E j \in DOMAIN windows : entries[k] = windows[j]
      /\ \A j, k \in DOMAIN entries : entries[j].ip = entries[k].ip => j = k
  BY <1>1, RoomIsMade
<1>4. windows \in Seq(WindowRow)
  BY DEF LimiterTyped
<1>5. /\ i = 0 => \A k \in DOMAIN windows : windows[k].ip # d
      /\ i # 0 => i \in DOMAIN windows /\ windows[i].ip = d
  <2>1. \A k \in DOMAIN windows : k # 0
    BY <1>4, LenProperties
  <2> QED
    BY <1>1, <1>4, <2>1, AtFinds
<1>6. At(entries, d) = i
  <2>1. CASE i = 0
    <3>1. \A k \in DOMAIN entries : entries[k].ip # d
      BY <1>3, <1>5, <2>1
    <3>2. \/ At(entries, d) = 0
          \/ At(entries, d) \in DOMAIN entries /\ entries[At(entries, d)].ip = d
      BY <1>3, AtFinds
    <3> QED
      BY <2>1, <3>1, <3>2
  <2>2. CASE i # 0
    BY <1>1, <1>3, <2>2
  <2> QED
    BY <2>1, <2>2
<1>7. /\ windows' = IF i = 0 THEN Append(entries, entry) ELSE [entries EXCEPT ![i] = entry]
      /\ forgotten' = forgotten \cup
           {windows[k].ip : k \in {j \in DOMAIN windows :
              Running(windows[j]) /\ At(entries, windows[j].ip) = 0}}
  <2>1. windows' = IF At(MakeRoom(d), d) = 0 THEN Append(MakeRoom(d), Entry(MakeRoom(d), d))
                   ELSE [MakeRoom(d) EXCEPT ![At(MakeRoom(d), d)] = Entry(MakeRoom(d), d)]
    BY DEF Knock
  <2>2. forgotten' = forgotten \cup
           {windows[k].ip : k \in {j \in DOMAIN windows :
              Running(windows[j]) /\ At(MakeRoom(d), windows[j].ip) = 0}}
    BY DEF Knock
  <2>3. MakeRoom(d) = entries /\ Entry(MakeRoom(d), d) = entry /\ At(MakeRoom(d), d) = i
    BY <1>1, <1>6
  <2> QED
    BY <2>1, <2>2, <2>3
(* What runs and is not forgotten is among the entries. *)
<1>8. ASSUME NEW j \in DOMAIN windows, windows[j].ip \notin forgotten'
      PROVE  now > windows[j].resetTime \/ \E k \in DOMAIN entries : entries[k] = windows[j]
  <2>1. CASE Running(windows[j])
    <3>1. At(entries, windows[j].ip) # 0
      BY <1>7, <1>8, <2>1
    <3>2. PICK k \in DOMAIN entries : entries[k].ip = windows[j].ip
      BY <1>3, <3>1, AtFinds
    <3>3. PICK m \in DOMAIN windows : entries[k] = windows[m]
      BY <1>3
    <3>4. m = j
      BY <3>2, <3>3 DEF EntriesApart
    <3> QED
      BY <3>3, <3>4
  <2>2. CASE ~Running(windows[j])
    <3>1. windows[j].resetTime \in Nat /\ now \in Nat
      <4>1. windows[j] \in WindowRow
        BY <1>4, SequenceDomain
      <4> QED
        BY <4>1 DEF WindowRow, LimiterTyped
    <3> QED
      BY <2>2, <3>1 DEF Running
  <2> QED
    BY <2>1, <2>2
<1>9. CASE i = 0
  <2>1. PICK n, after : n = Len(entries) + 1 /\ after = Append(entries, entry)
    OBVIOUS
  <2>2. /\ after \in Seq(WindowRow) /\ Len(after) = n /\ DOMAIN after = DOMAIN entries \cup {n}
        /\ after[n] = entry /\ \A k \in DOMAIN entries : after[k] = entries[k]
        /\ n <= MaxEntries
    <3>1. /\ after \in Seq(WindowRow) /\ Len(after) = n /\ after[n] = entry
          /\ Len(entries) \in Nat /\ DOMAIN entries = 1 .. Len(entries) /\ DOMAIN after = 1 .. n
          /\ \A k \in 1 .. Len(entries) : after[k] = entries[k]
      BY <1>2, <1>3, <2>1, AppendProperties, LenProperties
    <3>2. 1 .. n = 1 .. Len(entries) \cup {n} /\ n <= MaxEntries
      BY <1>3, <1>9, <2>1, <3>1, LimitAssumption
    <3> QED
      BY <3>1, <3>2
  <2>3. windows' = after
    BY <1>7, <1>9, <2>1
  <2>4. \A k \in DOMAIN entries : entries[k].ip # d
    BY <1>3, <1>5, <1>9
  <2>5. \A j, k \in DOMAIN after : after[j].ip = after[k].ip => j = k
    BY <1>2, <1>3, <2>2, <2>4
  <2>6. EntriesApart'
    BY <2>2, <2>3, <2>5, LimitAssumption DEF EntriesApart
  <2>7. \A k \in DOMAIN after :
          \/ after[k] = entry
          \/ after[k].ip # d /\ \E j \in DOMAIN windows : after[k] = windows[j]
    BY <1>3, <2>2, <2>4
  <2>8. \A j \in DOMAIN windows : windows[j].ip # d /\ windows[j].ip \notin forgotten' =>
          now > windows[j].resetTime \/ \E k \in DOMAIN after : after[k] = windows[j]
    BY <1>8, <2>2
  <2>9. \E k \in DOMAIN after : after[k] = entry
    BY <2>2
  <2> QED
    BY <1>1, <2>2, <2>3, <2>6, <2>7, <2>8, <2>9 DEF EntriesMoved
<1>10. CASE i # 0
  <2>1. entries = windows /\ i \in DOMAIN windows /\ windows[i].ip = d
    BY <1>3, <1>5, <1>10
  <2>2. PICK after : after = [windows EXCEPT ![i] = entry]
    OBVIOUS
  <2>3. windows' = after
    BY <1>7, <1>10, <2>1, <2>2
  <2>4. /\ DOMAIN after = DOMAIN windows /\ after[i] = entry
        /\ \A k \in DOMAIN windows : k # i => after[k] = windows[k]
    BY <2>1, <2>2
  <2>5. after \in Seq(WindowRow) /\ Len(after) = Len(windows)
    BY <1>2, <1>4, <2>1, <2>2, ExceptSeq, LenProperties
  <2>6. \A k \in DOMAIN windows : k # i => windows[k].ip # d
    BY <2>1 DEF EntriesApart
  <2>7. \A k \in DOMAIN windows : after[k].ip = windows[k].ip
    BY <1>2, <2>1, <2>4
  <2>8. EntriesApart'
    BY <2>3, <2>4, <2>5, <2>7 DEF EntriesApart
  <2>9. \A k \in DOMAIN after :
          \/ after[k] = entry
          \/ after[k].ip # d /\ \E j \in DOMAIN windows : after[k] = windows[j]
    BY <2>4, <2>6
  <2>10. \A j \in DOMAIN windows : windows[j].ip # d =>
           \E k \in DOMAIN after : after[k] = windows[j]
    BY <2>1, <2>4
  <2>11. \E k \in DOMAIN after : after[k] = entry
    BY <2>1, <2>4
  <2> QED
    BY <1>1, <2>3, <2>5, <2>8, <2>9, <2>10, <2>11 DEF EntriesMoved
<1> QED
  BY <1>9, <1>10

--------------------------------------------------------------------------------
(***************************************************************************)
(* What a request does to the entries' counts: the lists are passed as they *)
(* are, l the log before it and k the one after.                           *)
(***************************************************************************)
LEMMA KnockCounts ==
  ASSUME LimiterInv, NEW d \in Device, Knock(d), d \notin forgotten,
         NEW entry \in WindowRow, EntryOf(d, entry), NEW row \in LogRow, Logged(d, entry, row)
  PROVE  Counted(Append(log, row), now, entry)
<1>1. /\ log \in Seq(LogRow) /\ now \in Nat /\ windows \in Seq(WindowRow)
      /\ row.ip = d /\ row.time = now /\ (row.passed => entry.count <= Limit)
  BY DEF LimiterInv, LimiterTyped, Logged
<1>2. \A j \in DOMAIN windows : windows[j] \in WindowRow
  BY <1>1, SequenceDomain
<1>3. /\ \A j \in DOMAIN windows : windows[j].ip = d => Counted(log, now, windows[j])
      /\ (\A j \in DOMAIN windows : windows[j].ip # d) => Quiet(log, now, d)
  BY DEF LimiterInv, EntriesCount
<1>4. CASE Fresh(entry, d)
  <2>1. entry = [ip |-> row.ip, count |-> 1, resetTime |-> now + Window]
    BY <1>1, <1>4 DEF Fresh
  <2>2. CASE \A j \in DOMAIN windows : windows[j].ip # d
    <3>1. Quiet(log, now, row.ip)
      BY <1>1, <1>3, <2>2
    <3> QED
      BY <1>1, <2>1, <3>1, OpenedCounts
  <2>3. CASE \E j \in DOMAIN windows : windows[j].ip = d /\ now > windows[j].resetTime
    <3>1. PICK j \in DOMAIN windows : windows[j].ip = d /\ now > windows[j].resetTime
      BY <2>3
    <3>2. Quiet(log, now, windows[j].ip)
      BY <1>1, <1>2, <1>3, <3>1, ExpiredQuiet
    <3>3. Quiet(log, now, row.ip)
      BY <1>1, <3>1, <3>2
    <3> QED
      BY <1>1, <2>1, <3>3, OpenedCounts
  <2> QED
    BY <1>4, <2>2, <2>3 DEF Fresh
<1>5. CASE CountedUp(entry, d)
  <2>1. PICK j \in DOMAIN windows :
          /\ windows[j].ip = d /\ now <= windows[j].resetTime
          /\ entry = [windows[j] EXCEPT !.count = @ + 1]
    BY <1>5 DEF CountedUp
  <2>2. PICK w : w = windows[j]
    OBVIOUS
  <2>3. /\ w \in WindowRow /\ Counted(log, now, w) /\ w.ip = d /\ now <= w.resetTime
        /\ entry = [w EXCEPT !.count = @ + 1]
    BY <1>2, <1>3, <2>1, <2>2
  <2>4. entry.count = w.count + 1
    BY <2>3 DEF WindowRow
  <2>5. row.passed => w.count + 1 <= Limit
    BY <1>1, <2>4
  <2>6. row.ip = w.ip
    BY <1>1, <2>3
  <2> QED
    BY <1>1, <2>3, <2>5, <2>6, RunningCounts
<1> QED
  BY <1>4, <1>5 DEF EntryOf

(* A request keeps the invariant of the limiter.                           *)
LEMMA KnockInductive ==
  ASSUME LimiterInv, NEW d \in Device, Knock(d)
  PROVE  LimiterInv'
<1>1. /\ LimiterTyped /\ EntriesApart
      /\ log \in Seq(LogRow) /\ now \in Nat /\ now' = now /\ windows \in Seq(WindowRow)
  BY DEF LimiterInv, LimiterTyped, Knock
<1>2. PICK entry : entry = Entry(MakeRoom(d), d)
  OBVIOUS
<1>3. entry \in WindowRow /\ EntryOf(d, entry) /\ entry.ip = d
  BY <1>1, <1>2, EntryFound DEF EntryOf
<1>4. PICK row \in LogRow : Logged(d, entry, row)
  BY <1>1, <1>2, KnockLogs
<1>5. EntriesMoved(d, entry)
  BY <1>1, <1>2, KnockMoves
<1>6. PICK k, n : k = Append(log, row) /\ n = Len(log) + 1
  OBVIOUS
<1>7. /\ log' = k /\ row.ip = d /\ row.time = now
      /\ k \in Seq(LogRow) /\ DOMAIN k = DOMAIN log \cup {n} /\ k[n] = row
      /\ \A m \in DOMAIN log : k[m] = log[m]
  BY <1>1, <1>4, <1>6, OneMore DEF Logged
<1>8. forgotten \in SUBSET forgotten'
  BY DEF Knock
<1>9. LimiterTyped'
  <2>1. windows' \in Seq(WindowRow)
    BY <1>5 DEF EntriesMoved
  <2>2. \A m \in DOMAIN k : k[m].time <= now
    BY <1>1, <1>7 DEF LimiterTyped
  <2> QED
    BY <1>1, <1>7, <2>1, <2>2 DEF LimiterTyped
<1>10. EntriesApart'
  BY <1>5 DEF EntriesMoved
<1>11. d \notin forgotten => Counted(k, now, entry)
  BY <1>3, <1>4, <1>6, KnockCounts
<1>12. \A j \in DOMAIN windows : windows[j] \in WindowRow
  BY <1>1, SequenceDomain
<1>13. ASSUME NEW j \in DOMAIN windows, windows[j].ip # d, windows[j].ip \notin forgotten
       PROVE  Counted(k, now, windows[j])
  <2>1. Counted(log, now, windows[j])
    BY <1>13 DEF LimiterInv, EntriesCount
  <2>2. row.ip # windows[j].ip
    BY <1>7, <1>13
  <2> QED
    BY <1>1, <1>6, <2>1, <2>2, OtherKeepsCount
<1>14. EntriesCount'
  <2>1. ASSUME NEW m \in DOMAIN windows', windows'[m].ip \notin forgotten'
        PROVE  Counted(k, now, windows'[m])
    <3>1. CASE windows'[m] = entry
      <4>1. d \notin forgotten
        BY <1>3, <1>8, <2>1, <3>1
      <4> QED
        BY <1>11, <3>1, <4>1
    <3>2. CASE windows'[m].ip # d /\ \E j \in DOMAIN windows : windows'[m] = windows[j]
      <4>1. PICK j \in DOMAIN windows : windows'[m] = windows[j]
        BY <3>2
      <4>2. windows[j].ip # d /\ windows[j].ip \notin forgotten
        BY <1>8, <2>1, <3>2, <4>1
      <4>3. Counted(k, now, windows[j])
        BY <1>13, <4>2
      <4> QED
        BY <4>1, <4>3
    <3> QED
      BY <1>5, <3>1, <3>2 DEF EntriesMoved
  <2>2. ASSUME NEW ip \in Device \ forgotten', \A m \in DOMAIN windows' : windows'[m].ip # ip
        PROVE  Quiet(k, now, ip)
    <3>1. ip # d
      BY <1>3, <1>5, <2>2 DEF EntriesMoved
    <3>2. Quiet(log, now, ip)
      <4>1. CASE \A j \in DOMAIN windows : windows[j].ip # ip
        BY <1>8, <2>2, <4>1 DEF LimiterInv, EntriesCount
      <4>2. CASE \E j \in DOMAIN windows : windows[j].ip = ip
        <5>1. PICK j \in DOMAIN windows : windows[j].ip = ip
          BY <4>2
        <5>2. now > windows[j].resetTime
          BY <1>5, <2>2, <3>1, <5>1 DEF EntriesMoved
        <5>3. Counted(log, now, windows[j])
          BY <1>8, <2>2, <5>1 DEF LimiterInv, EntriesCount
        <5>4. Quiet(log, now, windows[j].ip)
          BY <1>1, <1>12, <5>2, <5>3, ExpiredQuiet
        <5> QED
          BY <5>1, <5>4
      <4> QED
        BY <4>1, <4>2
    <3>3. row.ip # ip
      BY <1>7, <3>1
    <3> QED
      BY <1>1, <1>6, <3>2, <3>3, OtherKeepsQuiet
  <2> QED
    BY <1>1, <1>7, <2>1, <2>2 DEF EntriesCount
<1>15. RequestsBounded'
  <2>1. ASSUME NEW m \in DOMAIN k, k[m].ip \notin forgotten'
        PROVE  NotTwice(k, m)
    <3>1. CASE m \in DOMAIN log
      <4>1. NotTwice(log, m)
        BY <1>7, <1>8, <2>1, <3>1 DEF LimiterInv, RequestsBounded
      <4> QED
        BY <1>1, <1>6, <3>1, <4>1, EarlierNotTwice
    <3>2. CASE m = n
      <4>1. Counted(Append(log, row), now, entry)
        BY <1>6, <1>7, <1>8, <1>11, <2>1, <3>2
      <4>2. entry.ip = row.ip /\ entry.resetTime \in Nat
        BY <1>3, <1>7 DEF WindowRow
      <4>3. NotTwice(Append(log, row), Len(log) + 1)
        BY <1>1, <1>7, <4>1, <4>2, LatestNotTwice
      <4> QED
        BY <1>6, <3>2, <4>3
    <3> QED
      BY <1>7, <2>1, <3>1, <3>2
  <2> QED
    BY <1>7, <2>1 DEF RequestsBounded
<1> QED
  BY <1>9, <1>10, <1>14, <1>15 DEF LimiterInv

(* The clock goes on.                                                      *)
LEMMA TickInductive ==
  ASSUME LimiterInv, Tick
  PROVE  LimiterInv'
<1>1. /\ log \in Seq(LogRow) /\ now \in Nat /\ now' = now + 1 /\ windows \in Seq(WindowRow)
      /\ windows' = windows /\ log' = log /\ forgotten' = forgotten
  BY DEF LimiterInv, LimiterTyped, Tick
<1>2. now' \in Nat /\ now <= now'
  BY <1>1
<1>3. LimiterTyped'
  <2>1. \A m \in DOMAIN log : log[m].time \in Int /\ log[m].time <= now
    BY <1>1, LogTimes DEF LimiterInv, LimiterTyped
  <2>2. \A m \in DOMAIN log : log[m].time <= now'
    BY <1>1, <2>1
  <2> QED
    BY <1>1, <1>2, <2>2 DEF LimiterTyped
<1>4. EntriesApart' /\ RequestsBounded'
  BY <1>1 DEF LimiterInv, EntriesApart, RequestsBounded
<1>5. EntriesCount'
  <2>1. ASSUME NEW k \in DOMAIN windows, windows[k].ip \notin forgotten
        PROVE  Counted(log, now', windows[k])
    <3>1. windows[k] \in WindowRow
      BY <1>1, SequenceDomain
    <3>2. Counted(log, now, windows[k])
      BY <2>1 DEF LimiterInv, EntriesCount
    <3> QED
      BY <1>1, <1>2, <3>1, <3>2, LaterCounted
  <2>2. ASSUME NEW ip \in Device \ forgotten, \A k \in DOMAIN windows : windows[k].ip # ip
        PROVE  Quiet(log, now', ip)
    <3>1. Quiet(log, now, ip)
      BY <2>2 DEF LimiterInv, EntriesCount
    <3> QED
      BY <1>1, <1>2, <3>1, LaterQuiet
  <2> QED
    BY <1>1, <2>1, <2>2 DEF EntriesCount
<1> QED
  BY <1>3, <1>4, <1>5 DEF LimiterInv

(* A restart forgets every address that has an entry.                      *)
LEMMA RestartInductive ==
  ASSUME LimiterInv, RestartProxy
  PROVE  LimiterInv'
<1>1. /\ log' = log /\ now' = now /\ windows' = <<>>
      /\ forgotten' = forgotten \cup {windows[k].ip : k \in DOMAIN windows}
  BY DEF RestartProxy
<1>2. windows' \in Seq(WindowRow) /\ Len(windows') = 0 /\ DOMAIN windows' = {}
  BY <1>1
<1>3. LimiterTyped' /\ EntriesApart'
  BY <1>1, <1>2, LimitAssumption DEF LimiterInv, LimiterTyped, EntriesApart
<1>4. RequestsBounded'
  BY <1>1 DEF LimiterInv, RequestsBounded
<1>5. \A ip \in Device \ forgotten' : Quiet(log, now, ip)
  BY <1>1 DEF LimiterInv, EntriesCount
<1> QED
  BY <1>1, <1>2, <1>3, <1>4, <1>5 DEF LimiterInv, EntriesCount

(* An action that leaves the limiter alone, or a step that stutters.       *)
LEMMA LimiterLeft ==
  ASSUME LimiterInv, UNCHANGED limiterVars
  PROVE  LimiterInv'
BY DEF limiterVars, LimiterInv, LimiterTyped, EntriesApart, EntriesCount, RequestsBounded

(* The empty Map and the empty log satisfy it.                             *)
LEMMA LimiterStarts ==
  ASSUME LimiterInit
  PROVE  LimiterInv
<1>1. /\ windows = <<>> /\ log = <<>> /\ now = 0
      /\ windows \in Seq(WindowRow) /\ log \in Seq(LogRow)
      /\ DOMAIN windows = {} /\ DOMAIN log = {} /\ Len(windows) = 0
  BY DEF LimiterInit
<1>2. \A ip : Quiet(log, now, ip)
  <2> SUFFICES ASSUME NEW ip
               PROVE  Quiet(log, now, ip)
    OBVIOUS
  <2>1. Passed(log, ip, now - Window) = {}
    BY <1>1 DEF Passed
  <2>2. Cardinality(Passed(log, ip, now - Window)) = 0
    BY <2>1, FS_EmptySet
  <2> QED
    BY <1>1, <2>2, LimitAssumption DEF Quiet
<1> QED
  BY <1>1, <1>2, LimitAssumption
     DEF LimiterInv, LimiterTyped, EntriesApart, EntriesCount, RequestsBounded

(* Only a request, the clock and a restart concern the limiter.            *)
LEMMA LimiterInductive ==
  ASSUME LimiterInv, [Next]_vars
  PROVE  LimiterInv'
<1>1. \/ \E d \in Device : Knock(d)
      \/ Tick
      \/ RestartProxy
      \/ UNCHANGED limiterVars
  BY DEF Next, vars, Refuse, Fail, Pass, SignUp, CreateAccount, RefuseAccount, SignIn,
     IssueToken, SignOut, Expire, Send, Admit, Gate, Write, EndTrial, Elapse
<1> QED
  BY <1>1, KnockInductive, TickInductive, RestartInductive, LimiterLeft

(***************************************************************************)
(* isRateLimited: within any time of one Window fewer than twice Limit     *)
(* requests of an address have passed before one that passes, whatever the *)
(* limits and however the requests fall, unless its entry was dropped      *)
(* while it ran; and the Map never holds more than MaxEntries.             *)
(***************************************************************************)
THEOREM LimitKept == Spec => []NeverTwiceTheLimit
<1>1. Init => LimiterInv
  BY LimiterStarts DEF Init
<1>2. LimiterInv /\ [Next]_vars => LimiterInv'
  BY LimiterInductive
<1>3. LimiterInv => NeverTwiceTheLimit
  <2> SUFFICES ASSUME LimiterInv
               PROVE  NeverTwiceTheLimit
    OBVIOUS
  <2>1. ASSUME NEW n \in DOMAIN log, log[n].passed, log[n].ip \notin forgotten
        PROVE  Cardinality({m \in Recent(n) : log[m].passed}) < 2 * Limit
    <3>1. {m \in Recent(n) : log[m].passed}
            = {m \in 1 .. n - 1 : /\ log[m].ip = log[n].ip
                                  /\ log[m].time >= log[n].time - Window
                                  /\ log[m].passed}
      BY DEF Recent
    <3>2. NotTwice(log, n)
      BY <2>1 DEF LimiterInv, RequestsBounded
    <3> QED
      BY <2>1, <3>1, <3>2 DEF NotTwice
  <2> QED
    BY <2>1 DEF NeverTwiceTheLimit, LimiterInv, EntriesApart
<1> QED
  BY <1>1, <1>2, <1>3, PTL DEF Spec
================================================================================
