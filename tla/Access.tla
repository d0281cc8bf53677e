--------------------------------- MODULE Access --------------------------------
(***************************************************************************)
(* Signing up, in and out, and what a request must pass before a handler   *)
(* writes: the proxy's rate limit on /api/auth/ (src/proxy.ts), the        *)
(* session (lib/auth/options.ts), the membership (server/tenant.ts) and    *)
(* the subscription (server/subscription.ts).  A device is a browser with  *)
(* its cookie and its network address.  A session is a JWT in the cookie:  *)
(* the server keeps none, it only compares the token's sessionVersion with *)
(* the user's, which every sign-out raises.                                *)
(***************************************************************************)
EXTENDS RateLimiter

CONSTANTS
  Device,
  Address,      \* e-mail addresses as people type them
  Normal,       \* toLowerCase and trim: the address that is meant
  NoCookie,
  MaxWrites     \* bound: requests to handlers that write

ASSUME DeviceAssumption == Ip = Device
ASSUME NormalAssumption ==
  Normal \in [Address -> Address] /\ \A a \in Address : Normal[Normal[a]] = Normal[a]

(* What a token says, and a User row: whose it is and of which version.    *)
Session == [email : Address, sessionVersion : Nat]

ASSUME NoCookieAssumption == NoCookie \notin Session /\ NoCookie \notin Address

VARIABLES
  users,        \* User rows; each has its organization and membership
  trial,        \* the emails whose organization's trial still runs
  pc,           \* what each device is waiting for
  held,         \* what the server holds for it meanwhile: the address it signs
                \* up with, the row authorize has read, or its request's token
  cookie,       \* its session token
  writes,       \* requests to handlers sent so far
  outdated,     \* history: devices whose token, or sign-in, a sign-out has ended
  lateWrites    \* history: what each device wrote for an organization after
                \* the end of its trial

histories == <<outdated, lateWrites>>
vars == <<limiterVars, users, trial, pc, held, cookie, writes, histories>>

Row(email) == {u \in users : u.email = email}
Current(token) == \E u \in users : u = token

Init ==
  /\ LimiterInit
  /\ users = {}
  /\ trial = {}
  /\ pc = [d \in Device |-> "idle"]
  /\ held = [d \in Device |-> NoCookie]
  /\ cookie = [d \in Device |-> NoCookie]
  /\ writes = 0
  /\ outdated = {}
  /\ lateWrites = [x \in Device \X Address |-> 0]

GoTo(d, place) == pc' = [pc EXCEPT ![d] = place]

Hold(d, place, thing) ==
  /\ GoTo(d, place)
  /\ held' = [held EXCEPT ![d] = thing]

Answer(d) == Hold(d, "idle", NoCookie)

(* A request to /api/auth/ that the proxy lets through.                    *)
Pass(d) ==
  /\ pc[d] = "idle"
  /\ ~Limited(d)
  /\ Knock(d)

--------------------------------------------------------------------------------
(***************************************************************************)
(* The proxy answers 429, and the device is where it was; and so it is     *)
(* when the password is wrong, or the address taken or unknown.            *)
(***************************************************************************)
Refuse(d) ==
  /\ Limited(d)
  /\ Knock(d)
  /\ UNCHANGED <<users, trial, pc, held, cookie, writes, histories>>

Fail(d) ==
  /\ Pass(d)
  /\ UNCHANGED <<users, trial, pc, held, cookie, writes, histories>>

(***************************************************************************)
(* POST /api/auth/signup looks the address up, then hashes the password.   *)
(***************************************************************************)
SignUp(d, address) ==
  /\ Pass(d)
  /\ cookie[d] = NoCookie
  /\ Row(Normal[address]) = {}
  /\ Hold(d, "hashing", address)
  /\ UNCHANGED <<users, trial, cookie, writes, histories>>

(***************************************************************************)
(* The transaction creates user, organization, membership and trial; the   *)
(* unique index on the email stops the second of two sign-ups (500).       *)
(***************************************************************************)
(* Faulty variant: the address is stored as it was typed.                  *)
CreateAccountAsTyped(d) ==
  /\ pc[d] = "hashing"
  /\ Row(held[d]) = {}
  /\ users' = users \cup {[email |-> held[d], sessionVersion |-> 1]}
  /\ trial' = trial \cup {held[d]}
  /\ Answer(d)
  /\ UNCHANGED <<limiterVars, cookie, writes, histories>>

CreateAccount(d) ==
  /\ pc[d] = "hashing"
  /\ Row(Normal[held[d]]) = {}
  /\ users' = users \cup {[email |-> Normal[held[d]], sessionVersion |-> 1]}
  /\ trial' = trial \cup {Normal[held[d]]}
  /\ Answer(d)
  /\ UNCHANGED <<limiterVars, cookie, writes, histories>>

RefuseAccount(d) ==
  /\ pc[d] = "hashing"
  /\ Row(Normal[held[d]]) # {}
  /\ Answer(d)
  /\ UNCHANGED <<limiterVars, users, trial, cookie, writes, histories>>

(***************************************************************************)
(* authorize reads the user, then verifies the password against its hash.  *)
(***************************************************************************)
SignIn(d, u) ==
  /\ Pass(d)
  /\ cookie[d] = NoCookie
  /\ Hold(d, "verifying", u)
  /\ outdated' = outdated \ {d}
  /\ UNCHANGED <<users, trial, cookie, writes, lateWrites>>

(***************************************************************************)
(* The jwt callback puts the version authorize has read into the token and *)
(* compares it with the database at once: a sign-out in between leaves an  *)
(* empty token.                                                            *)
(***************************************************************************)
(* Faulty variant: the token gets the version the user has by now.         *)
IssueTokenAnew(d) ==
  /\ pc[d] = "verifying"
  /\ \E u \in Row(held[d].email) : cookie' = [cookie EXCEPT ![d] = u]
  /\ Answer(d)
  /\ UNCHANGED <<limiterVars, users, trial, writes, histories>>

IssueToken(d) ==
  /\ pc[d] = "verifying"
  /\ cookie' = [cookie EXCEPT ![d] = IF Current(held[d]) THEN held[d] ELSE NoCookie]
  /\ Answer(d)
  /\ UNCHANGED <<limiterVars, users, trial, writes, histories>>

(***************************************************************************)
(* signOut raises sessionVersion for any token that names a user, one that *)
(* is no longer valid too, and the browser drops its cookie: every session *)
(* of the user ends.                                                       *)
(***************************************************************************)
SignOut(d) ==
  LET email == cookie[d].email
      Of(thing) == thing # NoCookie /\ thing.email = email
  IN  /\ Pass(d)
      /\ cookie[d] # NoCookie
      /\ users' = {IF u.email = email THEN [u EXCEPT !.sessionVersion = @ + 1] ELSE u
                   : u \in users}
      /\ cookie' = [cookie EXCEPT ![d] = NoCookie]
      /\ outdated' = outdated \cup
           {e \in Device \ {d} : Of(cookie[e]) \/ (pc[e] # "hashing" /\ Of(held[e]))}
      /\ UNCHANGED <<trial, pc, held, writes, lateWrites>>

--------------------------------------------------------------------------------
(***************************************************************************)
(* A request to a handler that writes; it carries the cookie of its time.  *)
(***************************************************************************)
Send(d) ==
  /\ pc[d] = "idle"
  /\ cookie[d] # NoCookie
  /\ writes < MaxWrites
  /\ writes' = writes + 1
  /\ Hold(d, "sent", cookie[d])
  /\ UNCHANGED <<limiterVars, users, trial, cookie, histories>>

(***************************************************************************)
(* requireOrgContext: the jwt callback compares the token's version with   *)
(* the user's, then the membership names the organization.  A 401 cannot   *)
(* take the cookie back.                                                   *)
(***************************************************************************)
Admit(d) ==
  /\ pc[d] = "sent"
  /\ IF Current(held[d]) THEN GoTo(d, "admitted") /\ UNCHANGED held ELSE Answer(d)
  /\ UNCHANGED <<limiterVars, users, trial, cookie, writes, histories>>

(***************************************************************************)
(* getSubscriptionContext: the trial has not ended, by the clock of this   *)
(* moment; otherwise the answer is 403.                                    *)
(***************************************************************************)
(* Faulty variant: the gate looks at status, and a trial's never changes.  *)
GateByStatus(d) ==
  /\ pc[d] = "admitted"
  /\ GoTo(d, "gated")
  /\ UNCHANGED <<limiterVars, users, trial, held, cookie, writes, histories>>

Gate(d) ==
  /\ pc[d] = "admitted"
  /\ IF held[d].email \in trial THEN GoTo(d, "gated") /\ UNCHANGED held ELSE Answer(d)
  /\ UNCHANGED <<limiterVars, users, trial, cookie, writes, histories>>

(* The handler's own transaction, which looks at neither again.            *)
Write(d) ==
  /\ pc[d] = "gated"
  /\ Answer(d)
  /\ lateWrites' = [lateWrites EXCEPT ![<<d, held[d].email>>] =
                      IF held[d].email \in trial THEN @ ELSE @ + 1]
  /\ UNCHANGED <<limiterVars, users, trial, cookie, writes, outdated>>

EndTrial(email) ==
  /\ email \in trial
  /\ trial' = trial \ {email}
  /\ UNCHANGED <<limiterVars, users, pc, held, cookie, writes, histories>>

(* The cookie expires, 24 hours after it was last set.                     *)
Expire(d) ==
  /\ cookie[d] # NoCookie
  /\ cookie' = [cookie EXCEPT ![d] = NoCookie]
  /\ UNCHANGED <<limiterVars, users, trial, pc, held, writes, histories>>

Elapse ==
  /\ Tick \/ RestartProxy
  /\ UNCHANGED <<users, trial, pc, held, cookie, writes, histories>>

Next ==
  \/ \E d \in Device :
       \/ Refuse(d) \/ Fail(d)
       \/ \E address \in Address : SignUp(d, address)
       \/ CreateAccount(d) \/ RefuseAccount(d)
       \/ \E u \in users : SignIn(d, u)
       \/ IssueToken(d) \/ SignOut(d) \/ Expire(d)
       \/ Send(d) \/ Admit(d) \/ Gate(d) \/ Write(d)
  \/ \E email \in trial : EndTrial(email)
  \/ Elapse

Spec == Init /\ [][Next]_vars

--------------------------------------------------------------------------------
(***************************************************************************)
(* A session ended by a sign-out, on whatever device, is never admitted    *)
(* again, and neither is one whose password was still being verified then. *)
(***************************************************************************)
SignedOutStaysOut ==
  [][\A d \in Device : pc[d] = "sent" /\ pc'[d] = "admitted" => d \notin outdated]_vars

(***************************************************************************)
(* However two sign-ups interleave and however the address is typed, one   *)
(* person's address has one account.                                       *)
(***************************************************************************)
OneAccountPerAddress ==
  \A u, v \in users :
    (\E a, b \in Address : u.email = a /\ v.email = b /\ Normal[a] = Normal[b]) => u = v

(***************************************************************************)
(* The gate is read before the write: after the end of a trial only what   *)
(* was already past it is still written: of a device and an organization   *)
(* at most one request.                                                    *)
(***************************************************************************)
LateWritesBounded ==
  \A d \in Device, email \in Address : lateWrites[<<d, email>>] <= 1
================================================================================
