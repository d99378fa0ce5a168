-------------------------------- MODULE Account --------------------------------
(***************************************************************************)
(* What pkg/account promises about the row of a user and the sessions that *)
(* are opened with it: every operation takes place at once, on the row as  *)
(* it is at that instant.                                                  *)
(*                                                                         *)
(* The code does not keep this promise when a request writes back a copy   *)
(* that is no longer current.  The row is overwritten then, and of what    *)
(* it says and of its new sessions nothing is promised any more; it can    *)
(* still be deleted, and is never registered again.                        *)
(***************************************************************************)
EXTENDS Naturals

CONSTANTS
  Users, Sessions, Stamps, Emails, Passwords, None,
  RequireActivation,
  MaxFailedAttempts,  \* 0 disables the lockout
  LockoutDuration, SessionLifetime

VARIABLES
  now,
  account,   \* user -> its row
  session    \* sign-in -> the session it opened

Unregistered == [st |-> "none"]
Overwritten == [st |-> "overwritten"]
Deleted == [st |-> "gone"]

Registered(u, email, password, verified, enabled, stamp) ==
  [st |-> "stored", id |-> u, email |-> email, password |-> password, verified |-> verified,
   enabled |-> enabled, stamp |-> stamp, failed |-> 0, locked |-> 0]

Known(u) == account[u].st = "stored"

\* Addresses are unique, and stamps are drawn at random.
Free(email, u) == \A v \in Users \ {u} : Known(v) => account[v].email # email

Fresh == {x \in Stamps : /\ \A u \in Users : Known(u) => account[u].stamp # x
                         /\ \A s \in Sessions : session[s].stamp # x}

CanSignIn(user) == user.enabled /\ (RequireActivation => user.verified)

Init ==
  /\ now = 0
  /\ \A u \in Users : \/ account[u] = Unregistered
                      \/ \E email \in Emails, password \in Passwords, x \in Stamps :
                           account[u] = Registered(u, email, password, TRUE, TRUE, x)
  /\ \A u \in Users : Known(u) => Free(account[u].email, u)
  /\ \A s \in Sessions : session[s].user = None

--------------------------------------------------------------------------------
Becomes(u, new) ==
  /\ account' = [account EXCEPT ![u] = new]
  /\ UNCHANGED <<now, session>>

Register(u) ==
  /\ account[u] = Unregistered
  /\ \E email \in Emails, password \in Passwords \cup {None}, verified, enabled \in BOOLEAN, x \in Fresh :
       /\ Free(email, u)
       /\ Becomes(u, Registered(u, email, password, verified, enabled, x))

\* Every wrong password counts; the last one locks the account for a while, from the
\* instant t at which it was not yet locked.
WrongPassword(u) ==
  /\ Known(u) /\ MaxFailedAttempts > 0
  /\ \E p \in Passwords : p # account[u].password
  /\ \E t \in account[u].locked..now :
       Becomes(u, IF account[u].failed + 1 >= MaxFailedAttempts
                    THEN [account[u] EXCEPT !.failed = 0, !.locked = t + LockoutDuration]
                    ELSE [account[u] EXCEPT !.failed = @ + 1])

\* A session is opened with the password that the account has, unless it is locked or its
\* user may not sign in, and has the stamp of the account.
SignIn(u) ==
  /\ Known(u)
  /\ account[u].password \in Passwords
  /\ account[u].locked <= now
  /\ CanSignIn(account[u])
  /\ account' = [account EXCEPT ![u].failed = 0, ![u].locked = 0]
  /\ \E s \in Sessions :
       /\ session[s].user = None
       /\ session' = [session EXCEPT ![s] = [user |-> u, stamp |-> account[u].stamp,
                                             exp |-> now + SessionLifetime]]
  /\ UNCHANGED now

\* A new password brings a new stamp and ends the lockout.  A reset also verifies the address.
SetPassword(u) ==
  /\ Known(u)
  /\ \E p \in Passwords, verified \in {account[u].verified, TRUE}, x \in Fresh :
       Becomes(u, [account[u] EXCEPT !.password = p, !.stamp = x, !.verified = verified,
                                     !.failed = 0, !.locked = 0])

\* So does a new address, or disabling; nothing else that an administrator changes.
Edit(u) ==
  /\ Known(u)
  /\ \E email \in Emails, verified, enabled \in BOOLEAN :
       /\ Free(email, u)
       /\ \E x \in IF email # account[u].email \/ (account[u].enabled /\ ~enabled)
                     THEN Fresh ELSE {account[u].stamp} :
            Becomes(u, [account[u] EXCEPT !.email = email, !.verified = verified,
                                          !.enabled = enabled, !.stamp = x])

Unlock(u) == Known(u) /\ Becomes(u, [account[u] EXCEPT !.failed = 0, !.locked = 0])

Verify(u) == Known(u) /\ Becomes(u, [account[u] EXCEPT !.verified = TRUE])

Delete(u) == account[u].st \in {"stored", "overwritten"} /\ Becomes(u, Deleted)

\* A copy that is no longer current is written back.
Overwrite(u) ==
  /\ account[u].st \in {"stored", "overwritten"}
  /\ account' = [account EXCEPT ![u] = Overwritten]
  /\ \/ UNCHANGED session
     \/ \E s \in Sessions, x \in Stamps :
          /\ session[s].user = None
          /\ session' = [session EXCEPT ![s] = [user |-> u, stamp |-> x, exp |-> now + SessionLifetime]]
  /\ UNCHANGED now

Tick == now' = now + 1 /\ UNCHANGED <<account, session>>

\* An operation that changes nothing is no step.
Changes(u) == account'[u] # account[u] \/ session' # session

Next ==
  \/ Tick
  \/ \E u \in Users :
       /\ Changes(u)
       /\ \/ Overwrite(u) \/ Delete(u) \/ Verify(u) \/ Unlock(u) \/ WrongPassword(u)
          \/ SignIn(u) \/ SetPassword(u) \/ Edit(u) \/ Register(u)

Spec == Init /\ [][Next]_<<now, account, session>>

================================================================================
