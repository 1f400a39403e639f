------------------------------ MODULE Accounts ------------------------------
(* Accounts, sign-in and sessions: password accounts (password_auth.py,     *)
(* password_db.py) and provider sign-in (team_auth.py, team_db.py) over one *)
(* database.  Handlers lock the credential row, or an advisory lock on the  *)
(* email, for their main transaction, which is therefore one action; what a *)
(* handler reads before that transaction, and the mail it sends after it,   *)
(* are actions of their own, with anything in between.                      *)
(*                                                                          *)
(* A password is the number of changes before it: a new password is never   *)
(* an old one.  Rate limits and hashing slots refuse a request before it    *)
(* writes anything: such a request, like one that crashes, is Dropped.      *)
EXTENDS Integers, Sequences

CONSTANTS Emails,      \* normalised addresses
          Identities,  \* subjects of the identity provider
          Attempts,    \* sign-in attempts at the provider
          Requests,    \* handlers at work
          MailAvailable,  \* a mail server is configured
          MaxSessions, MaxLinks, MaxChanges, \* bounds on sessions, links, passwords
          Local, None

ASSUME AccountsAssumption ==
    /\ {MaxSessions, MaxLinks, MaxChanges} \subseteq Nat /\ MailAvailable \in BOOLEAN
    /\ Local \notin Identities /\ None \notin Identities \cup Emails \cup Attempts \cup {Local}
    /\ \A e \in Emails : <<"development", e>> \notin Identities \cup {Local, None}

VARIABLES account,  \* users and their credentials, by email
          sessions, \* every session ever created
          links,    \* every verification or reset link ever created
          attempt,  \* provider sign-in attempts
          req       \* what each handler has read so far

vars == <<account, sessions, links, attempt, req>>

DevIdentity(e) == <<"development", e>>
Subjects == Identities \cup {DevIdentity(e) : e \in Emails}
Idle == [pc |-> "idle", user |-> None, by |-> Local, password |-> 0, link |-> 0, from |-> None]

\* by: who vouches for the account, or vouched for the person who signed in.
\* from: the provider attempt a session comes from.
TypeOK ==
    /\ account \in [Emails -> [by : Subjects \cup {Local, None}, password : Nat, verified : BOOLEAN]]
    /\ sessions \in Seq([owner : Emails, by : Subjects \cup {Local}, password : Nat,
                         from : Attempts \cup {None}, live : BOOLEAN])
    /\ links \in Seq([owner : Emails, purpose : {"verification", "reset"}, password : Nat,
                      live : BOOLEAN, sent : BOOLEAN])
    /\ attempt \in [Attempts -> {"unborn", "open", "spent"}]
    /\ req \in [Requests -> [pc : {"idle", "login", "signed", "found", "mail", "provider",
                                   "profile", "session"},
                             user : Emails \cup {None}, by : Subjects \cup {Local},
                             password : Nat, link : Nat, from : Attempts \cup {None}]]
    /\ \A r \in Requests :
         /\ req[r].pc \in {"login", "signed", "profile", "session"} => req[r].user # None
         /\ req[r].pc \in {"found", "mail"} => req[r].link \in DOMAIN links

Init ==
    /\ account = [e \in Emails |-> [by |-> None, password |-> 0, verified |-> FALSE]]
    /\ sessions = << >> /\ links = << >>
    /\ attempt = [a \in Attempts |-> "unborn"]
    /\ req = [r \in Requests |-> Idle]

-----------------------------------------------------------------------------
\* Without the session p the browser's cookie named, if any.
Forgotten(held, p) == [s \in DOMAIN held |-> [held[s] EXCEPT !.live = @ /\ s # p]]

\* A new session of e, who signed in through by and proved to know password.
Session(e, by, password, from) ==
    [owner |-> e, by |-> by, password |-> password, from |-> from, live |-> TRUE]

Cookies == {p \in DOMAIN sessions : sessions[p].live} \cup {0}
Room == Len(sessions) < MaxSessions

NewLink(e, purpose) ==
    [owner |-> e, purpose |-> purpose, password |-> account[e].password, live |-> TRUE, sent |-> FALSE]

\* Mutant of SaveLink: earlier links stay usable.
SaveLinkBeside(e, purpose) == links' = Append(links, NewLink(e, purpose))

SaveLink(e, purpose) ==
    links' = Append([l \in DOMAIN links |-> [links[l] EXCEPT
                       !.live = @ /\ ~(links[l].owner = e /\ links[l].purpose = purpose)]],
                    NewLink(e, purpose))

Step(r, at) == req' = [req EXCEPT ![r] = at]
Finish(r) == Step(r, Idle)
Mailing(r) == Step(r, [Idle EXCEPT !.pc = "mail", !.link = Len(links) + 1])

\* Without a mail server no link is ever saved, and there is none to send.
Register(r, e, p) ==
    /\ req[r].pc = "idle" /\ account[e].by = None
    /\ Room /\ Len(links) < MaxLinks
    /\ account' = [account EXCEPT ![e].by = Local]
    /\ sessions' = Append(Forgotten(sessions, p), Session(e, Local, account[e].password, None))
    /\ IF MailAvailable THEN SaveLink(e, "verification") /\ Mailing(r) ELSE UNCHANGED <<links, req>>
    /\ UNCHANGED attempt

\* send_link after the commit; the mail server may fail, and nothing is retried.
SendLink(r) ==
    /\ req[r].pc = "mail"
    /\ links' = [links EXCEPT ![req[r].link].sent = TRUE]
    /\ Finish(r)
    /\ UNCHANGED <<account, sessions, attempt>>

\* A login with the right password arrives, but has not locked the credential.
TryLogin(r, e) ==
    /\ req[r].pc = "idle" /\ account[e].by = Local
    /\ Step(r, [Idle EXCEPT !.pc = "login", !.user = e, !.password = account[e].password])
    /\ UNCHANGED <<account, sessions, links, attempt>>

\* principal: the session a request's cookie names, unless it ended.
SignedIn(s) == sessions[s].live

\* current: the session and its account are read in a transaction of their own; only
\* a password account goes on.  The request also carries the password its user
\* believes to be current.
CurrentUser(r, s) ==
    /\ req[r].pc = "idle" /\ SignedIn(s) /\ account[sessions[s].owner].by = Local
    /\ Step(r, [Idle EXCEPT !.pc = "signed", !.user = sessions[s].owner,
                            !.password = account[sessions[s].owner].password])
    /\ UNCHANGED <<account, sessions, links, attempt>>

\* Mutant of Proves: the password was verified before the credential was locked.
ProvesEarlier(r) == TRUE

Proves(r) == req[r].password = account[req[r].user].password

Login(r, p) ==
    /\ req[r].pc = "login" /\ Proves(r) /\ Room
    /\ sessions' = Append(Forgotten(sessions, p), Session(req[r].user, Local, req[r].password, None))
    /\ Finish(r)
    /\ UNCHANGED <<account, links, attempt>>

RequestVerification(r) ==
    /\ req[r].pc = "signed" /\ ~account[req[r].user].verified
    /\ MailAvailable /\ Len(links) < MaxLinks
    /\ SaveLink(req[r].user, "verification")
    /\ Mailing(r)
    /\ UNCHANGED <<account, sessions, attempt>>

RequestReset(r, e) ==
    /\ req[r].pc = "idle" /\ account[e].by = Local
    /\ MailAvailable /\ Len(links) < MaxLinks
    /\ SaveLink(e, "reset")
    /\ Mailing(r)
    /\ UNCHANGED <<account, sessions, attempt>>

\* A new password of e: its sessions and links of either purpose are deleted.
WithoutOwner(rows, e) == [i \in DOMAIN rows |-> [rows[i] EXCEPT !.live = @ /\ rows[i].owner # e]]

NewPassword(e) ==
    /\ account[e].password < MaxChanges
    /\ account' = [account EXCEPT ![e].password = @ + 1]
    /\ links' = WithoutOwner(links, e)

ChangePassword(r, p) ==
    LET e == req[r].user IN
    /\ req[r].pc = "signed" /\ Proves(r) /\ Room
    /\ NewPassword(e)
    /\ sessions' = Append(Forgotten(WithoutOwner(sessions, e), p),
                           Session(e, Local, account[e].password + 1, None))
    /\ Finish(r)
    /\ UNCHANGED attempt

\* consume_token finds the row of a link that was mailed ...
FindLink(r, l) ==
    /\ req[r].pc = "idle" /\ links[l].live /\ links[l].sent
    /\ Step(r, [Idle EXCEPT !.pc = "found", !.link = l])
    /\ UNCHANGED <<account, sessions, links, attempt>>

\* Mutant of Consumable: the row found before the lock is used.
ConsumableOnce(l, purpose) == links[l].purpose = purpose

\* ... and deletes it once it has the lock: only the row it deletes counts.
Consumable(l, purpose) == links[l].live /\ links[l].purpose = purpose

VerifyEmail(r) ==
    LET l == req[r].link IN
    /\ req[r].pc = "found" /\ Consumable(l, "verification")
    /\ account' = [account EXCEPT ![links[l].owner].verified = TRUE]
    /\ links' = [links EXCEPT ![l].live = FALSE]
    /\ Finish(r)
    /\ UNCHANGED <<sessions, attempt>>

ResetPassword(r) ==
    LET e == links[req[r].link].owner IN
    /\ req[r].pc = "found" /\ Consumable(req[r].link, "reset")
    /\ NewPassword(e)
    /\ sessions' = WithoutOwner(sessions, e)
    /\ Finish(r)
    /\ UNCHANGED attempt

-----------------------------------------------------------------------------
(* Sign-in at the identity provider, and the development sign-in.           *)

\* login: the attempt is stored, and its state handed to the browser.
BeginSignIn(a) ==
    /\ attempt[a] = "unborn"
    /\ attempt' = [attempt EXCEPT ![a] = "open"]
    /\ UNCHANGED <<account, sessions, links, req>>

\* callback deletes the attempt before it asks the provider ...
Callback(r, a) ==
    /\ req[r].pc = "idle" /\ attempt[a] = "open"
    /\ attempt' = [attempt EXCEPT ![a] = "spent"]
    /\ Step(r, [Idle EXCEPT !.pc = "provider", !.from = a])
    /\ UNCHANGED <<account, sessions, links>>

\* Mutant of MayBe: an account with the same email is taken for the same person.
MayBeLinked(i, e) == ~\E f \in Emails \ {e} : account[f].by = i

\* create_user returns the account of subject i, or creates it under e.
MayBe(i, e) ==
    IF \E f \in Emails : account[f].by = i THEN account[e].by = i ELSE account[e].by = None

CreateUser(r, i, e) ==
    /\ MayBe(i, e)
    /\ account' = [account EXCEPT ![e].by = IF @ = None THEN i ELSE @]
    /\ Step(r, [Idle EXCEPT !.pc = "profile", !.user = e, !.by = i, !.from = req[r].from])
    /\ UNCHANGED <<sessions, links, attempt>>

\* ... which names a subject and its verified email.
Profile(r, i, e) == req[r].pc = "provider" /\ CreateUser(r, i, e)

DevelopmentLogin(r, e) == req[r].pc = "idle" /\ CreateUser(r, DevIdentity(e), e)

\* _start_session: the old session goes in one transaction, the new one comes
\* in the next.
ForgetPrevious(r, p) ==
    /\ req[r].pc = "profile"
    /\ sessions' = Forgotten(sessions, p)
    /\ Step(r, [req[r] EXCEPT !.pc = "session"])
    /\ UNCHANGED <<account, links, attempt>>

StartSession(r) ==
    /\ req[r].pc = "session" /\ Room
    /\ sessions' = Append(sessions, Session(req[r].user, req[r].by, account[req[r].user].password,
                                           req[r].from))
    /\ Finish(r)
    /\ UNCHANGED <<account, links, attempt>>

\* logout, and the expiry of a session, a link or an attempt; rows that
\* cleanup_expired deletes were already invisible.
Logout(s) ==
    /\ sessions[s].live
    /\ sessions' = [sessions EXCEPT ![s].live = FALSE]
    /\ UNCHANGED <<account, links, attempt, req>>

Lapse ==
    /\ \/ \E l \in DOMAIN links : /\ links[l].live /\ UNCHANGED attempt
                                   /\ links' = [links EXCEPT ![l].live = FALSE]
       \/ \E a \in Attempts : /\ attempt[a] = "open" /\ UNCHANGED links
                              /\ attempt' = [attempt EXCEPT ![a] = "spent"]
    /\ UNCHANGED <<account, sessions, req>>

\* The handler refuses, fails or crashes between its transactions.
Dropped(r) ==
    /\ req[r].pc # "idle"
    /\ Finish(r)
    /\ UNCHANGED <<account, sessions, links, attempt>>

Handle(r) ==
    \/ \E e \in Emails, p \in Cookies : Register(r, e, p)
    \/ \E e \in Emails : TryLogin(r, e) \/ RequestReset(r, e) \/ DevelopmentLogin(r, e)
    \/ \E s \in DOMAIN sessions : CurrentUser(r, s)
    \/ \E p \in Cookies : Login(r, p) \/ ChangePassword(r, p) \/ ForgetPrevious(r, p)
    \/ \E l \in DOMAIN links : FindLink(r, l)
    \/ \E a \in Attempts : Callback(r, a)
    \/ \E i \in Identities, e \in Emails : Profile(r, i, e)
    \/ RequestVerification(r) \/ VerifyEmail(r) \/ ResetPassword(r)
    \/ SendLink(r) \/ StartSession(r) \/ Dropped(r)

Next ==
    \/ \E r \in Requests : Handle(r)
    \/ \E a \in Attempts : BeginSignIn(a)
    \/ \E s \in DOMAIN sessions : Logout(s)
    \/ Lapse

Spec == Init /\ [][Next]_vars

-----------------------------------------------------------------------------
\* docs/accounts.md:43: "Password reset and password change revoke every existing
\* session and outstanding account link."  No session that is open, and no link
\* that still works, dates from an earlier password, whatever was in flight when
\* the password changed.
NothingOutlivesChange ==
    /\ \A s \in DOMAIN sessions :
         sessions[s].live => sessions[s].password = account[sessions[s].owner].password
    /\ \A l \in DOMAIN links :
         links[l].live => links[l].password = account[links[l].owner].password

\* password_db.py:80: a later link supersedes earlier ones of its kind.
NewestLinkOnly ==
    \A i, j \in DOMAIN links :
        i < j /\ links[i].owner = links[j].owner /\ links[i].purpose = links[j].purpose
            => ~links[i].live

\* Every session was earned: it was obtained the way its account signs in, so that
\* nobody reaches an account through another identity that claims the same email,
\* and one sign-in attempt at the provider opens at most one, however often its
\* callback is repeated.
SessionsAreEarned ==
    /\ \A s \in DOMAIN sessions : sessions[s].by = account[sessions[s].owner].by
    /\ \A s, t \in DOMAIN sessions : sessions[s].from = sessions[t].from /\ s # t => sessions[s].from = None

\* A password changes only through a request that proved the password current
\* at that moment, or through the newest reset link of the account, still unused.
ChangedByRightful ==
    [][\A e \in Emails : account'[e].password # account[e].password =>
         \E r \in Requests :
            \/ req[r].pc = "signed" /\ req[r].user = e /\ req[r].password = account[e].password
            \/ /\ req[r].pc = "found"
               /\ LET l == links[req[r].link] IN l.owner = e /\ l.purpose = "reset" /\ l.live]_vars
=============================================================================
